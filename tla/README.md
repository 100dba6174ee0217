# A verification of AsoBeast

AsoBeast tracks apps in the app stores: it captures listings, reviews, ranks and
keywords every day, tells a workspace what changed by mail and webhook, keeps a
queue of findings ("actions") for its users and sells subscriptions through
Stripe. The program is a NestJS api (`src/apps/api/src`) on Postgres (through
Prisma), BullMQ queues on Redis, Stripe and the stores; a Next.js frontend, an MCP
server and shared packages are stateless around it.

What is hard in it is not one algorithm but the protocols around rows: several
processes, retried jobs and HTTP requests read a row, wait for something slow
(Stripe, a queue, detectors over a whole workspace) and write; each step may fail,
be repeated or be the last its process takes. These modules are about those
protocols. Paths below are relative to `src/apps/api/src` unless they begin with
`docs/`.

## 1. Inventory

| Component | State it keeps | Operations | Talks to | What is hard | What makes it correct |
|---|---|---|---|---|---|
| Alert outbox and flush (`alerts/alerts.dispatcher.ts`, `alert-flush.service.ts`, `alert-delivery-flow.ts`) | `AlertEvent` rows: payload, claim, flushed time; jobs of the delivery queue | dispatch, flush, retention | pipeline (end of the daily run), manual route, delivery worker | two flushes at once, a crash between queueing and completing, a fact dispatched again while it is claimed, a change of delivery mode | each claim is delivered whole, in the text the outbox shows, once; nothing pending is lost; a flush that says it succeeded did |
| Billing checkout (`billing/billing.service.ts`) | lease token and time, recorded session id on the workspace | checkout | Stripe, reconciler | a call that is slower than its lease, lost answers of Stripe, a crash between Stripe and the row | at most one session can be completed, and the row names it |
| Subscription synchronisation (`billing/billing-webhook.service.ts`, `billing-reconciler.service.ts`, `billing.worker.ts`) | the workspace's copy of its subscription, time of the last event, inbox of events | receive, apply, replay, reconcile | Stripe, billing queue, checkout | events out of order, twice or never; a repair that asks Stripe while events are applied | the row agrees with Stripe once the events are settled, and in the end whatever was lost |
| Action centre (`actions/`) | `ActionItem` and `ActionEvent` rows | generator run, change, bulk change, undo, retention | pipeline, detectors, users | a run takes its instant, evaluates for minutes, reads, and writes over what users decided; undo after undo | a decision outlives every run that did not see it; counts, status and dates agree with the history; an undo restores exactly |
| Account deletion (`account/account-deletion.service.ts`) | due date, claim of the erasure, Stripe customer | request, cancel, erase due | Stripe, retention job, checkout | a crash or a lost answer between Stripe and the rows, a second request meanwhile | no customer left billed without a workspace; the last operator survives; a cancelled deletion costs nothing |
| Email alerts (`alerts/email-alert*.ts`, `confirmation-mail.limiter.ts`, `default-alert-intro.ts`) | address, confirmation and unsubscribe times | create, update, confirm, resend, unsubscribe, introduce | mailer, delivery worker | an address changed while a link is under way, a mail accepted whose answer is lost | mail goes only to who confirmed; unsubscribing holds |
| AI allowance and creative analysis (`ai/ai-gateway.service.ts`, `audit/audit-ai-runs.service.ts`, `audit-creative.worker.ts`) | one row per call of the month; one analysis row per app; its job | reserve, count, give back, sweep; request, start, record, fail | model, queue, retention | a slow call meets the sweep of abandoned ones; a run that was replaced is retried | spending exceeds the allowance only by answers that came after their call was given back; what is shown was paid for |
| Trials (`billing/trial-starts.ts`, `auth/trial-claims.ts`, `auth/trial-claim-backfill.ts`) | claimed mailboxes and cards, date of the settlement | settle, backfill | Stripe, webhook, reconciler | Stripe is asked inside a transaction that may be rolled back and repeated | one trial per mailbox and card; nobody loses a trial to itself |
| Daily pipeline (`jobs/pipeline.*`, `enqueue-replacing-failed.ts`) | jobs and their flow | fan out, shed, complete | all capture services, flush, actions | a child that fails, a fan-out retried half way | the completion runs once, and runs |
| Proxy egress (`store-providers/egress/`) | leases and health of endpoints in the database | acquire, release, cool down | store providers | processes that share endpoints, a request that outlives its hold | pacing per endpoint holds |
| Keyword discovery (`keyword-discovery/`) | proposed phrases of an app, when each was queued; jobs of the week | propose, plan, release, track, dismiss, prune | stores, plan limits, queue, retention | plans that overlap (weekly sweep, refresh, import), fail after they reserved, or outlast their week | a week has no more searches than its cap |
| Plan limits (`auth/quota.service.ts`) | none of its own: counts rows | admit | keywords, apps, competitors, charts, billing | two requests for the last room, a plan that changes meanwhile | an admission leaves the workspace within its limit, or no worse than it was |
| Review replies (`reviews/review-reply-poster.service.ts`) | reply and its state | post, withdraw | stores | an accepted reply whose answer is lost | what the row says is what the store shows |
| Authentication, team (`auth/`) | users, sessions, one-time tokens, invitations | register, sign in, reset, verify, invite | mailer | a link spent twice, two registrations for the first operator | single use, one first operator |
| Retention (`jobs/retention.service.ts`) | none of its own | prune each table by age | every owner of rows | rows removed that somebody still needs | only finished things go |
| Capture of apps, keywords, charts, ranks, reviews, screenshots, store reports | one row a day or per item | upserts | stores, pipeline | mostly data, not order | out of scope for now |
| Scoring, audit rubric, analytics, changes, metadata | none or derived | pure computation, much of it on floats | - | numeric detail | not for these tools |
| Frontend, MCP server, shared packages | none | rendering, validation | api | - | - |

`PROJECT.json` lists them with their files, and every hazard at its line with the
properties that watch it or the reason none does yet.

**Interaction.** The pipeline's completion starts a flush and the generator; the
flush feeds the delivery worker; retention removes what the outbox and the action
centre have finished with; checkout asks the reconciler before it opens anything,
and a payment comes back through the webhook inbox. The modules below do not
assume an order between those: a flush, a run or a reconciliation may start at any
moment and overlap any other, which is what retried jobs and manual routes do.

## 2. Plan

Order: what loses or invents something a customer was promised first, then what
costs a retry.

1. `AlertPromise`, `AlertOutbox`: what the outbox promises and how it keeps it,
   with refinement, liveness and proofs. **done**
2. `Checkout`: the lease and the sessions, with proofs. **done**
3. `SubscriptionSync`: the row and Stripe, safety and liveness, with proofs of its
   safety. **done**
4. `ActionLifecycle`: one finding under runs, users, undo and retention, with
   proofs. **done**
5. `WorkspaceErasure`: grace period, claim, Stripe customer, registration lock, with
   the proof that ties claim, customer and workspace. **done**
6. `EmailAlert`: consent of recipients, with proofs; `TrialPromise`, `TrialStarts`: one
   trial per mailbox and card, and settlements that look as if made at once, with the
   proof of both. **done**
7. `CreativeRun` (the AI allowance under an analysis) and `ProxyLease`: counters and
   leases at their limits, with proofs. **done**
8. `DiscoveryWeek` (the weekly cap of searches) and `QuotaAdmission` (the room of a
   plan): reservations and counts under a lock, with proofs. **done**
9. Looked at and left: `DailyPipeline` (what is hard in it is the flow of BullMQ),
   `ReviewReplyPoster` (no state to protect), the one-time tokens of `auth/`
   (single conditional updates); section 6.
10. The safety of what is modelled is proved: every invariant and action property of a
   passing run is a theorem (section 5). Not stated, so not proved: delivery in
   the instant mode of the outbox, of which `FlushedIsFinal` and `FlushReportsTruth` speak.

Every module takes its actors and values as constants with a named assumption,
has one action per awaited call or per transaction, declares no `RECURSIVE`
operator and states invariants as conjunctions of named parts, so that it can be
proved about.

## 3. Modules

**`AlertPromise`** is abstract: facts have a text and a claim; a claim is sealed
once, given to the queue, finished as a whole and then forgotten as a whole.

**`AlertOutbox`** is the code for one workspace. A row is `payload`, `flushId`,
`flushed` at its dedupe key. A dispatcher goes through `Dispatch`, `UpdateRow`,
`CreateRow`, `UpdateRowAgain` (the three calls of `collectRow`) and, in instant
mode, `FanOut`. A flusher goes through `BeginFlush`, `ClaimCommits` or
`ClaimConflicts` (the serializable transaction and its bounded retries),
`LoadClaim`, `ReadChannels`, `AddJobs`, `CompleteClaim` for each claim in order of
its time, and `EndFlush`; `ClaimFails` is any call of `processClaim` that throws.
`PruneClaim` and `PruneSettled` are retention (the first of a finished claim, whose rows
age together, the second of a row flushed by itself, also out of a claim that is only
partly flushed), `ToggleChannel` is a user,
`SwitchMode` a restart with another `ALERT_DELIVERY`, `CrashFlush` and
`CrashDispatch` a process that dies. What a message says is a text; its layout and
grouping are not modelled. A serializable transaction is its snapshot and a commit
that succeeds only if no row of the snapshot was written since, which is what
Postgres promises of it. `Promised` maps it to `AlertPromise`: claimed is
sealed, `addBulk` is given, `flushedAt` is done.

**`Checkout`** is one workspace and any number of calls of `checkout`. The lease is
`holder` and `aged`; the row's session is `recorded`; a call's step is `pc`.
Stripe is what the code relies on: sessions are open, paid, expired or unknown, and
only a session whose address an answer carried can be paid. `CreateUnanswered` and
`RecordUnanswered` are a success whose answer is lost.

**`SubscriptionSync`** is one workspace, its subscriptions at Stripe, the inbox of
events, the worker that takes one job at a time and the reconciliations, nightly
and from requests. `Apply` is `applySubscription`, `Look` and `ListHeld` are what
the reconciler asks, `Project` and `Revoke` what it writes. A stored event stays
stored; a job is retried `Attempts` times and then kept as failed until a replay.
Cancelling and subscribing anew take different seconds (`Subscribe` moves the
clock): Stripe's times have whole seconds and a person cannot be faster. `outdated` is
history: whether Stripe has changed between its last answer to the nightly run and what
the run writes. No guard reads it.

**`ActionLifecycle`** is one fingerprint: its row and its history. A run is `BeginRun`
(takes its instant, then loads the data its detectors judge), `Load` (reads the row; the
detector fired or not), and `ApplyStep` or `CreateStep` (the transaction; `Outcome` is
`nextLifecycle` at the instant of the run, `Unchanged` is `unchangedSinceRead`,
`Written` and `Recorded` are what it sets) or `CrashRun`; users may act between any
two of them. A user's `Change` and
`Undo` are single steps, for the code locks the row. The history is kept in the
order of writing and read by date, as the code reads it: a run dates its events
with the moment it began. `Restored` is `restoredState` with the count a reopening
had added. `Prune` and `Cascade` remove the row with its history. The detectors,
the cap on new findings and the priorities are an arbitrary answer. A bulk change
is one change per finding in the code too.

**`WorkspaceErasure`** is one workspace from the request of its deletion to its end. A
request goes through `RequestDeletion`, `ReadTrial`, `CancelTrial` and
`ScheduleDeletion`; `CancelDeletion` is one statement in the code too. The retention
job is `FindDue` (the list), `CheckOperator`, `ClaimErasure` and `ReadCustomer`
(`claim`), `ReleaseBilling` or `ReleaseFails` (`releaseBilling`, answered or not),
`LetGo`, and `FinishErasure`, the transaction of `finish`; `CrashRun` leaves a claim
behind. Beside it a checkout gives the workspace a customer and opens a session
(`customerFor`, `claimCheckout`, `recordCheckout`; its lease and older sessions are
`Checkout`'s), a trial is charged or ends, the webhook tells the row of it, and accounts
register. `createCustomer` has the customer it replaces as its idempotency key, so
customer c + 1 is the one that replaces c. Two things are left out: a second
subscription of the same customer, and an instance that starts anew after its
operator left.

**`TrialStarts`** is several workspaces whose trials are settled. A call of `settle` is
`BeginSettle` (what it reads before), `Lock` (the lock of the workspace and the second
look at `trialClaimedAt`), `ClaimMailbox` and `ClaimCard` (two inserts that do nothing
on a conflict; an insert waits for an open transaction with the same key, `Contested`),
`EndTrial` (Stripe, inside the transaction) and `Commit` or `RollBack`. A `TrialClaim`
row has no workspace; `taken` remembers for which it was made, because the properties
are about that. `ReadPage` and `ClaimPage` are the backfill. A payment method that is
not a card, and a workspace without owner, are `NoKey`.

**`TrialPromise`** is what settling promises, without transactions: one step `Settle`
records the keys of a workspace and leaves its trial running only if none of them was
recorded; `CutShort` ends a trial when some key is another's; what is recorded stays.
`TrialsPromised` is `TrialStarts` seen so: its four variables are those of the same
names, `Commit` is `Settle`, an `EndTrial` that ends something is `CutShort`, `ClaimPage`
is `Backfill`, and locks, waits, inserts, rollbacks and retries are not seen. The
abstract module does not say which keys are asked for: the owner and the card are read
before the lock, and may be others by the commit.

**`EmailAlert`** is the recipients of alerts. A call of the api creates (`BeginCreate`
asks outside the transaction whether the address is a member's), changes or removes an
alert, or resends; a mail on its way is `ReserveMail`, `ClaimReserved` (a resend takes
its allowance after, a new address before), `Send` or `SendFails`, `Restore`, `Refund`,
each of which may fail, and `CallDies`. Instants are numbered, for a link is signed with
the instant of its mail: what matters is which one. A press on a link is two steps,
the look-up with its checks (`OpenConfirmation`, `OpenStop`) and the update
(`ConfirmAddress`, `Pause`). `consent` is history: who agreed to an alert since it has
its address, by opening its link, or by being a verified member when it was given.

**`CreativeRun`** is the analysis of one app and the calls of one month. A request is
`Request` (the read), `ReserveCall` (under the lock), `Store`, `Add`, and after an
error `ReleaseAsked` and `Unqueue`; the worker is `StartRun`, `Answered` or `NoAnswer`
(the call is counted as soon as the model answered, also with nonsense), `RecordRun`,
and after the last attempt `FailRun` and `Abandon`. `Stall` is BullMQ, which runs a job
of a dead worker once more. `Buy` and `Bought` are the other features, which spend
within their request. `ReleaseAbandoned` is the nightly retention. A tick of the clock
is longer than `CREATIVE_RUN_TIMEOUT_MS`.

**`ProxyLease`** is one endpoint for one store: `Ask` takes the instant, `Claim` is the
one statement that checks and takes the lease, `SendRequest` and `EndWork` the job,
`GiveUp` or `ReadHealth` and `WriteHealth` the end, which asks whether the lease is
still its own. Beside them probes, retirement, failing statements and dying jobs. Time
is counted in `minIntervalMs`.

**`DiscoveryWeek`** is one app. A plan is `StorePool`, `ReadOpen`, `ReserveChecks` (the
transaction under the lock of the app), then `EnqueueChecks`, or `EnqueueFails` and
`ReleaseChecks`; `PlanEnds` are its early returns. `queuedAt` is the instant of the plan
and identifies it, so the model keeps the plan; which phrases it selects of those it
read is free. Beside plans, users track, untrack and dismiss a phrase and retention
removes those nobody proposed for long (`seen` is FALSE); `NextWeek` begins the next
week. `searches` are the jobs, by phrase and week as their ids are.

**`QuotaAdmission`** is `admit` for the keywords of a workspace: `BeginAdmission` reads the
limit, `SerializeAdmission` takes the lock, `CountBefore`, `WriteAdmitted`, `CountAfter`
and `CommitAdmission` are its transaction, `AdmissionFails` any end before the commit.
What it wrote is seen by others at the commit. Beside admissions the plan changes,
keywords are paused, and a captured listing tracks words without admission
(`SyncFromSnapshot`). A plan without a limit admits everything and needs no model.

**`MCClaims`** and **`MCAllowances`** check several small modules in one run: `part`,
chosen in the initial state, says which of them runs; they share no state, so nothing is
gained by running them together, and each is explored in full. That the types hold is a
theorem of each part.

The modules whose names begin with MC give the constants to TLC. `AlertOutboxProofs`,
`AlertSafetyProofs`, `BillingProofs` (`Checkout` and `TrialStarts`),
`SubscriptionSyncProofs`, `ActionLifecycleProofs`, `WorkspaceErasureProofs`,
`EmailAlertProofs` and `ShareProofs` (`CreativeRun`, `ProxyLease`, `DiscoveryWeek` and
`QuotaAdmission`) hold the proofs.

## 4. Runs

| Run | Shows | Distinct states |
|---|---|---|
| `outbox_safety` | two dispatchers and two flushers in batched mode: the safety of the outbox, and that it implements `AlertPromise` | 356 000 |
| `outbox_modes` | with restarts between the two modes and a channel that comes and goes: nothing sent as it happened is sent again, and a flush that returns has claimed all it found and flushed all it claimed, also when its last try to claim met a conflict | 831 000 |
| `outbox_live` | with every kind of failure, each pending fact is flushed, and the delivery half of the promise | 5 800 |
| `outbox_switch` | **violated**: a claim interrupted in batched mode is broken by instant writes | - |
| `checkout_forget` | **violated**: with a session Stripe does not know any more, two can be completed | - |
| `sync_events` | events late, twice, out of order, failed and replayed: once all are settled the row agrees with Stripe | 350 000 |
| `sync_live` | reconciliations amid outages, lost events and forgotten subscriptions: a backed plan is never revoked, a nightly run that nothing overtakes leaves a row that agrees, and the row agrees in the end | 298 000 |
| `sync_undo` | **violated**: a reconciliation writes over a checkout that completed meanwhile | - |
| `actions_life` | runs that overlap users and each other, with users before and after the reading: decisions outlive runs, row and history agree, an undo gives back | 317 000 |
| `erasure` | a retention job that crashes, is not answered and comes again, against requests, cancellations, a checkout and registrations: nobody is billed for an erased workspace, the operator stays, a cancellation finds everything as it was, what is due is erased | 423 000 |
| `claims` | three checkout calls that race, lose the lease, fail, die; settlements of two trials that overlap, are rolled back after Stripe answered and repeated beside the backfill, and implement `TrialPromise`; three jobs that lease an endpoint and outlive their hold; three plans that reserve the searches of a week, fail and release them beside users and retention; two admissions for the last room of a plan that changes | 1 316 000 |
| `allowances` | confirmation mails of an alert whose address changes while links are under way, mails fail and answers are lost; AI calls of an analysis whose requests race and whose job is retried, stalls and is replaced while retention sweeps | 1 641 000 |

### What the three violations say

* `outbox_switch` (`alerts/alerts.dispatcher.ts:39`). The documentation says that an
  interrupted claim is "resumable with the same rows". In instant mode a write
  matches any row of the key, also one in an unfinished claim, and marks it
  flushed. A claim of two rows becomes half flushed, and `processClaim` refuses it
  until retention removes the flushed row by its own date
  (`jobs/retention.service.ts:196`, 30 days by default; `docs/guides/alerts.mdx:484` has
  unfinished claims retained regardless), and what is left is delivered then.
* `checkout_forget` (`billing/billing.service.ts:193`). `forgetCheckout` does not ask
  for the lease token as `recordCheckout` and `releaseCheckout` do. A call whose
  lease aged out while Stripe answered "no such session" clears what a newer call
  recorded, and the next call opens a second session beside it.
* `sync_undo` (`billing/billing-reconciler.service.ts:212`). Only the revocation is
  conditional on the row being as it was read; the projection is not, and
  writes an older answer over what the webhook recorded. `sync_live` shows that a
  later nightly run repairs it.

### Bounds, and why they are enough

* Outbox: two keys are needed for a claim that is partly flushed, two flushers for
  competing claims, two claims for the order of claims, two attempts for the first
  conflict and the last. `MCAlertOutbox!Narrow` keeps out the product of two races
  that do not meet: either one key is in play (and two dispatchers race over it
  with two texts) or one dispatcher with one text is (and two keys are claimed).
  `outbox_modes` and `outbox_live` have one dispatcher and one flusher: they ask
  about restarts and progress; a crashed flush followed by another is there.
  `CreateRow` waits while no claim number is left for the row; that keeps the bound
  `MaxClaims` from leaving a pending row that could never be claimed.
* Checkout (in `claims`): three calls give an owner, the one that took over and the one
  after; the violation needs a fourth.
* Synchronisation: two subscriptions (one ended, one new), three events for an order
  that is wrong in the middle. Liveness has two events, an outage and one
  request beside the nightly run. `clock` moves only with an event.
* Action centre: three days, with a window of undo of one, reopening after two, snooze
  and retention of one, so that each limit is crossed and just not crossed. Four
  events in a history hold an opening, a closing, a confirmation and a
  reopening; two rows for a run that read the first. `Narrow` lets two runs
  overlap, two users act and a second row exist only while the history has at most
  two events, where such races show. What it leaves out the proofs cover.

* Erasure: two instants with a grace period of one are before, at and (for a request
  made again) after the due date. Two customers are the first and the one that
  replaces it after a deletion. One request, one checkout and one job at a time:
  each may die and begin again beside what the dead one left. The theorems have
  any number of each.

* Trials: two workspaces, two mailboxes and one card give two who share either; two
  settlements, of one workspace (a retry beside the first) or of two. Each may be
  rolled back any number of times. A workspace that has neither owner nor card to begin
  with claims nothing and is left out there (`MCClaims!Init`), not in the proofs.
* Leases: three jobs are one that outlived its hold, one that took over and the next.
  A hold and a cool-down of two intervals and four instants cross each limit; one
  request makes a lease pay for more than its start.
  `MCClaims` explores probes and retirement until the last of the jobs has asked, and
  nothing after an `overrun`, when both properties claim nothing; the theorems have all.
* Searches: three plans are one that releases late, one that reserved meanwhile and one
  that reserves what was wrongly freed; two phrases exceed a cap of one; two weeks let a
  plan outlast its own. `MCClaims` stops exploring once something escaped the count,
  after which `WeeklyCap` claims nothing.
* Room: two admissions race over two keywords; limits of zero to two are below, at and
  above what is tracked.
* Mails: one alert, two addresses, two calls and one press; two instants give an older
  and a newer link. `MaxWaiting` of one and an allowance of two are reached. With two
  alerts only the room to wait and the allowance are shared, and both are of a call.
* Calls: two requests for an allowance of one: the second reserves what the first gave
  back. Two attempts, one tick for a run that expires and a reservation that is swept.
  The theorems have any number of each.

`SYMMETRY` is used in runs with invariants and action properties only.
`CHECK_DEADLOCK FALSE` stands where the bounded system stops: no claim left, all
calls answered, all events sent.

### Fairness

* `AlertOutbox!Fairness`: the daily pipeline starts a flush again and again and a
  flush that is not killed goes on (WF of `BeginFlush`, `EndFlush`). The
  transaction, loading, reading channels, queueing and completing have SF: each
  may fail, conflict or be cut off by a crash any number of times, but not every
  time it is tried. Without it no retry promises anything. Dispatchers, users and
  retention owe nothing.
* `SubscriptionSync!FairSpec`: the worker takes and goes on with its jobs, a
  reconciliation that began goes on, the nightly job comes again. Stripe, the
  delivery of events and requests owe nothing: events may be lost for ever.
* `WorkspaceErasure!Fairness`: the retention job comes every night and goes on (WF), and
  from some night on neither a crash nor Stripe stops it. A step that fails every
  single night would keep the workspace, as the documentation says it should. The
  owner, checkouts and accounts owe nothing.

## 5. Proofs

TLAPS checks, for any number of actors and any values of the bounds:

| Theorem | Says | By |
|---|---|---|
| `AlertOutboxProofs!TypeCorrect` | types, in both modes | itself inductive |
| `AlertOutboxProofs!NothingUnsentIsLost`, `FlushedStaysFinal` | action properties, in both modes | types |
| `AlertOutboxProofs!FlushIsHonest` | a flush gets past its transaction only with all it found, and one that returned has flushed its claims, in both modes | `HonestInv`: claims are numbered in order, and what a flush without a failure is done with is flushed; `ClaimsWhatItFound` for the transaction |
| `AlertSafetyProofs!ClaimsStayWhole`, `JobsTellTheOutbox`, `FlushedIsDelivered`, `ClaimsAreSealed` | the safety of batched mode | `BatchedInv` |
| `AlertSafetyProofs!OutboxImplementsPromise` | batched mode implements `AlertPromise` (safety) | `BatchedInv`, each step mapped to a step or a stutter |
| `BillingProofs!TrialTypes` | types | itself inductive |
| `BillingProofs!KeysAreForOneTrial` | two running settled trials share no mailbox and no card | `TrialInv` |
| `BillingProofs!TrialsEndForAnother` | a trial is ended only for a claim of another workspace | `TrialInv` |
| `BillingProofs!TrialsImplementPromise` | the settlements implement `TrialPromise` | `TrialInv` with `AskedAreKept`, each step mapped to a step or a stutter |
| `BillingProofs!PromiseIsEnough` | `TrialPromise` keeps two running settled trials from sharing a key | `PromisedInv` |
| `EmailAlertProofs!MailTypes` | types; allowances between nothing and their bound | with `SpentInv` |
| `EmailAlertProofs!MailboxesAreSpared` | mails received and under way are covered by the allowance taken | `SpentInv` |
| `EmailAlertProofs!ConsentIsBacked`, `StoppedStayOff`, `NewestLinksWork` | consent, unsubscribing, the link that works | `RowInv` |
| `ShareProofs!RunTypes`, `LeaseTypes` | types | themselves inductive |
| `ShareProofs!AllowancesHold`, `ResultsArePaid` | the month's spending; what is shown was counted | `ShareInv` |
| `ShareProofs!EndpointsAreHeldAlone`, `RequestsFitTheRate` | leases of an endpoint | `PoolInv` |
| `ShareProofs!WeekTypes`, `RoomTypes` | types | themselves inductive |
| `ShareProofs!WeeksAreCapped` | no week has more searches than the cap | `WeekInv` |
| `ShareProofs!RoomIsHeld` | admissions stay within the limit, or add nothing to what they counted | `RoomInv` |
| `BillingProofs!CheckoutTypes` | types | itself inductive |
| `BillingProofs!OnlyClosedIsReplaced` | the row trades no completable session for another | `ClosingInv` |
| `BillingProofs!PayableStaysRecorded`, `OneIsPayable` | while Stripe knows its sessions, the only completable one is recorded | `PayableInv` |
| `SubscriptionSyncProofs!SyncTypes` | types; one job or nightly run is at work at a time | `TypeInv`: only what was sent is queued, and what may still run has a try left |
| `SubscriptionSyncProofs!RevokesAreUnbacked` | no step takes a plan that Stripe backs | `RevokeInv` |
| `SubscriptionSyncProofs!NightsRepair` | a nightly run that is answered and not overtaken leaves a row that agrees with Stripe | `RepairInv` |
| `SubscriptionSyncProofs!EventsMakeAgree` | once all events are settled the row agrees with Stripe, if `Undisturbed` | `AgreeInv` |
| `ActionLifecycleProofs!ActionTypes`, `ReopensAreCounted` | types and the count of reopenings | `ActionInv` |
| `ActionLifecycleProofs!RowIsTold` | no date of another status is left in a row, and the end of a history in order says what the row is, a confirmation included | `UndoInv` |
| `ActionLifecycleProofs!DismissedIsLeft`, `SnoozeIsRespected`, `DoneIsLeftItsTime` | what no run may do to a decision | `ActionInv`, and the lemma `RunWrites` |
| `ActionLifecycleProofs!UndoGivesBack` | an undo right after a change gives back the row as it was | `UndoInv` |
| `WorkspaceErasureProofs!ErasureTypes` | types | itself inductive |
| `WorkspaceErasureProofs!NobodyIsBilledForNothing` | no subscription outlives the workspace | `BillingInv` |
| `WorkspaceErasureProofs!ClaimsAreScheduled`, `OperatorIsKept` | a claim is on a scheduled deletion; the operator stays | types |
| `WorkspaceErasureProofs!CancelKeepsCustomer` | while Stripe answers, a cancelled deletion has removed nothing | `CancelInv` |

Why the strengthenings. *`BatchedInv`*: "a flushed fact reached its channels" does
not survive `CompleteClaim` unless the flush that completes knows the jobs
hold what the rows say (`EnqueuedReached`), which needs that what it loaded is
still so (`LoadedIsCurrent`), which needs that claimed rows are written by
nobody (`RowsInOrder`, batched mode) and that a job another flush queued for the
same claim is complete (`JobsAreComplete`). `outbox_safety` checks it as an invariant
too. *`ClosingInv`*: the holder of the lease knows that the row still names what it
found, and after closing, that the row names nothing completable; a call that lost
the lease knows nothing and writes nothing except in `forgetCheckout`, so
`PayableInv` adds that nobody forgets while Stripe knows all. *`ActionInv`*: a
done row keeps a date of closing through undos because no event is dated later than
now or before the first instant, and a run's instant is past; the count survives an
undo because taking one event out of a history lowers the number of reopenings by
what the event was (`CountTakenOut`, a bijection of positions). That an undo never
takes the opening out rests on the opening being an event of the system, and users
not being called "system". *`BillingInv`*: the row is deleted on the word of a run that
released a customer some time ago, so everything depends on there being no other:
whoever has subscribed or can is the one the row names (`SubscribersAreNamed`), the row
changes its customer only for the successor of a dead one (`NamesTheLast`,
`Remembers`), and what a run about to finish has released is dead for good
(`FinishersReleased`).

*`TrialInv`*: that two trials share nothing is decided when the later one commits, so it
needs that what a transaction has won is in no table and no other transaction, that a
key it lost is really taken, and that a trial whose keys were lost is no longer running
when it commits. That nobody loses to itself rests on the claims of a workspace being
made by its committed settlement or by the backfill for a settled one: a retry of an
unsettled workspace cannot meet its own. *`AskedAreKept`*: to be one step, the settlement
must record all it asked for, so each key a transaction has passed was won by it or is
recorded already; that what it won is still recorded for nobody at the commit is
`TrialInv`, and what waiting for the other transaction (`Contested`) is for. *`SpentInv`*: the allowance is given back by
whoever owes it, so the calls that owe are counted with the mails; the count moves by
one with each step, which is the lemma about cardinalities. *`RowInv`*: the instant of a
row is that of the newest mail, or of one under way whose call still has it; so a call
that restores finds its own instant or nothing, and two calls never hold the same.
*`ShareInv`*: a call in `reserved` or `counted` was inside the limit when it was taken,
and comes back only through `givenBack`; a job that records has had its call counted or
refused. *`PoolInv`*: the row's last claim is not older than any lease, and while no job
wrote over a newer one, it waits at least as long as every lease that is open or was
given back in time. *`WeekInv`*: what the queue was given for a week and what plans of the
week still hold is queued in the rows by plans of that week, so the count under the
lock covers it; that a release or retention frees nothing of it is what a plan's own
mark is for. *`RoomInv`*: one admission at a time is between its lock and its end, and
what is tracked and what it wrote is within its limit or its first count from the second
count to the commit, unless a listing was captured in between.

*`RevokeInv`*: a run that would write nothing looked for the subscription it had read and
did not find it. A subscription the row names was at Stripe once, so what is not found is
missing, and stays so until the run writes; the condition of the update then says that the
row still names that one. *`RepairInv`*: what the nightly run is about to write tells what
Stripe holds (`NightlyKnows`) as long as Stripe has not changed since. It follows the
subscription the row names if that is live; otherwise it asks what the customer holds, and
both are the answer because a customer holds one live subscription at most (`OneHeld`). The
row it leaves alone names nothing and entitles to nothing (`BlankIsNothing`). Nothing is
asked of events, of requests or of Stripe's memory: this step of `EventuallyAgrees` is
proved without assumption, that it is taken again and again is what only TLC shows.
*`AgreeInv`*: the times of events are whole seconds, so an event
applied late may tie with the last one; no harm is done because the events of the last
second are of one subscription, and what a job asked of Stripe once the last event was
settled is still so. After the last event is applied no older one gets past its time. A
nightly run holds the worker, so the row is as it read it when it writes. *`UndoInv`*: an
undo computes the row from what remains of the history, so the row before must be what the
history said: the last event gives status and dates, of a confirmed action the last but
one gives the closing, and a column is empty in every other status. That the history still
begins with its opening and remains in order when an event is taken out is what `Without`
has lemmas for. *`CancelInv`*: a customer that is gone from Stripe is gone under a claim,
the claim outlives the run that died, and while every deletion was answered only the
erasure ends it; and a customer the row takes instead is alive, because runs delete only
those the row has named.

Assumptions. Only the named `ASSUME`s of the modules (`OutboxAssumption`,
`CheckoutAssumption`, `SyncAssumption`, `ActionAssumption`, `ErasureAssumption`,
`TrialAssumption`, `MailAssumption`, `RunAssumption`, `LeaseAssumption`, `WeekAssumption`,
`RoomAssumption`): types of the constants, markers that are none of the names,
bounds that are natural numbers, a grace period of at least a day, "system" not a user, no text that is the mark of no row. The theorems
of `AlertSafetyProofs` are for `Modes = {"batched"}`, the setting in which the code makes
the promise; `outbox_switch` shows why. `EventsMakeAgree` is for `Undisturbed`, which is
what `sync_events` checks: without a request that reconciles (`Calls = {}`; with one the
row may be undone, `sync_undo`), while Stripe loses no subscription (`~MayForget`) and
sends nothing late of one that is gone (`~LateEvents`); in each of these the row may
disagree until the nightly run, `NightsRepair` says for all of them that this run repairs
it, and `EventuallyAgrees` that such a run comes.

Only model-checked: liveness and the fair half of the refinement (`PendingIsFlushed`,
`KeepsPromise`, `EventuallyAgrees`, `DueIsErased`), which need ENABLED. Recursion over data and `RECURSIVE` operators are out of this
prover's reach; the modules have none.

## 6. Limits of the model

* `UndoTakesBack`, and `HistoryTellsRow` in what it says of the end of the history, speak of
  histories whose dates are in the order of writing (`Ordered`). A run dates its events
  with the instant it took before its detectors (`actions/actions.generator.ts:93`) and
  reads the rows only after them, so what it writes may be dated before a user's change
  that it has seen; the code then undoes by date. Such a run also confirms a fix with an
  instant, and on data, from before the closing: `verified` may be earlier than `closed`.
  `docs/guides/action-center.mdx:67` says that the first run whose rule stops firing
  confirms it, not from when that run may be; the model has this, no property forbids it.
* A confirmed action reopens at once when it is found again, which is documented:
  `DoneHasItsTime` is about actions that are not confirmed.
* `LateEvents = FALSE` in the runs that check `EventsAgree`: Stripe sends no event of a
  subscription that is gone. With TRUE an old invoice paid late makes the row
  name the ended subscription until the nightly run, which `sync_live` has
  (TRUE) and survives.
* A job id is remembered for ever in `AlertOutbox`; the code keeps it for seven days. A
  claim that is resumed after a week could be delivered twice.
* The delivery worker, its queue's retries and the mails themselves are outside; what is
  promised ends with the job in the queue.
* `CancelRemovesNothing` says "nothing was removed, so nothing needs restoring"
  (`docs/legal/data-retention.mdx:64`) only until a
  deletion at Stripe ends without its answer (`unsure`). After that the code
  cannot know: the run lets go of its claim, the owner may cancel, and the customer
  may be gone. So may it be when a job died after the deletion and the next does
  not reach Stripe, or when one of two overlapping jobs was not answered and lets go of
  the claim of the other. A deletion requested again while a job has claimed the earlier date
  is carried out at once (`FinishErasure` asks for the claim, not for the date); a
  trial set to end stays so when the deletion is cancelled. The model has all of
  these behaviours.
* "Two clicks on the same button while the first is still working spend one call"
  (`docs/guides/ai-features.mdx:38`) is not what the api does: `request` reads the row
  (`audit/audit-ai-runs.service.ts:90`), reserves and then writes it without a lock. Two
  requests (two tabs, two members) that both read no active run reserve a call each, and
  when the job of the first has started before the second writes the row, both ask the
  model and both are counted: `Request(r)`, `Request(s)`, `ReserveCall(r)`, `Store(r)`,
  `Add(r)`, `StartRun(r)`, `ReserveCall(s)`, `Store(s)`, `Add(s)`, `StartRun(s)`, and both
  `Answered`. The page disables its button while a request is pending, which covers one
  tab. `AllowanceHolds` and `ShownIsPaid` hold all the same.
* `HeldAlone` and `FitsRate` are stated until a job that outlived its hold has read that the
  lease was still its own and writes after another took it (`overrun`): the health
  tracker reads and then upserts (`store-providers/egress/proxy-health.service.ts:100`).
* `WeeklyCap` is stated until something escapes the count (`escaped`), in one of three ways.
  The queue took the jobs and its answer was lost: the plan releases what runs. A plan
  that began on Sunday reserved on Monday: jobs are named by its week, rows are counted
  by their instant, and only plans of its own week see what it took. Retention removed
  an unseen row between `openRows` and `reserve` of a plan: nothing is queued in any
  row, yet the search is. A plan that dies after it reserved takes no further step;
  what it reserved stays counted.
* `RoomHolds` excludes an admission during which a listing was captured: `syncFromSnapshot`
  tracks the words of a title without asking for room
  (`keywords/keywords.service.ts:373`), also beyond the limit.
* `NewestLinkWorks` and `MailboxIsSpared` are stated while no answer is lost (`lost`). A
  mail the server took and answered with an error leaves its recipient a link that does
  not work, and was not paid from the allowance; a resend repairs the first.
* `SubscriptionSync!Project` is `align`. What `correct` does after it
  (`billing/billing-reconciler.service.ts:175`), settling the trial, is in `TrialStarts`;
  that a settlement which ended the trial is followed by a fresh read of the row and a
  second write of Stripe's answer (`alignEndedTrial`) is in neither. It is unconditional
  as the first, and what an event applied in between would lose, the next night repairs.
* `WorkspaceErasure` has Stripe configured. Without, `releaseBilling`
  (`account/account-deletion.service.ts:300`) deletes nothing and the erasure goes on: an
  operator who takes the key away while customers exist leaves them to Stripe, and
  `NoOrphanBilling` says nothing of that.
* `CreativeRun!Limit` is the allowance of one plan. The code asks for the plan on each call
  and before the lock (`ai/ai-gateway.service.ts:94`), so after a change to a lower plan a
  month may have more calls than the plan now allows, by those reserved before and by one
  decided on the limit read before. A plan without a limit takes no lock, and there is
  nothing to exceed.
* `EmailAlert!ReserveMail` takes its instant and updates the row in one step; in the code
  the instant is taken just before (`alerts/email-alert-confirmation.service.ts:77`, `:90`).
  Instants stand for the links signed with them, which are compared for equality; an
  instant is numbered when it is written.
* `FitsRate` speaks of requests sent while a lease is open. One that is still in flight
  when its job has returned is not modelled.
* A worker of a stalled job that is alive all the same, and records beside the second
  execution, is not modelled.
* Transactions at the isolation the code asks for, row locks, unique constraints,
  advisory locks and the deduplication of job ids are taken to work as documented.
* Not modelled, of the planned parts. `jobs/pipeline.service.ts`: that a run completes once,
  after all its children and in spite of failed ones, is what the flow of BullMQ does; the
  code configures it, and the modules start a flush or a run at any time, twice or never.
  `reviews/review-reply-poster.service.ts`: a read, a call of the store and a transaction,
  with no lock, lease or retry; nothing in the documents promises more. The one-time
  tokens of `auth/`: each is one conditional update.
* The other components marked `not_modelled` in `PROJECT.json` give their reason there: pure
  computation, reading, or input and output.

## 7. Running

`tlc -workers 2 -config <cfg> <MC module>` for a run of the table (`PROJECT.json`
pairs them), `tlapm <module>` for the proofs. A run takes from seconds to
four minutes, the proofs a few minutes.

`PROJECT.json` also names for each property a mutant: an operator of the module,
marked so in its comment, that changes one definition the way a bug would, under
which the property fails.
