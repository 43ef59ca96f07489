# A TLA+ model of the WhatsApp notification platform

The platform accepts notifications over an HTTP API, stores them in PostgreSQL,
hands each to a worker through pg-boss, and sends it over WAHA, an unofficial
WhatsApp gateway that calls back with delivery receipts and connection status.
Everything that can go wrong between those parts goes wrong *between two round
trips*: a worker dies, a job expires under a running handler, a claim is reaped,
a receipt overtakes the commit of the send it is for. The modules here take one
database statement (or one transaction, or one call to the provider) as one
step, and let every other actor move in between.

Paths below are relative to the repository.

## 1. Inventory

| Component | State it keeps | Operations that change it | What is hard about it | Modelled in |
|---|---|---|---|---|
| Dispatch (`composition/notification/dispatch-notification.service.ts`) | `notifications` row, `notification_send_attempts`, the handler's locals | `dispatch`: promote, claim, check the ledger, prepare, begin attempt, send, resolve, settle | two workers over one row after a reap; a send whose outcome nobody knows; crash between two transactions | `Dispatch` |
| Maintenance (`notification-maintenance.service.ts`) | lists it read | `runOnce`: reap stuck claims, requeue due rows | acts on a list that is stale; races live workers | `Dispatch` |
| Job queue (`queue`, `apps/worker/jobs/job-runner.service.ts`) | pg-boss jobs | send, fetch, complete, fail, expire, dead-letter | one job per state and key; expiry does not stop the handler; completing an expired job | `Dispatch`, `Acknowledgements` |
| Cancellation (`notification-query.service.ts`) | `notifications` row | `cancel`, `cancelWaiting` | races the claim | `Dispatch` |
| Status machine (`domain/notification/notification-status.ts`, migration 0002) | none | transition table, enforced again by a trigger | every writer must stay inside it, or its transaction is lost | `Dispatch`, `Acknowledgements` |
| Webhook inbox (`webhook/*.service.ts`, `webhook-delivery.repository.ts`) | `webhook_deliveries`, `webhook.process` jobs | `ingest`, `process` | repeated callbacks, repeated runs, receipts out of order and ahead of the send | `Acknowledgements` |
| Acknowledgement levels (`domain/notification/delivery-acknowledgement.ts`) | none | `mergeAcknowledgements` | a failure is not a low level: it must survive a later receipt | `Acknowledgements` |
| Failure classification, retry policy (`provider-whatsapp/classify-failure.ts`, `domain/notification/retry-policy.ts`) | none | `classifyFailure`, `computeRetryDelaySeconds` | which answers say nothing of what happened | `Sending`, `Dispatch`; the backoff is left out |
| Creation and idempotency keys (`create-notification.service.ts`, `idempotency-key.repository.ts`) | `idempotency_keys`, first row and job | `create`, `createBatch`, claim, complete | two requests with one key; a winner that rolls back; a connection that goes meanwhile | `Creation`, `Idempotency`, `Lifecycle` |
| Notification listing (`notification-query.service.ts`, `notification.repository.ts`) | the client's cursor | `list` | rows that arrive during the walk; a cursor less precise than the rows | `Listing` |
| Connection: pause, limits, pacing (`connection-state.service.ts`, `connection-limits.service.ts`, `whatsapp-session.repository.ts`) | `whatsapp_sessions` row | pause, resume, limits, pacing slot, refresh claim | several writers of one row, most read first and write later | `Connection` |
| Session lifecycle (`whatsapp-session.service.ts`) | `whatsapp_sessions`, the provider's sessions | create, look, show a code, start, stop, log out, delete; callbacks | the row and the provider change apart | `Sessions`, `Lifecycle` |
| Rate limiter (`rate-limit.service.ts`, migration 0006) | GCRA buckets | one SQL function; pruning | arithmetic at the edges; requests decided out of order, by one row and explained by another | `RateLimit` |
| Authentication (`authentication.service.ts`, `user-session.repository.ts`) | users, dashboard sessions | sign-in, lockout, sliding expiry, sign-out | read, hash, then write | `Authentication` |
| API keys and applications, registration (`application.service.ts`, `api-key.service.ts`, `authentication.service.ts`) | organizations, users, applications, keys | register, create, archive, revoke, use | ids from a URL; statements no transaction holds together | `Tenancy` |
| WAHA adapter (`provider-whatsapp`) | none | one method per call | reading statuses, texts and errors | `Sending`, `Sessions`; callbacks' signatures and account limits left out |
| Templates and phone numbers (`domain/template`, `domain/recipient`) | none | parse, render; normalise | escapes | `Templates`; phone numbers left out |
| Dashboard (`apps/web`) | the query cache of a tab | queries, mutations, routes, session | an answer on its way when something changed, or somebody signed out | `Dashboard` |
| Provider stub (`tools/waha-stub`) | its sessions | the routes of WAHA, failure modes | it is the provider of the tests | `Sessions`, `Sending`, as the provider |
| HTTP API (`apps/api`) | none | guards, controllers | the order of the guards | as the first steps of the operations in `Creation`, `Listing`, `Sessions`, `Tenancy`, `Authentication` |
| Row level security, configuration, observability, API documents | none that moves | | | not modelled (section 5) |

### How the parts interact

* *Creation ↔ sessions*: a notification refers to its connection by a foreign key. An open creation holds the
  connection's row FOR KEY SHARE, a deletion that has counted no notifications still asks the provider first and then
  meets that lock, and a committed notification makes the deletion of the row fail. `Tables` holds the rows both write.
* *Creation ↔ creation*: `INSERT … ON CONFLICT DO NOTHING` on a key waits for the transaction that inserted it.
* *Provider → sessions*: callbacks and the answers to lookups write the same status column, with no order between them.
* *Creation → queue*: the row and its job commit in one transaction
  (`enqueueInTransaction`), so a row exists if and only if its first job does.
* *Queue → dispatch*: `FetchJob`. The queue is `stately`: a singleton key has at
  most one job in each of the states created, retry and active. A handler that
  wants another run of its own notification therefore sends a job while it is
  itself still active, and that job is accepted because only *waiting* jobs collide.
* *Dispatch ↔ maintenance*: both move the `notifications` row, by the
  compare-and-swap of `applyTransition`, which compares the **status**.
  `beginAttempt` alone also compares the **claim token**.
* *Dispatch → provider*: at most one request per attempt, written after the
  attempt is in the ledger.
* *Dashboard → API*: each query is fetched by key; a mutation invalidates a key's prefix, signing out empties the cache.
* *Provider → inbox → notification*: `ingest` commits delivery and job together;
  `process` reads the notification, merges, and compares the **status** it read
  when it writes.

### What makes each part correct

* Dispatch: bounded sends; no second copy without a record that the first one's
  outcome was unknown; no status outside the table; nothing left `RETRYING`
  without a job; everything settled in the end.
* Inbox: an accepted callback keeps a job until it is resolved; status, level and
  times tell one story; final statuses are final; everything resolved in the end.
* Connection: no worker sends on a connection it has itself seen paused, two sends
  keep their distance, a pause is never shortened by a stale read, and a lookup is not
  repeated by every worker.
* Sessions: only a creation whose answer is lost or a start that a deletion overtakes leaves the provider with a session
  nobody lists; a deletion that finds notifications touches nothing; rows come to agree with the provider.
* Creation: all of a request or nothing, once for each key, and the same answer to whoever repeats it.
* Rate limiter: no stretch of time grants more than rate and burst allow, nothing passes before the moment a refused caller was put
  off to, and no more is granted after a grant than it said was left.
* Authentication: a bound on guesses that concurrency raises but does not remove; a session that is over stays over.
* Tenancy: an organization for each account, which it keeps, and no key touched from outside its application's.
* Listing: no row twice, none above an earlier one, none missed but around the millisecond a page breaks at.
* Sending: the ledger says nothing false of what WhatsApp took, and no second copy without a recorded doubt.
* Dashboard: what a tab changed it shows, and nothing of the user before.
* Templates: any text can be written, and no placeholder is sent.

## 2. Modules

| Module | What it is |
|---|---|
| `DeliveryContract` | What delivery promises a caller, and nothing of how: a fixed allotment of attempts, each of which contacts WhatsApp at most once; one verdict, never taken back; "sent" only on a message WhatsApp took. |
| `Dispatch` | The pipeline: queue, workers, ledger, cancellation, maintenance, time and faults. Implements `DeliveryContract`, as `Sending` does. |
| `DispatchProofs` | Its theorems. |
| `Acknowledgements` | The webhook inbox and what receipts do to a notification. |
| `AcknowledgementsProofs` | Its theorems. |
| `Connection` | One connection's row as far as it decides whether a message may go out: pause, age of the report of limits, pacing slot. |
| `ConnectionProofs` | Its theorems. |
| `Tables` | The rows connections and creations share. |
| `Sessions` | Requests on a connection, one action per round trip; the provider's sessions; callbacks. |
| `Creation` | Creation requests and their transactions. |
| `Idempotency` | What a key promises: one outcome, once. `Creation` implements it. |
| `Lifecycle` | `Sessions` and `Creation` composed over `Tables`. |
| `LifecycleProofs` | The theorems of all five. |
| `RateLimit` | One subject's bucket, requests stamped and later decided. |
| `Authentication` | One account's sign-ins, its lock and its dashboard sessions. |
| `Tenancy` | Organizations, their owners, applications and keys. |
| `AccessProofs` | The theorems of these three: who is let in, and how often. |
| `Listing` | A walk through the pages of notifications. |
| `Sending`, `SendingProofs` | One notification against everything the provider may answer. |
| `Dashboard`, `DashboardProofs` | One browser tab: queries, mutations, cache, pages. |
| `Templates` | Parsing and rendering, over every short body. |
| `Platform` | The last seven and `Lifecycle` side by side, for one run. |
| `PlatformProofs` | That the whole implements each of its parts; the theorems of `Listing` and of `Templates`. |
| `MCDispatch`, `MCAcknowledgements`, `MCConnection`, `MCLifecycle`, `MCPlatform` | Small instances: symmetry, payloads, pages. |

In the component modules a definition that stands just before the one
it resembles, and that nothing uses (`BudgetSpentOneLate` before `BudgetSpent`), is a
mistake one could plausibly make there. Putting it in place of the real one
violates the property named in `PROJECT.json`, which shows that the property
watches that line of code.

### Dispatch

State and its columns: `status`, `claimToken`, `policy` are columns of
`notifications`; `dueAt` stands for `scheduled_at` or `next_attempt_at` compared with
the clock, `claimStale` for `claimed_at` compared with the stuck-claim cutoff,
`windowClosed` for
`scheduled_at` or `created_at` compared with the delivery window. `ledger[n]` is the sequence of
outcomes in `notification_send_attempts`; `attempt_count` is its length, since
`beginAttempt` changes both in one transaction and nothing else changes either.
The queue is four variables: a waiting job, a job to be retried, a running job,
and whether one was ever dead-lettered. Each worker has a stage `pc`, its job, the attempt
number it was given and what it decided. `contacted` and `delivered` are what really
happened at WhatsApp, which no step of the code reads.

| Action | Code |
|---|---|
| `Init` | `writeNotification`: row and first job |
| `FetchJob`, `CompleteJob` | `JobRunner.subscribe`, `settleEach` |
| `PromoteScheduled` | `promoteScheduled` |
| `ClaimForDispatch`, `ExplainFailedClaim`, `Reschedule` | `claim`, `explainFailedClaim`, `reschedule` |
| `CheckLedger` | `hasOutlivedDeliveryWindow`, then `findUnresolved` |
| `Prepare` | session lookup, `prepareToSend`, pacing, recipient lookup, `showTyping`: one step; `WaysOut` joins the ways out of `waitForConnection`, `waitForPause` and `resolveRecipient`, each a definition of its own |
| `BeginAttempt` | `beginAttempt` with its ownership predicate, and the budget check after it |
| `SendTextMessage` | `provider.sendTextMessage`, and how `classifyFailure` reads the answer |
| `RecordSent` | the transaction of SENT and SUCCEEDED |
| `ResolveRefused` | `handleSendFailure` when WhatsApp answered |
| `ResolveUnknown` | `resolveUnknownOutcome`: its first statement; `Retry` or `Fail` is its second transaction |
| `Retry`, `Fail`, `DeferQuietly` | `retry`, `fail`, `deferQuietly` |
| `Cancel` | `cancel`, `cancelWaiting` |
| `FindStuckClaims`, `ReleaseClaim`, `FindDueForDispatch`, `RequeueDue` | `reapStuckClaims`, `releaseClaim`, `requeueDueNotifications`, `enqueueDispatch` |
| `RowComesDue`, `JobComesDue`, `WindowCloses`, `ClaimGoesStale`, `ExpireJob` | the clock |
| `Crash`, `HandlerThrows`, `MaintenanceDies` | faults |

What is read together is one step; what the code reads first and uses later is
carried in the worker's variables. A refused claim is explained by a second read
(`ExplainFailedClaim`), but against the time the first one was made with, which is why `tooEarly` and
`refusedClaim` are two stages.

### Acknowledgements

`status`, `stored`, `stamps`, `told` are the notification's status, acknowledgement,
which of its three times are set, and its acknowledgement events. `inbox`, `level`,
`about`, `graceOver` are a row of `webhook_deliveries`: its outcome, its payload, and whether
the 60 seconds have passed within which an unmatched receipt is retried rather than given up.
The levels are the code's own numbers, -1 (ERROR) to 4 (PLAYED).

| Action | Code |
|---|---|
| `RecordSent` | the dispatcher's commit, before which no receipt finds the row |
| `Ingest` | `IngestWebhookService.ingest`: delivery and job, or nothing for a repetition |
| `FetchJob`, `CompleteJob`, `ExpireJob` | the queue; it is not exclusive per notification |
| `ClaimForProcessing` | `claimForProcessing`, which refuses only resolved deliveries |
| `ReadNotification` | `findByProviderMessageId`, the merge, and the ways out: ignored, unmatched, thrown for a later try, or something to record |
| `RecordAcknowledgement` | the transaction of `recordAcknowledgement`: update by compared status, event regardless |
| `MarkProcessed` | `markProcessed` |
| `GracePasses`, `Crash`, `HandlerThrows` | clock and faults |

### Connection

`pausedUntil`, `checkedAt` and `nextSendAllowedAt` are the columns of `whatsapp_sessions` with those meanings, 0 where
the column is null. `seen` is the record a handler carries from one round trip to the next, of which only the pause and
whether limits were ever checked are looked at; `answer` is the report it has in hand. A report is the end of a timelock
(0: it does not say), `NoLock` or `NoAnswer`. `slotAt`, `claimedAt` and `unseen` record what happened and are read by
no step. Time is a number; the database's statements see `clock`, a process sees any of `Now`.

| Action | Code |
|---|---|
| `FindSession` | the session lookup in `dispatch`, and the comparison that opens `settleExpiredPause` |
| `AskAboutPause`, `Repause`, `EndSendingPause`, `NoteLimits` | `settleExpiredPause`: `fetchLimits`, `record` against no pause, `endSendingPause`, `recordAccountLimits` |
| `Reread` | `reread`, at the end of `settleExpiredPause` and of `prepareToSend` |
| `ClaimRefresh`, `AskAboutLimits`, `ReportLimits` | `claimAccountLimitsRefresh`, `fetchLimits` or `readReportedLimits`, `record` |
| `ReserveSendSlot` | `isSendingPaused` and `reserveSendSlot`, with nothing awaited in between |
| `SendTextMessage`, `AskAboutRefusal`, `RecordRefusal` | the send and `recordRefusal`, measured against the record read before it |
| `HearReport`, `FileReport` | `applySessionStatus` and `refreshStatus`: a report in hand, filed later against a record read earlier |
| `DoubtReportedLimits` | `invalidateAccountLimits`, for a delivery that failed after the fact |
| `Abandon`, `Tick` | the dispatch ends elsewhere or its worker is lost; time passes |

### Tables, Sessions, Creation

`row`, `key`, `notification` and `job` are the tables' committed rows; `pin` is the connection an open creation holds. A connection is
its number, in the order of creation, and a notification is its request's number with its place in the batch. `remote` is
the stub's session store, `callbacks` what it has said and nobody recorded yet. Each `call` is a handler with the record it read
or is about to write; each `draft` a creation with the private writes of its transaction.

| Action | Code |
|---|---|
| `Insert`, `AskToCreate`, `RemoveRow` | `create`: the row, the provider, and the row's removal when the provider refuses |
| `Look`, `AskForStatus`, `ShowCode` | `get` and `getQrCode` over `refreshStatus` |
| `Start`, `AskToStart`, `StopFirst`, `StartAgain`, `RecreateAtProvider` | `start`, with the stop before it when codes ran out and the creation of a session the provider lost |
| `Stop`, `AskToStop`, `LogOut`, `AskToLogOut` | `stop`, `logout` |
| `Delete`, `CountNotifications`, `AskToDelete`, `RemoveRow` | `delete` |
| `Reread`, `Record` | `recordAndReturn`: the account is read, then written with the status |
| `ApplySessionStatus` | `applySessionStatus`, for a callback in any order |
| `Scan`, `ExpireCode`, `Drop`, `Forget`, `Unanswered`, `Die`, `LoseCallback` | people, the provider, and faults |
| `Post`, `ResolveSession`, `ClaimIdempotencyKey`, `WriteNotification`, `Complete`, `Commit`, `RollBack`, `Respond` | `create`/`createBatch` and its transaction |

### The other parts

| Module | State | Actions and code |
|---|---|---|
| `RateLimit` | `bucket` (row), `stamp` (requests on their way), `view` (the row as each statement's snapshot has it); `window` (what was granted of a stretch of time) and `told` (an answer), which no decision reads | `Ask` reads the process's clock; `Consume` begins the statement of `consume_rate_limit` and takes its snapshot, `Grant` and `Refuse429` decide by the row as it is by then, and the refusal is computed from the snapshot; `Unmetered` is the limiter failing open, its statement applied or not; `Prune` |
| `Authentication` | `account` (failed count and lock), `signIn` (sessions), `guard` (what a handler read), `tries` (read by no step) | `ReadAccount`, `WrongPassword`, `RightPassword`, `EstablishSession` are `login`; `ResolveCookie`, `Touch` are `resolveSession`; `Revoke` is `logout` |
| `Tenancy` | `owner`, `application`, `apiKey` (tables), `desk`, `visit` (handlers) | `Register`, `InsertOrganization`, `BecomeOwner`; `CreateApplication`, `Archive`; `Enter`, then `CreateKey` or `RevokeKey`; `Authenticate`, `ReadPolicy` of an API request |
| `Listing` | `rows`, `cursor`, `pages`, and `present` (what was there when the walk began) | `InsertRows` commits a batch; `NextPage` is `list` with the cursor's encoding |
| `Sending` | `letter` (row and dispatch), `ledger`, `accepted` (what the provider took) | `Take`, `ResolveRecipient`, `ShowTyping`, `BeginAttempt`, the provider's answers, `RecordSent`, `ConcludeUnknown` and `ResolveUnknownOutcome` (two transactions), `ResolveRefused` and `HandleSendFailure` (two more) |
| `Dashboard` | `version` (the server's tables), `cached`, `fetching`, `change`, `screen`, `session` | `Fetch`, `Serve`, `Receive`, `FailToFetch`, `Collect` are the query library; `Mutate`, `Perform`, `Settle` a mutation and its `onSuccess`; `UseSession`, `UseLogin`, `UseRegister`, `UseLogout`; each query, mutation and page is a definition with the hook's or component's name |
| `Templates` | `body` | `WriteCharacter` enumerates bodies; `ParseTemplate` and `RenderTemplate` are the functions of those names |

## 3. Runs

Every module's deadlock check is off because these systems really stop: once every
notification is settled and every job used up, nothing is left to do.

| Run | Instance | Shows |
|---|---|---|
| `dispatch_safety` | 1 notification, 2 workers, 2 attempts, 2 faults; 2.7 million states | `TypeOK`, `BudgetKept`, `LedgerAhead`, `ResendOnRecord`, `RetryingHasJob`, `TransitionsLegal`, and `KeepsContract` (the refinement of `DeliveryContract`) |
| `dispatch_liveness` | 1 notification, 2 workers, 1 attempt, 1 fault; 232 thousand states | `EventuallySettled` |
| `dispatch_lost_claim` | as the first | refutes `LostClaimMovesNothing` |
| `dispatch_fail_closed` | 1 fault | refutes `FailClosedSendsOnce` |
| `acknowledgements_safety` | 1 notification, 2 receipts, 2 workers, 2 faults, 2 retries; 2.1 million states | `TypeOK`, `StoryAgrees`, `AcceptedKeepsJob`, `FinalStaysFinal` |
| `acknowledgements_liveness` | 1 receipt, 2 workers, 2 faults, 3 retries | `EventuallyResolved` |
| `acknowledgements_highest` | 2 receipts, no fault | refutes `StoredIsHighestSeen` |
| `acknowledgements_timeline` | 2 receipts, no fault | refutes `TimelineTellsTransitions` |
| `connection_safety` | 2 workers, 4 instants, clocks off by 1, pacing 2, a timelock that ends at 3 or does not say; 5.1 million states | `TypeOK`, `PauseHeeded`, `PauseNeverShortened`, `SlotsKeepDistance`, `RefreshesKeepDistance` |
| `connection_doubt` | 2 workers, exact clocks | refutes `DoubtAsksWhatsApp` |
| `lifecycle_safety` | 1 connection, 1 key, 2 clients, 2 callers, 2 requests, 3 operations in all, 1 mishap, 2 callbacks on their way; 1.4 million states | `AllOrNothing`, `ReplayIsWhole`, `DeletionSparesHistory`, `ReplayFindsConnection`, `OnlyCreationOrphans`, and `KeepsContract` (the refinement of `Idempotency`) |
| `platform` | below; 178 thousand states | `PlatformTypeOK`; lifecycle: `RowsConverge`, `CallsEnd`; rate limit: `NeverOverspent`, `AnswersStand`; authentication: `GuessesBounded`, `OverForGood`; tenancy: `OwnOrganization`, `KeysStayInside`; listing: `NeverTwice`, `WalkReachesAll`; dashboard: `MutationShown`, `NothingOfBefore`; sending: `LedgerIsTruthful`, `NoSilentDuplicate`; `TemplatesSayWhatIsMeant` |

**Why the bounds are enough.** Notifications share nothing in `Dispatch` and `Acknowledgements` but the workers and
the maintenance pass's two lists, so one notification meets every interleaving over its own row;
the proofs cover any number. Two workers are needed for a reaped one and its successor, two attempts
for a second send, two faults for a claim lost *and* a job lost (a stalled worker that loses both its claim and its
job uses two). Two receipts are needed for one to be stale when it commits. `FaultBudget` bounds crashes, errors, stalls and
the expiry of a job whose handler is alive; the expiry of a dead worker's job and claim is free, time alone brings it about.
`RetryLimit` and `GraceRetries` stand for 5 retries with a doubling delay from 5 seconds, of which the last ones start
after the 60-second grace; `MaximumAttempts` is the column of that name. In `Connection` four instants
let a pause begin, be extended, end and begin again, and let slots and stamps age past the pacing; two workers suffice for one to
file, lift or claim over what the other wrote. Two instants and two workers are all that the refuted property needs.

`Lifecycle` has one connection because what two calls can do to each other they do over one row; of two, only `Resolved` makes a
choice, which is a case distinction. Two callers let a deletion meet a start, a status lookup or another deletion, and two clients a
repeated request meet its first; three operations let a deletion come between the two requests of a key. One mishap
is a lost answer, a death, a lost callback, a drop or a wiped provider.

The parts in `Platform` share no state. Each takes a step only while every other is as it began, so
that a run's states are the sum of the parts' and not their product, and one run asks of all of them; nothing a part could do is lost by it,
since the others could not have taken part. Two askers, an interval of 2 and a burst of 2 over five instants let an allowance be
spent, refill and be spent again, with requests decided in either order and a snapshot taken before or after the other's decision; a bucket kept for 3 is pruned
while it still holds a debt of 2, which is the `Excess` at these numbers. A comparison off by one is caught. Two guards and three failed logins let a stale count unlock an account. Two registrations of
two addresses and of one meet; of two organizations one has an application with a key, which the other may be asked for. Four rows, two to a page and two microseconds to
a millisecond, let a page break inside a batch, inside a millisecond and between two. The page of the dashboard is the one of a
notification, whose mutation writes what queries under two keys read; the proof covers all nine pages. Two attempts and four dispatches let a notification be retried, interrupted and exhausted.
Six characters hold an escaped brace pair, a placeholder with a name, and each of them broken.

**What the refuted properties say.** Each quotes the repository, and each counterexample is one of the code's own interleavings.

* `FailClosedSendsOnce`: `resolveUnknownOutcome` closes the attempt as UNKNOWN in one statement and fails the row in a
  later transaction. A worker lost in between leaves nothing unresolved; after the reap, the next worker sends a FAIL_CLOSED
  notification a second time.
* `LostClaimMovesNothing`: `applyTransition` compares the status and not the claim token, so a stalled worker whose
  claim was reaped, and whose row was claimed again, finds PROCESSING and moves it under the new holder.
* `StoredIsHighestSeen`: two receipts that read the same row write by compared *status*. From SENT the second changes
  nothing and is marked APPLIED; from DELIVERED the second overwrites a higher level.
* `TimelineTellsTransitions`: the event is appended whether or not the update found the row.
* `DoubtAsksWhatsApp`: `prepareToSend` decides whom to ask by the record it read *before* the claim. A doubt that lands in between is what
  lets the claim succeed, yet the provider's memory is asked, and the claim's stamp clears the doubt.

**Fairness.** `EventuallySettled` and `EventuallyResolved` assume: pg-boss polls while any worker process runs (weak
fairness of fetching a notification's job by *some* worker), a handler in hand takes its next step unless it crashes, clocks
move, jobs of lost workers expire, and the cron starts the maintenance pass. The scan for stuck claims
gets strong fairness: every pass runs both scans, the model leaves out scans that find
nothing, and a scan for due rows that keeps finding something must not starve the other.
Nobody is obliged to cancel, and faults may but need not happen. `EventuallyResolved` holds while the faults leave a
retry past the grace, `FaultBudget <= RetryLimit - GraceRetries`; beyond it the delivery is lost, which is what
the queue's retry limit means (nothing scans the inbox for it).

`RowsConverge` and `CallsEnd` assume that a handler in hand goes on unless it dies, that a transaction's next statement runs, and that the queue
hands out the callbacks it has. Looking at a connection gets strong fairness: the dashboard's page polls for as long as it is open,
and that no caller is free is the model's limit on callers, not the program's. Nobody is obliged to start, stop, scan or delete.
`RowsConverge` says that a row agrees with the provider from some time on, because calls and mishaps are bounded: with requests for ever there
is always a moment at which the row lags. No other part has anything it must do in the end.

## 4. What is proved

Every safety invariant and every action property that a run checks is a theorem: for every set of
notifications, receipts, texts, workers, handlers, clients, keys, connections, addresses and pages, every budget, number of faults, pacing, clock error, rate,
lifetime and precision of a stamp. Eight modules hold the theorems: of `Dispatch`, `Acknowledgements`, `Connection`, `Lifecycle` with what it is composed of,
`RateLimit` with `Authentication` and `Tenancy` (`AccessProofs`), `Sending`, `Dashboard`, and `Platform` with `Listing` and `Templates`.

The assumptions are those on the constants, named `…Assumption` in the module that declares them: budgets, bounds and durations are natural numbers; there is at
least one attempt, and one handler of sign-ins; handlers are finitely many; pacing has a minimum no larger than its maximum (a check of the table); `None` is no worker, no row
and no state of a key. Only one says something of the deployment: `RateAssumption` has `Interval + MaxDelay <= MaxAge` and `2 * MaxDelay <= MaxAge`. Buckets
are kept for an hour; every policy's period is a minute, so that no interval is longer (the API and the table accept 1 to 6000 requests a minute with a burst of 1 to 1000, and sign-ins and registrations have 10 and 60 a minute);
and no request is in the air for half an hour. The inductive invariants of `Lifecycle`, `Authentication` and `Listing` were checked with TLC on the instances of the runs before they were proved.

**Dispatch.** None of the properties is inductive alone; `IInv` joins them with what a handler may rely on
between two of its round trips.

* `HandlerHasJob`: past its first stage a handler has a notification.
* `HolderSawClosedLedger`: a worker that *still holds its claim* after `findUnresolved` is looking at a ledger with nothing
  unresolved, because only a holder could have begun an attempt since. This is what makes `LedgerAhead` hold: `beginAttempt`
  compares the token, so an attempt is never begun over an unresolved one, although the worker read the ledger several round trips earlier.
* `AttemptInLedger` and `AttemptHasOneSender`: the attempt in a handler's hand is in the ledger, and of two handlers of one row, only the one
  that began an attempt sends it or holds WhatsApp's answer to it. With them, `BudgetKept` is inductive although a reaped worker still sends.
* `AnswersAreHonest`: what a handler believes of an attempt is so, and the ledger calls no attempt refused that WhatsApp took. A stalled worker
  rewrites outcomes, since `resolve` looks at the attempt's number only; this says that no rewriting turns a delivered attempt
  into a refused one, which is what `ResendOnRecord` needs.
* `RunnerLeavesJob`: a running job that will complete without sending another leaves no `RETRYING` row behind without one; needed for `RetryingHasJob`.

`Invariance` proves `IInv`; `TypeCorrect`, `BudgetTheorem`, `LedgerTheorem`, `ResendTheorem` and `RetryingTheorem` follow; `TransitionsTheorem` and
`ContractTheorem` are step properties under it. `ContractTheorem` is the refinement: initial states map to initial
states, `SendTextMessage` to `Contact`, every transition into a settled status to `Settle`, all else to stuttering.

**Acknowledgements.** `IInv` adds `HandlersOK` (what a handler is about to record it read of a row that was SENT, with no
device receipt, or DELIVERED, with one, and not failed), `WaitingIsAccepted` (only an accepted delivery has a job) and
`UnsentIsUntouched`. The point is that the write compares the status only: with that status fixed, what was read still
decides enough, so `StoryAgrees` survives although the level it was merged with may be stale.

**Connection.** `SlotAhead` (the next slot is due no sooner than the pacing after the last one was reserved) and `StampAhead` (no
stamp is older than the last claim, because a report filed late stamps the time of filing) carry the two distances; each loses one
`ClockError` where a process compares a stored time with its own clock, and refreshes lose a second one because the
stamp itself comes from a process. `SeenIsRow` (a record in hand tells of the pause in the row unless a newer one was written) with
`SenderSawNoPause` gives `PauseHeeded`; `SettlerSawPauseOver` (who is about to lift a pause read one that is over) gives `PauseNeverShortened`,
since `endSendingPause` compares the end it lifts.

**Lifecycle.** The invariant has two halves, because no request on a connection writes what a transaction writes, and no transaction writes a connection.

* `Books`: `DraftsFit` (how far an open transaction has come, what it has written by then, and that a key it claims is one nobody has), `ClaimsApart` and `NumbersApart` (no two
  open transactions hold one key, no two requests one number), `KeysTell` (a completed key lists all that was made under it, by one request for the same) and `RepliesFit`.
  `ClaimsApart` is what `INSERT … ON CONFLICT` on a key that waits for its first holder gives; with it a commit completes a key no one completed meanwhile, and
  `CreationIsAtomic` and `ReplaysAreWhole` follow.
* `Rows`: `Anchored` (a connection that a committed notification refers to, or an open transaction has locked, is listed: the foreign key and FOR KEY SHARE) and `CallsFit`
  (what a call is going to record is a record). `ReplaysFindConnections` follows from `Anchored`: a completed key's notifications keep the connection its request named.
  `HistoryIsSpared` is the order of `delete`, counted first; `OnlyCreationsOrphan` goes through every step of a call and the provider.

`KeysKeepContract` is the refinement of `Idempotency`: only `Commit` changes `Outcome`, under one key, from nothing to what its transaction made.

**Rate limit.** `SpentIsOwed` is the whole idea of GCRA as an invariant: what was granted in the stretch has moved the bucket's next arrival at least so far past
the stretch's start, so that a further grant, which needs that arrival within the tolerance, keeps the sum in bounds. Dropping a bucket forgives a debt: `BucketIsBounded` and `StampsAreRecent` bound it by `Excess`,
which is nothing for a policy whose burst, with the longest delay, refills within the hour a bucket is kept, and `OverspendTheorem` holds of every other policy too, with that much forgiven for each bucket dropped.
A request passed unmetered whose statement was applied all the same only moves the arrival further.

`AnswersTheorem` is about the answers, and about two rows. A refusal is decided by the latest row and computed from the snapshot its statement began with. `ViewsAreOwed` is what survives of a snapshot: an arrival that would still put its request off
is no later than the row's, and the row is still there, since a bucket that is pruned was last touched too long ago. Hence `RefusalIsOwed`: the moment the caller was put off to is no later than the one the row has by now,
so nothing stamped before it passes, whatever is decided meanwhile. That a request *at* that moment does pass can be said only of an answer that is `alone`, nothing having been decided since the snapshot. `GrantIsOwed` is the same of a
grant's remaining requests: each later one at or before its stamp takes one of them, so no more pass than it said, and as long as nothing was decided there is room for one exactly if it said so.

**Authentication.** `OverForGood` needs to know that the idle expiry a request is about to write never exceeds its session's absolute one, that only an
established session is ever written, and that no statement clears `revoked`; an idle expiry moved back or forth is then harmless.

`GuessesBounded` counts wrong passwords, and no bound on them is inductive: whether one more can be checked depends on who holds an old count. `GuessInv` therefore adds to the passwords checked the room
that is left in this period of the lockout, a potential that every wrong password uses up. Handlers that are checking a password are of two kinds: those whose failure will lock the account until a later period (`Lockers`), and those
that read too early or too low a count, whose failure unlocks it (`Openers`). While the account is locked only they can fail; an opener that does lets in each handler that is no opener once more, itself included, and so with *l* of
them among *n* handlers they can add *l(2n + 3 - l)/2*. When a period ends all become openers and the next one's allowance, *n(n + 1)/2*, pays for it. The sum of these is the bound of `GuessesBounded`.
A handler is needed for there to be a bound of this form, which is why `AuthenticationAssumption` has one.

**Tenancy.** `FoundedForOne` (an organization made by a registration under way belongs to nobody, and to no other registration) gives `OwnOrganization`, which is about steps: no account is
moved, whoever becomes an owner does so of an organization nobody else has (`OwnersApart`), and one that was left behind is never given to anybody; `KeysBelong` and what a handler
that entered an application knows of it give `KeysStayInside`, since an application never changes hands. `DeadKeysStayDead` says that revocation, expiry and archiving are for good,
also for a key that is created while its application is being archived.

**Sending.** `OpenIsLast`, `AnswerTells` (what the code of an answer in hand implies of the message), `SuccessStops`, `UnknownBefore` and `DoubtStops`. The case that matters is `AnswerTells`:
every code outside `UnknownOutcomeCodes` comes from an answer to a message that was not taken. `NoSilentDuplicate` has the exception that `dispatch_fail_closed` refutes
the unqualified promise with: a worker that dies between recording a doubt and stopping for it.
`SendingContract` is a second implementation of `DeliveryContract`, of one notification and with the provider's answers in place of `Dispatch`'s three outcomes. An attempt counts as used once a worker is done
sending it (`Tried`), which needs `SendsWithin`: no worker goes to the provider for an attempt beyond the allotment, although such an attempt may be in the ledger. That "sent" is given only for a message
taken is `AnswerTells` again. It was checked with TLC on the instance of `platform`, with five dispatches, before it was proved, and is in no run.

**Dashboard.** `ChangesCover`, a fact about all nine pages, says that whatever reads a table a page's mutation writes lies under the key that mutation invalidates. With `AnswerIsFresh` (a fetch asked
after the mutation brings data from after it), `DataIsFresh` and `FetchOfVisit` (no fetch outlives a sign-out), `MutationShown` and `NothingOfBefore` follow. A query
without data whose first fetch the server has answered when the change settles is excepted, since the library joins that fetch instead of restarting it (section 5).

**Listing.** `PagesLieAbove` (whatever was given stands at or above the cursor) makes a next page follow all earlier ones, whatever was committed meanwhile. `WalkSoFar` says of each row that was there at the beginning that it follows the cursor,
or was given, or is of the millisecond of a page's last row. The step rests on facts about finite sets in the listing's order: a page has a last row, what is not on it comes after all that is (`PageIsUpper`), and a page after which there is no more has everything (`LastPage`).

**Templates.** Both halves are about recursions over a text, which the theorems solve at every place of it: `ChainSolves` shows that a chain of pieces, each put before what stands at some later place,
exists, so that the recursive definition is one; `ParseIs`, `ContentsAre` and `EscapeIs` say that the parser, the renderer and the fold that writes a text are such chains. That no placeholder is left is then an induction over the places,
from the end backwards, of more than the claim (`RenderedPairless`): what is rendered from a place on has no pair of opening braces *and* begins with a brace only where the body has one, since of two braces in a row the parser would have made a placeholder. That any text
can be written is one over the text (`TextIsWritten`): what is escaped never shows a pair that was not meant (`EscapedHasNoPair`), so the parser, put down where a character was written, reads that character back (`NodeReadsBack`).

**Platform.** `PartsTheorem`: a step of the whole is a step of each part, or leaves it alone, so the whole implements every part, and `PlatformTypeCorrect` and `PlatformIsSafe` carry what was proved of each over to it,
under the assumptions of all of them.

**Induction.** The library's induction theorems take an operator as a parameter, which the provers cannot instantiate. Where a proof needs one (the oldest and newest connection in `Lifecycle`, the last row of a page, the places of a text),
it takes the least counterexample, which exists because the natural numbers are well founded (`LeastOf`, `GreatestOf`).

**Only model-checked**: the liveness properties (`EventuallySettled`, `EventuallyResolved`, `RowsConverge`, `CallsEnd`: fairness and ENABLED are outside the proof system's
reach here) and the five refutations, which are counterexamples.

## 5. What is assumed and what is left out

* An error status from WAHA is taken for proof that WhatsApp did not take the message, as `classifyFailure` takes it. Were it
  not so, `ResendOnRecord` would not hold of the code either.
* A claim token stands for the worker that drew it. The code draws one for each `dispatch()` call; a worker runs one call at a time, and every new claim replaces the token.
* `now` is read once per dispatch for the claim and its explanation.
* The maintenance pass takes rows in batches and updates one row per transaction; the batch limit is left out, it only delays.
* `Prepare` is open in `Dispatch`: the connection's status, pause and pacing, and the recipient lookup, may decide anything. Safety holds whatever they decide; liveness
  assumes nothing of them either, since the delivery window closes in the end.
* `maximum_attempts` is the same for all rows. `policy` is the setting of the application and does not change during a run of the model; the code reads it each time an outcome is unknown.
* Webhook signatures, timestamps and envelopes are checked before anything is stored, and change nothing when they fail. Session status
  callbacks go through the same inbox but change the connection: `Sessions` has them as `callbacks`, in any order, some of them lost,
  and the report of limits they carry is filed in `Connection`.
* pg-boss is external; it is modelled from the queue options and calls in `queue` and `job-runner.service.ts`.
* `ClockError` covers the skew between processes and database and the moment between reading a clock and the statement that uses it.
* `PauseHeeded` is what the code can give, and less than "nothing at all reaches WhatsApp while it is paused" taken literally: a pause written after a worker's last
  read of the row is not seen by it before it sends.
* In `Connection` the session's status, its deletion and the stored report itself are left out: a status that cannot
  send is one of the reasons for which `Abandon` ends a dispatch, and nothing decides by the stored report. WhatsApp and the provider may answer anything at any time.
* The provider is the stub the repository tests against; WAHA itself may differ. A `session.status` callback with a status outside the known set is recorded as
  `UNKNOWN` by the code, which the stub never causes.
* `Sending` has one worker at a time: what two do over one row is `Dispatch`'s subject. An application's `unknownOutcomePolicy` stays as it is.
* The query library is modelled from how the hooks use it and what its version 5 does: one fetch per key, a mark on invalidated data that the next answer clears, refetch where shown, cancelled on clearing. An invalidation
  cancels a fetch on its way only if the query has data already; a first fetch is joined (`FirstFetch`). A fetch whose screen closed is not restarted either, in the library as in `Invalidate`,
  and `MutationShown` speaks of screens that stay open. One finer point is left out: a session query in flight during a sign-in may write over it.
* The limiter's statement commits without waiting for the log (`rate-limit.repository.ts`, lines 49-55), so that an unclean shutdown of the database may bring back an older row. `RateLimit` has no such crash: any earlier row might come back,
  which multiplies the states beyond what a run can explore, and the code names the price itself, "a few extra requests". The numbers of a degraded answer (`rate-limit.service.ts`, lines 85-92) and a
  policy that is changed while its bucket is in use are left out as well.

**Not modelled, and why.**

* *Row level security*: a policy of the database that no step changes; what it adds to `Tenancy` is that a forgotten condition would find no rows.
* *Phone numbers and the format of API keys*: normalising a number is a lookup in a library's numbering plans, and a key's text is a random string with a hash.
* *Signatures, timestamps and envelopes of callbacks; the reading of account limits out of JSON*: pure checks and parsing, before any state is touched.
* *Backoff and jitter*: the models let a retry come due at any time, which includes every delay the formula gives.
* *`takeOverStaleClaim`, `deleteExpired`*: no code calls them.
* *Scopes and settings of applications and keys, filters of listings, layout and polling of the dashboard*: each narrows what one statement or one page does, and none has steps of its own.
* *Configuration, observability, API documents*: read once, written to a log, or generated.

**Noticed while modelling**, where the code and what is written of it part without a run of its own, each allowed for in the property it touches:

* `delete` in `whatsapp-session.service.ts` counts notifications before it asks the provider, and a notification created in between keeps the row while the provider's
  session is gone: the row is listed and agrees again once it is looked at (`RowsConverge`). `OnlyCreationOrphans` names the two ways to an orphan at the provider.
* `recordAndReturn` writes back an account it read earlier, over a callback in between; the next look repairs it.
* Idempotency keys stay for good, although ADR 0011 gives them a day: their expiry has no caller.
* `prune(3600)` drops buckets an hour after they were last touched; a policy whose burst takes longer than that to refill, one a minute with a burst of 1000, is forgiven the rest. The migration calls such a bucket "worthless" (lines 105-106)
  and the maintenance pass says an hour "is longer than any window the limiter uses": `Excess` is what that leaves out.
* A refused caller is told "exactly how long until one more would be on pace" (migration 0006, lines 95-96), but from the row as the statement's snapshot has it (lines 64-71, "the row as it was before this statement"),
  while the refusal was decided on the row as the last committed request left it (lines 60-61). With a burst of one and two first requests at once, the loser is refused and told to wait for 0 seconds. `RefusalsStand` therefore has the
  exact half only of an answer that is `alone`.
* The notification page can settle on old events: if a cancellation succeeds while the events are in their first fetch and the server has answered it, the library joins that fetch, and its answer clears the mark. `MutationShown` excepts it.
* A cursor is cut to milliseconds and compared with microseconds, so a walk can skip rows that share a millisecond with the last row of a page: the exception in `WalkReachesAll`.
* A stale failed sign-in may clear a lock another set, which is why `GuessesBounded` grows with the number of handlers.
* Registration is not one transaction: an address taken meanwhile leaves an organization nobody owns, for good (`OwnOrganization`).
* A session that ends on the server leaves the tab's cache in place, unlike a sign-out, so `NothingOfBefore` is about sign-outs.
* A last attempt refused because the session is missing is put back, and its next dispatch opens an attempt beyond the budget that nobody sends and nobody closes.
* The same scheduled request repeated after its time has passed is refused, not replayed: it is validated before its key is looked at.

## 6. Plan

What is left, the most important first:

1. **Dispatch over Connection and Sending**: `Prepare` and the provider's answers refined by what those modules decide, composing the three. The state
   spaces multiply, so it needs an abstraction of `Connection` to its pause first.
2. **Backoff**: the formula against its bounds, by TLC over the attempts there can be.
