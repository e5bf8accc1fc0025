# Formal model of the Telegram outreach orchestrator

TLA+ modules, TLC configurations and TLAPS proofs kept beside the orchestrator's
code. Paths such as `src/telegram/accounts.py` are relative to the repository
root. Every definition is a translation of the source; `PROJECT.json` ("map")
names the lines of each one.

## 1. The system

Two operating-system processes share one SQLite database in WAL mode
(`docker-compose.yml`: `api`, `worker`, both restarted by the supervisor).

| Component | State it keeps | Operations | What makes it correct |
|---|---|---|---|
| **Outreach planner** (`app/runner.py` `outreach_loop`, `behavior/outreach_engine.py`) | none of its own; installs `RateLimiter._limits` | one round per account: pause a disabled account, rebuild the limits, reserve leads, queue actions | a lead is reserved once; limits in force are the configured ones; reserved leads are dealt with |
| **Action queues** (`behavior/scheduler.py`) | per-account lists in memory | `add_action`, `next_action` (pops, then sleeps) | no action lost while the process lives; no starvation |
| **Rate limiter** (`core/rate_limiter.py`) | global counter, date of the last reset, limits, recent sends; the per-account counter is in `core/state.py` | `can_send_cold`, `register_cold_sent`, `update_limits`, `_maybe_reset` | in step with the metrics table across restart and midnight; daily limits hold |
| **Account worker** (`telegram/accounts.py`) | task, client, outbox throttle | connect and check, warmup reads, cold send, outbox flush, health check | at most one message per reservation; bookkeeping after every send; status tells the truth |
| **Account manager and lifecycle** (`telegram/accounts.py`, `client_adapter.py`, `runner.py`) | workers by account, cached clients | init, start, stop, `resume_account`, auto-resume, restart flag | an ACTIVE account gets a working worker; a dead one is not ACTIVE |
| **Runtime state** (`core/state.py`, `storage/state_db.py`) | per process: status, last error, ban reason, floodwait; one row per account in SQLite | `set_*` write the whole row from the process's own copy | the two processes do not undo each other's statuses |
| **Lead store** (`storage/leads_store.py`) | `leads` table | seed, reserve, `mark_contacted`, `update_status` | reservation is exclusive; statuses do not get stuck |
| **Metrics** (`core/metrics.py`) | one row per day and account | `incr`, readers | every send counted once |
| **Reply engine** (`behavior/reply_engine.py`) | none | `handle_incoming` | no automatic reply within the manual grace time; one reply per message |
| **Manual replies and outbox** (`app/api.py`, `storage/outbox_store.py`, `storage/dialogs_store.py`) | `pending_outbox`, `dialogs` | queue, list, mark sent or failed, mark manual reply | a queued reply is sent once or reported failed; never after expiry |
| **Warmup planner** (`behavior/warmup_engine.py`) | dialog reads planned for the last hour, shuffled lists | plan a batch | hourly cap, on plans and on reads; punctual actions; quiet hours |
| **Settings** (`storage/settings_store.py`, `ui/.../SettingsPanel.jsx`) | `settings` table; the defaults in each process; the copy in each open form | merge and read, update, pause and resume, edit and save the form | an update keeps what it does not mention; both processes read the same |
| **API login** (`app/auth.py`) | pending codes in memory, tokens with the client | request and verify a code, issue and verify tokens | a code works once, in time, within its attempts; a session keeps the proven role |
| **API rate limit** (`app/api.py` `_rate_limit`) | a counter in Redis, a bucket of times in memory | count, admit or refuse | admissions stay bounded; nobody is shut out for good |
| **Telegram login, pause and resume** (`app/api.py`) | login clients | start, verify, pause, resume | the account comes back after a login |
| **Message, event, attachment stores, AI client, UI, lead parsing** | append-only records, files | | no decision of the system depends on them |

How they interact. The API writes settings, lead statuses, runtime rows, outbox
rows and the restart flag into SQLite; the worker process polls settings, leads,
outbox and the flag, but reads an account's runtime row only once. Inside the
worker, planner loops and workers share the scheduler, the limiter and
`global_state`. All of it runs on one asyncio event loop: code between two
suspension points is atomic with respect to the rest of the process. The
`asyncio.Lock`s of the limiter, the scheduler, the metrics and `global_state` are
never held across a suspension, so they do not suspend their users either. The
lock of `ClientAdapter` is: `start_account` awaits `client.connect()` under it
(`client_adapter.py:52-81`), so accounts connect one after another.

The hard behaviours: check-then-act across the AI call and the send; a message
that is delivered although `send_message` raises; bookkeeping that fails half
way; process restarts with queues in memory and counters rebuilt from SQLite;
midnight between the check and the registration of a send; two processes with
stale copies of a status; operators acting at any moment. `PROJECT.json`
("hazards") lists each at its line.

## 2. Modules

| Module | What it is |
|---|---|
| `ColdOutreach` | planner, queues, send handler, limiter, counters, leads; the properties |
| `OutreachPromise` | the abstract specification of cold outreach: admissions, messages, a daily total |
| `ActionQueues` | the abstract specification of the scheduler's queues, which cold outreach and the timeline implement |
| `MCColdOutreach` | instances for TLC: limits, settings, symmetry |
| `ColdOutreachProofs` | TLAPS proofs about `ColdOutreach` |
| `ManualReplies` | the endpoint for manual replies, the outbox and its flush, the reply handler, the dialog row they share |
| `MCManualReplies` | its instance for TLC |
| `ManualRepliesProofs` | TLAPS proofs about `ManualReplies` |
| `AccountLifecycle` | one account: status in two processes and in SQLite, worker task, client, restart, operator |
| `AccountView` | the abstract specification of an account: what `ColdOutreach` takes for granted of it |
| `MCAccountLifecycle` | its instance for TLC |
| `AccountLifecycleProofs` | TLAPS proofs about `AccountLifecycle` |
| `WarmupTimeline` | one account's queue in time: warmup rounds, planned cold sends, the worker that sleeps and acts |
| `MCWarmupTimeline` | its instance for TLC |
| `WarmupTimelineProofs` | TLAPS proofs about `WarmupTimeline` |
| `ApiLogin` | one address signing in: code, attempts, token, and the limit of the two endpoints |
| `MCApiLogin` | its instance for TLC |
| `ApiLoginProofs` | TLAPS proofs about `ApiLogin` |
| `SettingsStore` | the settings rows, the defaults they are merged over, pausing, and the form as a stale copy |
| `MCSettingsStore` | its instance for TLC |
| `SettingsStoreProofs` | TLAPS proofs about `SettingsStore` |
| `Counting` | four lemmas on the size of finite sets, for the proofs |

How they fit together. `ColdOutreach` lets an account's status and worker change
freely within four rules; `AccountView` states the rules and `AccountLifecycle`
is shown to obey them. `ManualReplies` sees cold outreach only as `ColdSent`, the
write of the dialog row that follows a cold send, and an account only as a
worker that comes and goes; `ColdOutreach` sees the replies only as
`AdminSetsStatus`. Warmup and cold sends share a queue: `ColdOutreach` says what a
cold send does, `WarmupTimeline` when the queue's actions happen, and both are
shown to implement `ActionQueues`, so what each takes from the queue and puts
into it is the same. `SettingsStore`
is where `ColdOutreach`'s `PutSettings` and the lifecycle's `PauseAccount` and
`PutSettings` get the settings they hand out. `ApiLogin` shares no state with the
rest.

### ColdOutreach: correspondence with the code

One action is the code between two suspension points.

| Action | Code |
|---|---|
| `PauseDisabled`, `OutreachOff`, `PlanRefused`, `PlanBatch` | one pass of `outreach_loop` for an account, ending in each of its four ways |
| `PlanCutShort` | the same, and a reservation raises, is rolled back and ends the batch |
| `NextAction` | `GlobalScheduler.next_action`: pop, then sleep until the start time |
| `PassLimit`, `SkipOverLimit` | the re-check at the top of `_handle_send_cold_dm` |
| `Draft`, `DraftFails` | the AI call returns text, or nothing |
| `Deliver` | Telegram accepts the message; `send_message` has not returned |
| `FinishSend` | after `send_message`: `incr`, `register_cold_sent`, `mark_contacted` |
| `BookkeepingFails` | a write after `incr` raises: the generic handler runs |
| `SendFails`, `SessionInvalid` | the two exception handlers |
| `BareWorkerDrops` | a worker built by `resume_account`: no limiter, no AI client, so no text |
| `WorkerExits`, `AutoResume`, `StatusChanges` | `run` ends; `auto_resume_loop`; health checks and connects |
| `AdminSetsStatus`, `PutSettings` | the API (and, for lead statuses, the reply engine and the outbox flush) |
| `Midnight` | the date changes: today's metrics row is empty, the limiter has not been reset |
| `Restart` | the process dies, possibly between two commits of `FinishSend`, and starts again |

Data is abstracted to what the properties tell apart. A lead is a name; the
statuses after `contacted` are one. The settings are the four fields outreach
reads. The hourly and interval limits are one flag, `limits.paced`, under which
the limiter may refuse at any time. `admissions`, `answered`, `dms` and
`unregistered` are history: no action decides by them, except that the bounds
`MaxAdmissions` and `MaxFaults` limit how often an admin reopens a lead and how
many bookkeeping faults a day has.

Left out on purpose: the error handler itself failing (the worker task then
dies with the action in hand, which for the lead is a `DraftFails` followed by
`WorkerExits`), and `customer_test_mode`, which contacts the same names again by
design.

### Properties

* `GlobalCapSlack`, `AccountCap`: what the daily limits amount to when checks
  and bookkeeping are apart, with restarts, midnights and faults.
* `LimiterKeepsUp`, `LimiterAheadByOne`: memory against metrics, both ways.
* `OneMessagePerAdmission`, `NewLeadIsFree`: reservations.
* `KeepsPromise`: the refinement of `OutreachPromise`.
* `KeepsQueues`: the refinement of `ActionQueues`: workers that end, accounts
  switched off and failed sends leave the queues alone; only a restart, which
  leaves the leads `pending`, takes what is queued.
* `ReservationsAreHandled`, `NewLeadsAreReserved`: progress.
* `PacingApplies`, `DoneMeansResolved`: sentences of the repository's README that
  the code does not keep (section 3, "violation"). Its "daily limits" are kept
  with the slack that `GlobalCapSlack` states: with one account the global limit
  holds, with more each of the others may have a send in flight.

### ManualReplies: correspondence with the code

The endpoint commits three times, the flush twice per row; the other process may
look in between, so the state between two commits is state of the model
(`request`, `stage`, `batch`).

| Action | Code |
|---|---|
| `ManualReply`, `QueueReply`, `FailLead` | `manual_reply`: `mark_manual_reply`, `add_pending`, the lead's status |
| `ApiChanges` | the API's copy of the status changes, or the process restarts between two commits |
| `FlushStarts`, `FlushEnds` | `_flush_pending_outbox` lists the pending rows and reads the clock once |
| `Expire`, `SendReply`, `DeliverReply`, `MarkSent`, `ClearFailure`, `ReplyFails` | one row: expired, sent, accepted by Telegram, `mark_sent`, the lead, or any exception |
| `Connect`, `WorkerExits`, `AutoResume`, `SessionDies`, `Restart` | the worker task and its client around the flush |
| `TakeUp`, `DraftEnds`, `AnswerDelivered`, `AnswerFails`, `AnswerRecorded` | `handle_incoming`: the grace test, history and AI, `send_message`, the bookkeeping |
| `ColdSent` | `_handle_send_cold_dm` after its send: `mark_contacted` and the upsert of the dialog |
| `AdminSetsStatus` | `update_lead_status` |
| `Tick` | the clock of `expires_at` and `manual_replied_at` |

The outbox is that of one account (`list_pending` selects by account). Lead
statuses other than `contacted` and `failed` are one. Times count down: `left`
to `expires_at`, `grace` to the end of the grace time. `manual`, `overwritten`,
`delivered`, `lost` and `excused` are history; only the bound `MaxCrashes` reads
one of them. Left out: `send_after`, which is always now, rows without a username, which
the endpoint does not write, the `replies.enabled` switch, and the message and
event rows, which nothing reads back.

* `DeliveredOnce`, `SentWasDelivered`, `WrittenOrder`: the queue, with crashes
  between Telegram's acceptance and the commit, and flushes that start over.
* `GraceExplained`: the only two ways an automatic reply gets into the grace
  time, which the repository's README gives without exceptions.
* `FailedUntilSent`: its "lead marked failed until sent", with the four ways a
  lead stays failed although its replies went out.
* `RepliesAreSettled`: progress, no row starves behind another.
* `DeadSessionKeepsQueue`: a sentence of the README that the code does not keep.

### AccountLifecycle: correspondence with the code

Each process reads the row once and from then on writes the whole row from its
own copy, so there are three values: `memory`, `apiMemory` and `row`.

| Action | Code |
|---|---|
| `Connect`, `ConnectFails` | `run`: `start_account` returns (a new client or the cached one) or raises |
| `CheckPasses`, `CheckFails` | `_post_connect_healthcheck` and the status it leaves |
| `NeedsRelogin`, `HealthCheckPasses`, `WorkerNotesError` | `_maybe_healthcheck`, `_mark_session_invalid`, `set_last_error` |
| `TaskDies`, `LoopEnds` | the task ends by an exception, or because `_stopped` is set |
| `PlannerRound` | `warmup_loop`, `outreach_loop`: an ACTIVE account that is disabled is paused |
| `AutoResume` | `auto_resume_loop`, `resume_account` |
| `PopFlag`, `StopWorker`, `Exit`, `Crash` | `control_loop`, `stop_all`, the restart, `apply_initial_statuses` |
| `PauseAccount`, `ResumeAccount`, `PutSettings`, `ListAccounts` | the endpoints that write or read the API's copy |
| `LoginStart`, `LoginVerify` | the Telegram login |
| `RestartWorkers`, `ApiRestarts` | the restart flag; the API process starts again |
| `SessionRevoked` | Telegram revokes the session |

One account is modelled. Of the others it sees the restart
(`stopping = "draining"` stands for `stop_all` waiting for them) and the lock
under which accounts connect one after another: a connect may take longer, and
its fairness includes that the connects before it end. No property counts time
here. The status
and the ban reason are modelled; `last_error` and the flood wait are written the
same way and only displayed. `awaited` is history.

* `DeadIsNotResumed`: once the worker process's own copy says banned or needs a
  login, it says so until that process restarts, and a task that has ended gets
  no successor, whatever loops and operators do and although the API writes ACTIVE
  to the row. It says nothing of what a worker does that is still running:
  the loop never looks at the status, so under NEED_RELOGIN it goes on with its
  queue, and after a login its client may work again.
* `BannedIsDown`: a banned account has no worker at all.
* `KeepsView`: the refinement of `AccountView`.
* `ActiveIsServed`, `DisabledIsPaused`, `RestartHappens`: progress.
* `LoginIsResumed`: a comment that the code does not live up to.

### WarmupTimeline: correspondence with the code

The clock counts ticks; `Hour` of them are an hour.

| Action | Code |
|---|---|
| `PlanWarmup`, `PassOver` | one pass of `warmup_loop` for the account: `plan_warmup_batch_for_account`, or nothing to plan |
| `ColdPlanned` | `plan_batch_for_account` queues a cold send |
| `NextAction`, `Poll` | `next_action` pops before it sleeps; with nothing planned the loop sleeps five seconds |
| `Begin`, `Finish` | the handler starts once the start time has come, and returns |
| `WorkerEnds`, `Connect` | the task ends with the action in hand; a worker connects |
| `Restart` | the queues and the hourly history are gone, one idle gap is queued |
| `Tick` | time passes, as long as the worker is prompt |

Which channel or dialog is read, and the order of the shuffled lists, are left
out; whether a round reads a dialog is a choice under the cap. `planned` and
`ahead` of an action, `planned`, `read` and `connectedAt` are history.

* `PlannedCap`: the cap on every window of an hour, not only on the hours that
  end at a planning round, with plans of different rounds overlapping.
* `HourlyReads`: what the cap becomes when reads happen late, behind a backlog or
  a long cold send: up to `n` hours late, `n + 1` times the cap. TLC finds runs
  that reach it.
* `Punctual`: no action waits longer than the longest delay before it and the
  work ahead of it; without it the queue could starve or sleep past its start.
* `QuietHours`: intervals over midnight, and of length zero.

### ApiLogin: correspondence with the code

Endpoints have no suspension between reading and writing these values.

| Action | Code |
|---|---|
| `RequestCode` | `/auth/request-code`: the limit, the lists, `_generate_code`, the mail |
| `Login`: `NothingPending`, `LoginDead`, `LoginWrong`, `LoginRight` | `/auth/login`: the limit, then the four ways through `_verify_pending_code` |
| `TooManyRequests` | `_rate_limit` refuses |
| `Logout` | the cookie is cleared |
| `Tick` | codes, tokens, the counter and the bucket grow older |
| `ApiRestarts`, `RedisRestarts` | the memory of either is gone; the lists may have changed |

One address and one client; signatures, mail texts and `validate_code`, which has
no caller, are left out. `issue`, `mail`, `proof` and `limit.counted` are history.

* `CodeOpensOnce`: once, in time, within its attempts, across replacements,
  restarts and expiry.
* `NewestMailWorks`: the other way round: age, attempts, use, a newer request and
  a restart make the code in the newest mail unusable, and nothing else does for
  a login with the address as it is stored. `/auth/login` looks the address up
  as it is typed (`api.py:839`), `/auth/request-code` stores it in lower case
  (`api.py:886`): in another spelling it is refused (`NothingPending("other")`).
* `SessionAsProven`: a token is good only for the role its owner proved, while
  the lists still give that role, whatever they gave in between.
* `AdmittedInWindow`: fewer than three times the limit in any window in which
  neither Redis nor the API restarts (a restart empties one of the two histories
  that it adds up, so requests before it are not counted). The 429 for
  a Redis count that is too high is raised inside `try ... except Exception:
  pass`, so the bucket decides again; and two windows of Redis meet in one of the
  bucket's. TLC finds runs that admit one less than this bound.
* `LimitOpens`: requests do not prolong the window, so the limit reopens.

### SettingsStore: correspondence with the code

| Action | Code |
|---|---|
| `Decide` | `pause_account`, `resume_account`: the override is set in what was read, then `update_settings` |
| `DecideFails` | the same, and the write raises |
| `Load`, `Edit`, `Save` | the settings form: `GET /settings` once, `updateSection`, `PUT /settings` with the whole copy |
| `ApiRestarts` | the API's defaults are as written again |

`_merge` copies a level only where the rows override it; before any rows exist a
handler that writes to what it read writes to the API's `DEFAULT_SETTINGS`
(`Shared`). One section of options stands for limits, warmup, outreach and
replies. `decided`, `undone`, `unsaved` and `shows` are history.

* `ProcessesAgree`: the shared defaults make the two processes differ only before
  the first row and only in overrides that could not be saved.
* `AsDecided`: the worker has an account as it was last paused or resumed, unless
  a form loaded before was saved since, or a failed decision went in later.
* `OnlyAsEntered`: cleared fields, partial updates and pauses change no option.

## 3. Runs

| Run | Expect | Question |
|---|---|---|
| `outreach_limits` | pass | two accounts, three leads in batches of two, account limit 2, global limit 1, one fault a day: counters and limits |
| `outreach_reservations` | pass | two leads, two admissions each, settings that switch accounts and outreach off and on: reservations, queues and the account limit |
| `outreach_liveness` | pass | two accounts, two leads under `FairSpec`: progress |
| `pacing` | violation | do the hourly and interval limits stay in force? No: the first round drops them |
| `pending` | violation | is a lead resolved once its worker is done with it? No: skipped, undrafted and revoked sends leave it `pending` |
| `manual_replies` | pass | two replies, one of them perhaps expired, one crash each, a cold send and an incoming message at any moment: delivery, order, grace, failed leads and progress |
| `dead_session` | violation | do replies stay queued when the session is dead? No: the flush marks them failed |
| `account_lifecycle` | pass | any course of pauses, logins, revocations, health checks and two crashes or restart requests: dead accounts, the view, progress |
| `account_login` | violation | is an account resumed after a login? No: the worker process never reads the row again |
| `warmup_timeline` | pass | two hours of rounds, cold sends, late workers and restarts, a cap of one: plans, reads and waits |
| `api_login` | pass | two codes, two attempts, any course of requests, logins, failing Redis and restarts: codes, sessions, limits |
| `settings` | pass | two admins with forms, two accounts, one option, writes that fail: what both processes read |

Bounds. Limits of 1 and 2 are reached, passed by one and reset within a few
steps; a larger limit only repeats the same states below it. Two accounts are
the least that race; the slack `Cardinality(Accounts) - 1` is proved for any
number. Two admissions are the least that let an old reservation meet a new one.
The number of restarts, midnights, settings changes and status changes is not
bounded; the counters are, because `AccountCap` and the bounds hold them down.
Two replies are the least that have an order, one crash per reply the least that
repeats a delivery; both times last one tick, so that a reply may expire while it
waits, while it is listed and while it is sent. One lead and one message in hand
suffice, as the properties speak of a lead at a time and handlers do not meet.
Two crashes or restart requests let a restart happen during another and after a
login; every other operator action is unbounded.
In `warmup_timeline` two ticks are an hour, four the length of the run and one
the longest work, so that windows of an hour overlap, reads are late by an hour
and queues build up; a queue of one before a planner adds its three actions is
the least with a backlog. In `api_login` a code lives for one tick, a token for
the current one, a window for two, two attempts and two codes tell a first from
a second; the limit is one constant in the code, here 2 for logins and 1 for
codes. In `settings` two accounts tell the paused one from the others, two forms
a stale copy from a fresh one.
Symmetry over accounts and leads is used in the two safety runs (the liveness run
uses none).

Fairness. `SendStep` and `OutreachRound` are weakly fair for every account: the
loops run for ever and each await ends (Telethon and the HTTP client have
timeouts). `PlanCutShort` is not part of `OutreachRound`, so reservations may fail
in any round but not in all of them. `Midnight` is weakly fair: days pass. No failure, restart, admin or
settings action is forced, and `AutoResume` is not assumed to happen in
`ColdOutreach`. `ManualReplies` assumes only `WF(FlushStep)`: the worker's loop
comes round to the flush and each send returns or raises. `AccountLifecycle`
assumes weak fairness of connecting, of the loop's end once it is asked to stop,
of the planner rounds, of `AutoResume` (its hours come every day) and of the
control loop with `stop_all`; no operator, health check or failure is forced.
`ApiLogin` assumes only that time passes (`WF(Tick)`). `WarmupTimeline` states
safety only; its `Prompt` is the bound within which the worker acts: an event
loop that is not blocked, and handlers that return within `Work`.

## 4. Proofs

Each theorem holds for every value of the constants.

### Cold outreach

`ColdOutreachProofs` proves, for every finite set of accounts and leads, every
set of settings and every bound:

| Theorem | Statement |
|---|---|
| `TypeCorrect` | `Spec => []TypeOK` |
| `LimitInvariant` | the inductive invariant of the limits |
| `AccountCapHolds`, `GlobalCapSlackHolds`, `LimiterKeepsUpHolds`, `LimiterAheadByOneHolds` | the four properties of the limits and counters |
| `TicketInvariant` | the inductive invariant of the reservations |
| `OneMessagePerAdmissionHolds`, `NewLeadIsFreeHolds` | the two properties of the reservations |
| `PromiseKept` | `Spec => KeepsPromise`, the refinement of `OutreachPromise` |
| `QueuesKept` | `Spec => KeepsQueues`, the refinement of `ActionQueues` |
| `OneAccountKeepsTotal` | with one account and no bookkeeping fault, `Spec => [](coldSentSum <= MaxTotal)` |

*Limits.* The cap of an account is not inductive: what keeps it is that a worker
past its check has room for the send it is about to make, so `LimitInv` adds a
budget. `InFlight` counts the workers between the check and the registration;
recorded sends plus sends in flight stay within the global ceiling plus the
slack, and an account with a send in flight is below its ceiling. The counters
of the limiter are at or above the table on the day they are for (`Level`),
which makes the check of a counter a check of the table. Each action then
changes one worker's stage or one counter, and the finite sets' cardinality
lemmas do the arithmetic.

*Reservations.* `OneMessagePerAdmission` follows from `TicketInv`: an admission
of a lead is a ticket, every ticket is in at most one place (one queue position
or one hand), and a worker may still send for it only while nobody has answered
it. The refinement maps `Deliver` to `Contact`, the count in the metrics
(`FinishSend`, `BookkeepingFails` and the half-finished send of `Restart`) to
`Record`, `Midnight` to `NewDay`, an admin's reopening of a lead to `Readmit`,
and everything else to a stutter.

*Queues.* `PlanBatch` and `PlanCutShort` (together `Plans`) are `Add`, `NextAction` is `Take`, a step to `idle` is
`Done`, `Restart` is `Restart`, and everything else is a stutter: a worker's stage
between the two is hidden. The abstract `hand` is empty while the stage is `idle`,
so that `TypeOK` is all the refinement needs.

Assumptions: accounts and leads are finite and there is an account;
`LimitsAssumption` only names ceilings (`MaxAcc`, `MaxTotal`) for the limits an
operator may configure; the bounds are natural numbers.

### Manual replies

| Theorem of `ManualRepliesProofs` | Statement |
|---|---|
| `TypeCorrect` | `Spec => []TypeOK` |
| `DeliveryInvariant` | the inductive invariant of the queue |
| `DeliveredOnceHolds`, `SentWasDeliveredHolds`, `WrittenOrderHolds` | the three properties of the queue |
| `GraceExplainedHolds` | the property of the grace time |
| `FailedUntilSentHolds` | the property of failed leads |

*Queue.* `DeliveredOnce` says nothing of a row that is about to be sent again, so
`DeliveryInv` counts by the row's situation (`CountInv`): a pending row that is
not in hand has been delivered only as often as a crash lost the news, one in
hand or settled at most once more. `BatchInv` ties the flush to the rows: what is
in the batch is pending, except a first row already marked, and every older
pending row is in the batch as well. As the flush delivers the first of its
batch, nothing older is pending then, which gives `OrderInv` and the order.

*Grace.* The dialog row holds what is left of the last manual reply's grace time
unless a cold send overwrote it (`GraceInv`), so a message is taken up within the
grace time only of an overwritten row.

*Failed leads.* `FailedUntilSent` needs one fact about the endpoint, that the row
it has just queued is the last one (`LastQueued`), and `BatchInv`, by which the
only row marked sent whose lead is not updated yet is the first of the batch.

Assumptions: the two times are positive, the bounds are natural numbers.

### Account lifecycle

| Theorem of `AccountLifecycleProofs` | Statement |
|---|---|
| `TypeCorrect` | `Spec => []TypeOK` |
| `BannedIsDownHolds` | `Spec => []BannedIsDown` |
| `DeadIsNotResumedHolds` | `Spec => DeadIsNotResumed`, an action property |
| `ViewKept` | `Spec => KeepsView`, the refinement of `AccountView` |

*Dead accounts.* `BannedIsDown` alone does not survive a step: a task on its way
through `Connect` and `CheckPasses` would make any account ACTIVE. `DeadInv` adds
that no such task exists under a dead status. Then only the restart gives the
process's copy another status or an ended task a successor, which is what
`DeadIsNotResumed` says.

*View.* A failed connect or check and the end of a task are an `Exit`,
`AutoResume` is a `Resume`, a passed check, a lost session and a planner round
are `StatusChanges` when they change whether the account is ACTIVE, exits and
crashes are a `Restart`, everything else is a stutter.

Assumption: `MaxRestarts` is a natural number.

### Warmup timeline

| Theorem of `WarmupTimelineProofs` | Statement |
|---|---|
| `TypeCorrect` | `Spec => []TypeOK` |
| `PlannedCapHolds` | the cap, for every window and cap |
| `ReadOnceHolds` | a planned dialog read is carried out once at most, and not before its start |
| `HourlyReadsHolds` | the cap on reads as carried out, for every window, cap and lateness |
| `PunctualHolds` | no action is later than its share of delays and work |
| `QueueKept` | `Spec => KeepsQueue`, the refinement of `ActionQueues` |
| `QuietHoursHolds` | the quiet hours, for a day of any length |

*Cap.* The planner compares the cap with its history, which it prunes; `CapInv`
says that a planned read stays in the history until an hour after its time and
that windows starting anywhere, not only those the property quantifies over,
respect the cap. A new read then shares a window only with reads that were
counted.

*Reads.* `HourlyReads` speaks of reads carried out, the planner only counts plans;
two invariants bridge them. `SpanInv` extends the cap to `n` hours: of a span that
holds a new read, the reads still in the history are below the cap, and all others
lie in a span an hour shorter, which the invariant bounds already, so that the
induction is on the plans and not on the hours. `Waiting`, `RoundsApart` and
`ReadOnce` say that a read that waits is planned, distinct from all others and not
carried out, so reads correspond one to one to the plans behind them. Those of an
hour that are at most `n` hours late were planned for `n + 1` hours.

*Queue.* A poll is no action of the queue, so it maps to an empty hand; for that
no poll may be queued (`NoPolls`). No run repeats this refinement or `ReadOnce`:
`KeepsQueues` covers the same queue for several accounts, and `HourlyReads`
follows from `ReadOnce`.

*Time.* `TimeInv` bounds the start of every queued action by what was planned and
how much is ahead of it, and the time at which the worker will get to it by
`Work` times the number ahead (`InTime`, `InOrder`, `Bounded`); a tick is possible
only while the worker is within that bound.

*Quiet hours* are an identity of modular arithmetic.

Assumptions: `TimeAssumption`, `CapAssumption`, `BoundAssumption`: an hour and
a day are not empty, delays are natural numbers up to `MaxDelay`, caps up to
`MaxCap`.

### API login

| Theorem of `ApiLoginProofs` | Statement |
|---|---|
| `TypeCorrect` | `Spec => []TypeOK` |
| `CodeOpensOnceHolds`, `NewestMailWorksHolds`, `SessionAsProvenHolds` | the three properties of codes and sessions |
| `AdmittedInWindowHolds` | the bound on requests admitted between restarts, for any limits and window |

`TypeOK` alone is not inductive: wrong attempts at a code are bounded only
through the attempts its record counts. The invariant adds `CodeKept` (while the
code is pending its age, attempts and use are those of its record), `MailPending`
(mail that was not used has its code pending) and `RoleProven` (a token carries
the role that was proven).

*Limit.* `AdmittedInWindow` adds up two tables of requests by age. `WindowInv`
splits those that Redis admitted by the age of its key: the requests since the key
was set are at most what it counts and at most the limit; the older ones are of
the key before, whose first is already out of the window, so they are fewer than
the limit; the bucket in memory holds at most the limit. A tick moves every request to
the next age, which is an injection and keeps the counts; what falls out of the
window only lowers them (`Counting`).

Assumption: `LoginAssumption`, times and limits are
natural numbers and attempts, window and limits positive.

### Settings

| Theorem of `SettingsStoreProofs` | Statement |
|---|---|
| `TypeCorrect` | `Spec => []TypeOK` |
| `ProcessesAgreeHolds`, `AsDecidedHolds`, `OnlyAsEnteredHolds` | the three properties |

Once anything is saved the rows hold every option and every override of the
defaults, so that the merge over any process's defaults is just the rows
(`DefaultsCovered`); rows and forms have the overrides that were decided, except
for the accounts the history names (`SavedAsDecided`, `FormsAsDecided`).
Assumption: the default of an option is one of its values.

Only model-checked: the liveness properties `ReservationsAreHandled`,
`NewLeadsAreReserved`, `RepliesAreSettled`, `ActiveIsServed`, `DisabledIsPaused`,
`RestartHappens` and `LimitOpens`, as TLAPS does not prove liveness under fairness.
Every safety property that a passing run checks, action properties and refinements
included, is also a theorem.

## 5. Plan

1. done: `ColdOutreach` with its abstract specification, runs and proofs.
2. done: `AccountLifecycle`, its view, runs and proofs.
3. done: `ManualReplies`, runs and proofs.
4. done: `WarmupTimeline`, `ApiLogin`, `SettingsStore`, runs and proofs.
5. left: the timeline of the hourly and interval limits, implementing the
   `paced` flag of `ColdOutreach`. As the first planning round drops those
   limits (run `pacing`), it would speak only of the time before it.
6. done: `WarmupTimeline` and `ColdOutreach` as implementations of one queue,
   `ActionQueues`.

## 6. Not modelled

Lead parsing and scripts (one-off data collection), the UI but for its settings
form, prompts, encryption, log and message rows (written, never read for a
decision), infrastructure, the HTTP transport of the AI client, loading of the
environment. Their absence changes nothing the modelled parts read.

Of modelled parts: `customer_test_mode`, which contacts the same names again by
design; `validate_code` and `AccountManager.pause_account`, which have no caller;
settings rows that cannot be parsed, which no code writes; the `replies.enabled`
switch; the hourly and interval limits in time (they are a flag that may refuse);
an address padded with blanks, which `_role_for_email` strips and the key of the
code does not, so that each such spelling has a code of its own: "the code before
is gone" holds for each key; a transaction that `update_settings`, which has no
rollback, leaves open on the shared connection. A locked database refuses its
first section, before anything is written; of a full disk `DecideFails` takes it
that SQLite rolls back by itself.

Hazards without a property. A reply that expires while earlier ones of the same
flush are being sent is still sent: `late` models it, and no document says that it
must not be. The branch of both planner loops that makes a PAUSED account ACTIVE
stands behind a test for ACTIVE (`runner.py:110`), so its comment, "If UI
re-enabled an account that was manually paused, bring it back online", describes
a step the program never takes; `PlannerRound` has the loops as they are.

Hazards that a property states as an exception. `GraceExplained` names the two
ways into the grace time, `FailedUntilSent` those by which a lead stays failed
although its replies went out, `AsDecided` the stale form and the decision that
could not be saved. These properties do not fail when the hazard occurs; they say
that nothing else has the same effect.
