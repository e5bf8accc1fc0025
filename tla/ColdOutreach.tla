---------------------------- MODULE ColdOutreach ----------------------------
(***************************************************************************)
(* Cold outreach, from the 'new' lead in SQLite to the direct message that *)
(* Telegram accepts: the planner loop of app/runner.py with                *)
(* behavior/outreach_engine.py, the per-account queues of                  *)
(* behavior/scheduler.py, the send handler of telegram/accounts.py, the    *)
(* counters of core/rate_limiter.py and core/state.py, and the rows of     *)
(* storage/leads_store.py and core/metrics.py they are kept in step with.  *)
(*                                                                         *)
(* One action is the code between two suspension points of the asyncio     *)
(* event loop.  The locks of RateLimiter, GlobalState and MetricsStore are *)
(* never held across a suspension, so a call of can_send_cold,             *)
(* register_cold_sent or incr is part of one action.  The AI call, the     *)
(* typing delay and send_message suspend, so everything else may happen    *)
(* between the limit check and the bookkeeping of a send.                  *)
(*                                                                         *)
(* Everything in memory dies with the worker process; leadStatus, coldSent *)
(* and settings are SQLite and survive.  Midnight is visible only as       *)
(* "the limiter has been reset today": a metrics row of another day is     *)
(* never read again.                                                       *)
(***************************************************************************)
EXTENDS Naturals, Sequences, FiniteSets, Functions

CONSTANTS
  Accounts,         \* the configured Telegram accounts
  Leads,            \* the leads seeded from the CSV file
  NoTicket,         \* "the worker holds no action"
  Settings,         \* the values the settings table can take
  EnvLimits,        \* the limits loaded from the environment at start
  MaxAcc,           \* no configured per-account daily limit exceeds this
  MaxTotal,         \* no configured global daily limit exceeds this
  MaxAdmissions,    \* bound: how often a lead may be made 'new'
  MaxFaults         \* bound: bookkeeping faults within one day

\* "contacted" stands for the stages after it too (hot, warm, cold, deal,
\* lost): nothing here tells them apart.
LeadStatus == {"new", "pending", "contacted", "failed"}

\* The daily limits in force; paced is TRUE when an hourly or an interval
\* limit is set (non-zero) as well.
Limits == [acc : Nat, total : Nat, paced : BOOLEAN]

\* The sections of the settings table that cold outreach reads.
SettingsType == [acc : Nat, total : Nat, outreach : BOOLEAN,
                 enabled : SUBSET Accounts, batch : Nat \ {0}]

ASSUME AccountsAssumption == IsFiniteSet(Accounts) /\ Accounts # {}
ASSUME LeadsAssumption == IsFiniteSet(Leads)
ASSUME LimitsAssumption ==
  /\ MaxAcc \in Nat /\ MaxTotal \in Nat
  /\ Settings \subseteq SettingsType /\ EnvLimits \in Limits
  /\ \A s \in Settings : s.acc <= MaxAcc /\ s.total <= MaxTotal
  /\ EnvLimits.acc <= MaxAcc /\ EnvLimits.total <= MaxTotal
ASSUME BoundsAssumption == MaxAdmissions \in Nat /\ MaxFaults \in Nat

VARIABLES
  leadStatus,       \* leads.status, by lead
  settings,         \* the settings table
  coldSent,         \* metrics.cold_sent of today's row, by account
  coldSentSum,      \* SUM(cold_sent) over today's rows
  limits,           \* RateLimiter._limits
  globalSent,       \* RateLimiter._global_cold_sent_today
  accountSent,      \* AccountRuntimeState.cold_sent_today, by account
  resetToday,       \* RateLimiter._last_reset_date is today's date
  active,           \* the account's in-memory status is ACTIVE
  worker,           \* "wired", "bare" (resumed) or "down", by account
  queue,            \* GlobalScheduler._queues: the SEND_COLD_DM actions
  hand,             \* the action the worker has popped
  stage             \* how far _handle_send_cold_dm has come with it

\* History variables: they record, and no action reads them to decide.
VARIABLES
  admissions,       \* how often a lead has been made 'new'
  answered,         \* the admissions of a lead that led to a message
  dms,              \* the cold messages Telegram delivered to a lead
  unregistered      \* sends counted today in metrics, not in the limiter

leadVars == <<leadStatus, admissions, answered, dms>>
metricVars == <<coldSent, coldSentSum, unregistered>>
counterVars == <<globalSent, accountSent, resetToday>>
handVars == <<hand, stage>>
vars == <<leadVars, metricVars, counterVars, handVars,
          settings, limits, active, worker, queue>>

-----------------------------------------------------------------------------
(* Reservations.  A ticket is one reservation of a lead; adm is history.   *)

Tickets == [lead : Leads, adm : Nat]

Ticket(l) == [lead |-> l, adm |-> admissions[l]]

NewLeads == {l \in Leads : leadStatus[l] = "new"}

\* What a planning round can reserve: its loop stops after n leads, or when
\* reserve_lead_for_account finds no 'new' row; SELECT has no ORDER BY.
Reservations(n) ==
  LET available == Cardinality(NewLeads)
  IN  Injection(1 .. (IF available < n THEN available ELSE n), NewLeads)

\* Mutant: the reservation is not written back.
ReserveForgets(batch) == UNCHANGED leadStatus

\* reserve_lead_for_account: one 'new' row becomes 'pending' per call.
Reserve(batch) ==
  leadStatus' = [l \in Leads |->
    IF l \in Range(batch) THEN "pending" ELSE leadStatus[l]]

Queued(a, t) == \E i \in 1 .. Len(queue[a]) : queue[a][i] = t
InHand(a, t) == stage[a] # "idle" /\ hand[a] = t

Undelivered == {"held", "drafting", "sending"}
PastCheck == {"drafting", "sending", "sent"}
InFlight == {a \in Accounts : stage[a] \in PastCheck}

-----------------------------------------------------------------------------
(* The rate limiter.                                                       *)

\* Mutants: a new date does not reset the counter.
TotalNeverReset(sum) == globalSent
AccountsNeverReset(stored) == accountSent

\* The counters after _maybe_reset: on a new date they are read back from
\* metrics, which hold stored per account and sum in total.
TotalAfterReset(sum) == IF resetToday THEN globalSent ELSE sum
AccountsAfterReset(stored) == IF resetToday THEN accountSent ELSE stored

\* Mutant: the counters start at zero after a restart.
Unseeded(a) == AccountsAfterReset(coldSent)

\* A zero counter is taken from metrics before it is compared.
Seeded(a) ==
  LET known == AccountsAfterReset(coldSent)
  IN  IF known[a] = 0 THEN [known EXCEPT ![a] = coldSent[a]] ELSE known

\* can_send_cold(a) under the limits lim answers ok.  An hourly or interval
\* limit may refuse at any time.
CanSendCold(a, lim, ok) ==
  LET total == TotalAfterReset(coldSentSum)
  IN  /\ resetToday' = TRUE
      /\ globalSent' = total
      /\ \/ /\ total >= lim.total \/ lim.paced
            /\ ~ok
            /\ accountSent' = AccountsAfterReset(coldSent)
         \/ /\ total < lim.total
            /\ accountSent' = Seeded(a)
            /\ ok = (Seeded(a)[a] < lim.acc)

\* Mutant: the cached total is written back instead of incrementing the row.
CountFromCache(a) ==
  /\ coldSent' = [coldSent EXCEPT ![a] = @ + 1]
  /\ coldSentSum' = globalSent + 1

\* metrics_store.incr(a, "cold_sent", 1)
CountInMetrics(a) ==
  /\ coldSent' = [coldSent EXCEPT ![a] = @ + 1]
  /\ coldSentSum' = coldSentSum + 1

\* Mutant: only the account's counter is incremented.
RegisterAccountOnly(a) ==
  /\ resetToday' = TRUE
  /\ globalSent' = TotalAfterReset(coldSentSum')
  /\ accountSent' = [AccountsAfterReset(coldSent') EXCEPT ![a] = @ + 1]

\* register_cold_sent(a), after CountInMetrics(a) in the same step.
RegisterColdSent(a) ==
  /\ resetToday' = TRUE
  /\ globalSent' = TotalAfterReset(coldSentSum') + 1
  /\ accountSent' = [AccountsAfterReset(coldSent') EXCEPT ![a] = @ + 1]

-----------------------------------------------------------------------------
Init ==
  /\ leadStatus = [l \in Leads |-> "new"]
  /\ settings \in Settings
  /\ coldSent = [a \in Accounts |-> 0]
  /\ coldSentSum = 0
  /\ limits = EnvLimits
  /\ globalSent = 0
  /\ accountSent = [a \in Accounts |-> 0]
  /\ resetToday = TRUE
  /\ active = [a \in Accounts |-> a \in settings.enabled]
  /\ worker = [a \in Accounts |-> "wired"]
  /\ queue = [a \in Accounts |-> <<>>]
  /\ hand = [a \in Accounts |-> NoTicket]
  /\ stage = [a \in Accounts |-> "idle"]
  /\ admissions = [l \in Leads |-> 1]
  /\ answered = [l \in Leads |-> {}]
  /\ dms = [l \in Leads |-> 0]
  /\ unregistered = 0

-----------------------------------------------------------------------------
(* outreach_loop: one round of the planner for account a.                  *)

\* The limits the round installs: LimitsConfig is rebuilt from four fields,
\* so the hourly and the interval limit fall back to 0.
ConfiguredLimits ==
  [acc |-> settings.acc, total |-> settings.total, paced |-> FALSE]

PauseDisabled(a) ==
  /\ active[a] /\ a \notin settings.enabled
  /\ active' = [active EXCEPT ![a] = FALSE]
  /\ UNCHANGED <<leadVars, metricVars, counterVars, handVars,
                 settings, limits, worker, queue>>

OutreachOff(a) ==
  /\ active[a] /\ a \in settings.enabled /\ ~settings.outreach
  /\ limits' = ConfiguredLimits
  /\ UNCHANGED <<leadVars, metricVars, counterVars, handVars,
                 settings, active, worker, queue>>

Planning(a) ==
  /\ active[a] /\ a \in settings.enabled /\ settings.outreach
  /\ limits' = ConfiguredLimits
  /\ UNCHANGED <<metricVars, handVars, settings, active, worker,
                 admissions, answered, dms>>

PlanRefused(a) ==
  /\ Planning(a)
  /\ CanSendCold(a, ConfiguredLimits, FALSE)
  /\ UNCHANGED <<leadStatus, queue>>

\* plan_batch_for_account, where the first n reservations are made.
PlanUpTo(a, n) ==
  /\ Planning(a)
  /\ CanSendCold(a, ConfiguredLimits, TRUE)
  /\ \E batch \in Reservations(n) :
       /\ Reserve(batch)
       /\ queue' = [queue EXCEPT ![a] =
            @ \o [i \in DOMAIN batch |-> Ticket(batch[i])]]

PlanBatch(a) == PlanUpTo(a, settings.batch)

\* One reservation raises and is rolled back; None ends the batch.
PlanCutShort(a) == \E n \in 0 .. settings.batch - 1 : PlanUpTo(a, n)

OutreachRound(a) ==
  PauseDisabled(a) \/ OutreachOff(a) \/ PlanRefused(a) \/ PlanBatch(a)

-----------------------------------------------------------------------------
(* AccountWorker: one cold action of account a, and the worker task.       *)

Moves(a, from, to) ==
  /\ stage[a] = from
  /\ stage' = [stage EXCEPT ![a] = to]
  /\ hand' = IF to = "idle" THEN [hand EXCEPT ![a] = NoTicket] ELSE hand

SetLead(l, status) == leadStatus' = [leadStatus EXCEPT ![l] = status]

\* Mutants: only an active account's queue is served; the popped action is
\* not remembered.
NextActionIfActive(a) ==
  /\ active[a]
  /\ worker[a] # "down" /\ stage[a] = "idle" /\ queue[a] # <<>>
  /\ hand' = [hand EXCEPT ![a] = Head(queue[a])]
  /\ stage' = [stage EXCEPT ![a] = "held"]
  /\ queue' = [queue EXCEPT ![a] = Tail(@)]
  /\ UNCHANGED <<leadVars, metricVars, counterVars,
                 settings, limits, active, worker>>

NextActionForgets(a) ==
  /\ worker[a] # "down" /\ stage[a] = "idle" /\ queue[a] # <<>>
  /\ stage' = [stage EXCEPT ![a] = "held"]
  /\ queue' = [queue EXCEPT ![a] = Tail(@)]
  /\ UNCHANGED <<leadVars, metricVars, counterVars, hand,
                 settings, limits, active, worker>>

\* next_action pops the oldest action and then sleeps until its start time.
NextAction(a) ==
  /\ worker[a] # "down" /\ stage[a] = "idle" /\ queue[a] # <<>>
  /\ hand' = [hand EXCEPT ![a] = Head(queue[a])]
  /\ stage' = [stage EXCEPT ![a] = "held"]
  /\ queue' = [queue EXCEPT ![a] = Tail(@)]
  /\ UNCHANGED <<leadVars, metricVars, counterVars,
                 settings, limits, active, worker>>

\* Mutant: the limit is checked when the lead is reserved, and never again.
PassUnchecked(a) ==
  /\ worker[a] = "wired" /\ Moves(a, "held", "drafting")
  /\ UNCHANGED <<leadVars, metricVars, counterVars,
                 settings, limits, active, worker, queue>>

\* The limit is re-checked before the text is generated.
PassLimit(a) ==
  /\ worker[a] = "wired" /\ Moves(a, "held", "drafting")
  /\ CanSendCold(a, limits, TRUE)
  /\ UNCHANGED <<leadVars, metricVars, settings, limits, active, worker, queue>>

\* "rate_limit_reached": logged, and the action is dropped.
SkipOverLimit(a) ==
  /\ worker[a] = "wired" /\ Moves(a, "held", "idle")
  /\ CanSendCold(a, limits, FALSE)
  /\ UNCHANGED <<leadVars, metricVars, settings, limits, active, worker, queue>>

WorkerLocal(a) ==
  UNCHANGED <<metricVars, counterVars, settings, limits, active, worker, queue>>

\* A resumed worker has neither a rate limiter nor an AI client: it checks
\* nothing, has no text and drops the action in one go.
BareWorkerDrops(a) ==
  worker[a] = "bare" /\ Moves(a, "held", "idle") /\ WorkerLocal(a)
  /\ UNCHANGED leadVars

Draft(a) ==
  Moves(a, "drafting", "sending") /\ WorkerLocal(a) /\ UNCHANGED leadVars

\* "ai_generation_failed": metrics and last_error, nothing for the lead.
DraftFails(a) ==
  Moves(a, "drafting", "idle") /\ WorkerLocal(a) /\ UNCHANGED leadVars

\* Telegram accepts the message; send_message has yet to return.
Deliver(a) ==
  LET t == hand[a]
  IN  /\ Moves(a, "sending", "sent") /\ WorkerLocal(a)
      /\ dms' = [dms EXCEPT ![t.lead] = @ + 1]
      /\ answered' = [answered EXCEPT ![t.lead] = @ \cup {t.adm}]
      /\ UNCHANGED <<leadStatus, admissions>>

\* Mutant: a failed send gives the lead back for a retry.
SendFailsReleases(a) ==
  /\ Moves(a, "sending", "idle") \/ Moves(a, "sent", "idle")
  /\ SetLead(hand[a].lead, "new")
  /\ WorkerLocal(a) /\ UNCHANGED <<admissions, answered, dms>>

\* send_message raises, before or after Telegram has accepted the message.
SendFails(a) ==
  /\ Moves(a, "sending", "idle") \/ Moves(a, "sent", "idle")
  /\ SetLead(hand[a].lead, "failed")
  /\ WorkerLocal(a) /\ UNCHANGED <<admissions, answered, dms>>

\* The session is revoked: _mark_session_invalid sets NEED_RELOGIN.
SessionInvalid(a) ==
  /\ Moves(a, "sending", "idle")
  /\ active' = [active EXCEPT ![a] = FALSE]
  /\ UNCHANGED <<leadVars, metricVars, counterVars,
                 settings, limits, worker, queue>>

\* send_message has returned: count, register and mark_contacted, all
\* before the event loop runs anything else.
FinishSend(a) ==
  /\ Moves(a, "sent", "idle")
  /\ CountInMetrics(a) /\ RegisterColdSent(a)
  /\ SetLead(hand[a].lead, "contacted")
  /\ UNCHANGED <<admissions, answered, dms, unregistered,
                 settings, limits, active, worker, queue>>

\* A write after incr raises (database locked, disk full): the handler of
\* send errors runs although the message is out and counted.
BookkeepingFails(a) ==
  /\ Moves(a, "sent", "idle")
  /\ CountInMetrics(a)
  /\ \/ RegisterColdSent(a) /\ UNCHANGED unregistered
     \/ /\ unregistered < MaxFaults
        /\ unregistered' = unregistered + 1
        /\ UNCHANGED counterVars
  /\ SetLead(hand[a].lead, "failed")
  /\ UNCHANGED <<admissions, answered, dms,
                 settings, limits, active, worker, queue>>

\* Mutant: the queue goes with its worker.
WorkerExitsWithQueue(a) ==
  /\ worker[a] # "down" /\ stage[a] = "idle"
  /\ worker' = [worker EXCEPT ![a] = "down"]
  /\ queue' = [queue EXCEPT ![a] = <<>>]
  /\ UNCHANGED <<leadVars, metricVars, counterVars, handVars,
                 settings, limits, active>>

\* run() returns or dies: no connection, a failed health check after it, or
\* an exception _handle_read_dialog does not catch.
WorkerExits(a) ==
  /\ worker[a] # "down" /\ stage[a] = "idle"
  /\ worker' = [worker EXCEPT ![a] = "down"]
  /\ UNCHANGED <<leadVars, metricVars, counterVars, handVars,
                 settings, limits, active, queue>>

\* auto_resume_loop and resume_account: the new worker gets no stores.
AutoResume(a) ==
  /\ active[a] /\ worker[a] = "down"
  /\ worker' = [worker EXCEPT ![a] = "bare"]
  /\ UNCHANGED <<leadVars, metricVars, counterVars, handVars,
                 settings, limits, active, queue>>

\* Connects and health checks set the in-memory status to ACTIVE or not.
StatusChanges(a) ==
  /\ active' = [active EXCEPT ![a] = ~@]
  /\ UNCHANGED <<leadVars, metricVars, counterVars, handVars,
                 settings, limits, worker, queue>>

SendStep(a) ==
  \/ NextAction(a) \/ PassLimit(a) \/ SkipOverLimit(a) \/ BareWorkerDrops(a)
  \/ Draft(a) \/ DraftFails(a)
  \/ Deliver(a) \/ SendFails(a) \/ SessionInvalid(a)
  \/ FinishSend(a) \/ BookkeepingFails(a)

-----------------------------------------------------------------------------
(* The API process, the calendar and the process supervisor.               *)

PutSettings ==
  /\ settings' \in Settings
  /\ UNCHANGED <<leadVars, metricVars, counterVars, handVars,
                 limits, active, worker, queue>>

\* update_lead_status: an admin may set any status, 'new' included.  What
\* the reply engine, a manual reply and the outbox write is a part of this.
AdminSetsStatus(l, status) ==
  /\ SetLead(l, status)
  /\ IF status = "new" /\ leadStatus[l] # "new"
       THEN /\ admissions[l] < MaxAdmissions
            /\ admissions' = [admissions EXCEPT ![l] = @ + 1]
       ELSE UNCHANGED admissions
  /\ UNCHANGED <<answered, dms, metricVars, counterVars, handVars,
                 settings, limits, active, worker, queue>>

Midnight ==
  /\ coldSent' = [a \in Accounts |-> 0]
  /\ coldSentSum' = 0
  /\ unregistered' = 0
  /\ resetToday' = FALSE
  /\ UNCHANGED <<leadVars, globalSent, accountSent, handVars,
                 settings, limits, active, worker, queue>>

\* The process dies and comes back.  It may die in the middle of FinishSend
\* with the metrics row committed and nothing else written.
Restart ==
  /\ \/ UNCHANGED <<coldSent, coldSentSum>>
     \/ \E a \in Accounts : stage[a] = "sent" /\ CountInMetrics(a)
  /\ limits' = EnvLimits
  /\ globalSent' = coldSentSum'
  /\ accountSent' = [a \in Accounts |-> 0]
  /\ resetToday' = TRUE
  /\ active' = [a \in Accounts |-> a \in settings.enabled]
  /\ worker' = [a \in Accounts |-> "wired"]
  /\ queue' = [a \in Accounts |-> <<>>]
  /\ hand' = [a \in Accounts |-> NoTicket]
  /\ stage' = [a \in Accounts |-> "idle"]
  /\ UNCHANGED <<leadVars, unregistered, settings>>

Next ==
  \/ \E a \in Accounts :
       \/ OutreachRound(a) \/ PlanCutShort(a) \/ SendStep(a)
       \/ WorkerExits(a) \/ AutoResume(a) \/ StatusChanges(a)
  \/ \E l \in Leads, status \in LeadStatus : AdminSetsStatus(l, status)
  \/ PutSettings \/ Midnight \/ Restart

Spec == Init /\ [][Next]_vars

-----------------------------------------------------------------------------
(* Properties.                                                             *)

\* Every variable has its type; a worker holds a ticket exactly while it is
\* working on one.
TypeOK ==
  /\ leadStatus \in [Leads -> LeadStatus]
  /\ settings \in Settings
  /\ coldSent \in [Accounts -> Nat] /\ coldSentSum \in Nat
  /\ limits \in Limits
  /\ limits.acc <= MaxAcc /\ limits.total <= MaxTotal
  /\ globalSent \in Nat /\ accountSent \in [Accounts -> Nat]
  /\ resetToday \in BOOLEAN
  /\ active \in [Accounts -> BOOLEAN]
  /\ worker \in [Accounts -> {"wired", "bare", "down"}]
  /\ queue \in [Accounts -> Seq(Tickets)]
  /\ hand \in [Accounts -> Tickets \cup {NoTicket}]
  /\ stage \in [Accounts -> {"idle"} \cup Undelivered \cup {"sent"}]
  /\ \A a \in Accounts : stage[a] # "idle" => hand[a] \in Tickets
  /\ admissions \in [Leads -> Nat]
  /\ answered \in [Leads -> SUBSET Nat]
  /\ dms \in [Leads -> Nat]
  /\ unregistered \in Nat /\ unregistered <= MaxFaults

\* A lead gets at most one cold message each time it is made 'new', whatever
\* two workers, a failed send, a restart between the send and its
\* bookkeeping, or an admin who reopens a lead that is still queued do.
OneMessagePerAdmission == \A l \in Leads : dms[l] <= admissions[l]

\* A 'new' lead is free: no queue and no worker still carries it under its
\* present admission, and no message went out for it.  reserve_lead_for_account
\* relies on this when it hands the lead to the next account.
NewLeadIsFree ==
  \A l \in NewLeads :
    /\ admissions[l] \notin answered[l]
    /\ \A a \in Accounts : ~Queued(a, Ticket(l)) /\ ~InHand(a, Ticket(l))

\* The daily limit of an account holds for what metrics record, across
\* restarts and midnight, up to the sends the limiter was never told of.
AccountCap == \A a \in Accounts : coldSent[a] <= MaxAcc + unregistered

\* Workers check the global limit before the AI call and count after the
\* send, so the day's total can pass the limit, but by less than one send
\* per account (plus the sends the limiter was never told of).
GlobalCapSlack ==
  coldSentSum <= MaxTotal + (Cardinality(Accounts) - 1) + unregistered

\* Once reset for today, the in-memory counters are never behind metrics
\* (a zero account counter is read back from metrics before it is used).
LimiterKeepsUp ==
  resetToday =>
    /\ coldSentSum <= globalSent + unregistered
    /\ \A a \in Accounts :
         accountSent[a] = 0 \/ coldSent[a] <= accountSent[a] + unregistered

\* Nor do they run away from metrics: a send that was checked before midnight
\* and registered after it is counted twice (register_cold_sent reads it back
\* from metrics and adds it again), and that is the worst that happens.
LimiterAheadByOne ==
  resetToday =>
    /\ globalSent <= coldSentSum + 1
    /\ \A a \in Accounts : accountSent[a] <= coldSent[a] + 1

\* A reservation whose message has not gone out.
Open(a, t) == Queued(a, t) \/ (stage[a] \in Undelivered /\ hand[a] = t)

\* The inductive strengthening of OneMessagePerAdmission: a reservation sits
\* in one place only, belongs to an admission that took place, and is open
\* only while no message has gone out for that admission.
TicketInv ==
  /\ NewLeadIsFree
  /\ \A l \in Leads :
       /\ admissions[l] >= 1
       /\ answered[l] \subseteq 1 .. admissions[l]
       /\ dms[l] = Cardinality(answered[l])
  /\ \A a \in Accounts, t \in Tickets :
       /\ Queued(a, t) \/ InHand(a, t) => t.adm \in 1 .. admissions[t.lead]
       /\ Open(a, t) => t.adm \notin answered[t.lead]
       /\ ~(Queued(a, t) /\ InHand(a, t))
       /\ \A b \in Accounts \ {a} :
            Queued(a, t) \/ InHand(a, t) => ~Queued(b, t) /\ ~InHand(b, t)
  /\ \A a \in Accounts : \A i, j \in 1 .. Len(queue[a]) :
       queue[a][i] = queue[a][j] => i = j

\* The account's own counter is level with metrics.
Level(a) == resetToday => coldSent[a] <= accountSent[a] + unregistered

\* The inductive strengthening of AccountCap and GlobalCapSlack: a worker
\* past its limit check has the room for one more send of its account and a
\* counter that was read back from metrics, and the sends in flight are
\* counted as if they had been recorded already.  The positive ceilings keep
\* that room across midnight.
LimitInv ==
  /\ LimiterKeepsUp
  /\ AccountCap
  /\ \A a \in InFlight : Level(a)
  /\ \A a \in InFlight :
       coldSent[a] < MaxAcc + unregistered /\ MaxAcc > 0 /\ MaxTotal > 0
  /\ coldSentSum + Cardinality(InFlight)
       <= MaxTotal + (Cardinality(Accounts) - 1) + unregistered

Promise == INSTANCE OutreachPromise WITH
  sentToday <- coldSentSum,
  DailyCap <- MaxTotal + (Cardinality(Accounts) - 1) + MaxFaults

\* Cold outreach implements OutreachPromise: whatever fails or restarts, a
\* lead is written to at most once per admission, and the day's recorded
\* sends are never lost, never counted twice and never pass the cap plus one
\* send in flight for each further account.
KeepsPromise == Promise!Spec

Scheduler == INSTANCE ActionQueues WITH
  hand <- [a \in Accounts |-> IF stage[a] = "idle" THEN NoTicket ELSE hand[a]],
  Nothing <- NoTicket,
  Initially <- 0

\* The queues keep what the planner was promised: a reservation that is queued
\* reaches its account's worker in its turn, across limits, failed sends,
\* accounts switched off and workers that end and are resumed.  Only a restart
\* loses reservations, and it loses them all: their leads stay 'pending'.
KeepsQueues == Scheduler!Spec

Carries(a, l) ==
  \/ \E i \in 1 .. Len(queue[a]) : queue[a][i].lead = l
  \/ stage[a] # "idle" /\ hand[a].lead = l

\* A reserved lead does not wait for ever behind other actions: its worker
\* gets to it and is done with it, unless the worker is down.
ReservationsAreHandled ==
  \A a \in Accounts, l \in Leads :
    Carries(a, l) ~> ~Carries(a, l) \/ worker[a] = "down"

\* If some account stays active and enabled, no lead stays 'new' for ever:
\* a limit reached today does not block the days that follow.
NewLeadsAreReserved ==
  (\E a \in Accounts :
     <>[](active[a] /\ a \in settings.enabled /\ settings.outreach))
  => \A l \in Leads : leadStatus[l] = "new" ~> leadStatus[l] # "new"

\* The loops of the worker process run for ever and every await returns;
\* days pass; reservations do not fail in every round.  Nothing forces a
\* failure, a restart or an admin's hand.
Fairness ==
  /\ \A a \in Accounts : WF_vars(SendStep(a)) /\ WF_vars(OutreachRound(a))
  /\ WF_vars(Midnight)

FairSpec == Spec /\ Fairness

-----------------------------------------------------------------------------
(* What the documentation says and the code does not do.                   *)

\* README.md:60, "min interval (s), max per hour per account": a message is
\* prepared only under the hourly and interval limits that were configured.
PacingApplies == InFlight # {} => limits.paced = EnvLimits.paced

\* README.md:64, "Errors: mark lead as failed with reason": once the worker
\* is done with a reserved lead, the lead is no longer 'pending'.  Otherwise
\* no one but an admin ever moves it again.
DoneMeansResolved ==
  [][\A a \in Accounts :
       SendStep(a) /\ stage[a] # "idle" /\ stage'[a] = "idle"
       => leadStatus'[hand[a].lead] # "pending"]_vars

=============================================================================
