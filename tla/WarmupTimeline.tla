--------------------------- MODULE WarmupTimeline ---------------------------
(***************************************************************************)
(* One account's actions in time: the warmup planner with its hourly cap   *)
(* on dialog reads (behavior/warmup_engine.py), the planned cold sends     *)
(* that share its queue (behavior/outreach_engine.py), the queue itself    *)
(* (behavior/scheduler.py) and the worker that sleeps until an action's    *)
(* start and then carries it out (telegram/accounts.py).                   *)
(*                                                                         *)
(* The cap is applied to the times the reads are planned for; they happen  *)
(* when the worker gets to them.  Accounts share neither queue nor         *)
(* history, so there is one.  What a cold send does is ColdOutreach's.     *)
(***************************************************************************)
EXTENDS Integers, Sequences, FiniteSets

LOCAL INSTANCE SequencesExt   \* Front, Last

CONSTANTS
  Hour,         \* ticks in an hour
  Jitter,       \* delays before a channel read, and after it before the idle
  DialogDelays, \* delays of a dialog read after the channel read
  ColdDelays,   \* delays of a cold send
  MaxDelay,     \* the longest delay of any action
  Work,         \* the longest a handler takes with the checks after it, or a poll
  DayGaps,      \* ticks between planning rounds
  NightGaps,    \* the same in quiet hours
  Caps,         \* values of max_read_dialogs_per_hour
  MaxCap,       \* the highest of them
  DayLength,    \* hours in a day
  MaxTime,      \* bound: ticks
  MaxQueue      \* bound: actions in the queue before a planner adds to it

ASSUME TimeAssumption ==
  /\ Hour \in Nat \ {0} /\ Work \in Nat /\ MaxDelay \in Nat /\ DayLength \in Nat \ {0}
  /\ Jitter \subseteq Nat /\ DialogDelays \subseteq Nat
  /\ \A j \in Jitter, k \in Jitter \cup DialogDelays : j + k <= MaxDelay
  /\ ColdDelays \subseteq 0 .. MaxDelay
  /\ DayGaps \subseteq Nat \ {0} /\ NightGaps \subseteq Nat \ {0}

ASSUME CapAssumption == MaxCap \in Nat /\ Caps \subseteq 0 .. MaxCap

ASSUME BoundAssumption == MaxTime \in Nat /\ MaxQueue \in Nat

VARIABLES
  now,        \* the clock
  up,         \* the worker is connected and in its loop
  nextRound,  \* when warmup_loop plans again
  history,    \* _read_dialog_history: dialog reads planned for the last hour
  queue,      \* the scheduler's queue of the account
  hand,       \* the action the worker has popped, or Nothing
  busySince   \* when its handler began, or Never

\* History of this process: dialog reads planned; dialog reads begun, each
\* with the time; when the worker last connected.
VARIABLES planned, read, connectedAt

plannerVars == <<nextRound, history, planned>>
handVars == <<hand, busySince, read>>
vars == <<plannerVars, handVars, now, up, queue, connectedAt>>

Kind == {"channel", "dialog", "idle", "cold", "poll"}

\* actions.py: kind and earliest_start_ts; and, for the properties, when it
\* was planned and how many actions were then before it.  The pass of the loop
\* that finds nothing planned is an action of its own, a poll.
Action == [kind : Kind, start : Nat, planned : Nat, ahead : Nat]

Nothing == [kind |-> "nothing"]
Never == -1

Asleep == hand # Nothing /\ busySince = Never
Busy == hand # Nothing /\ busySince # Never

\* How many actions are before the next one.
Before == Len(queue) + (IF hand = Nothing THEN 0 ELSE 1)

Planned(kind, delay, before) ==
  [kind |-> kind, start |-> now + delay, planned |-> now, ahead |-> before]

\* initial_actions of a process that starts at that time: one idle gap.
InitialQueues(time) ==
  {<<[kind |-> "idle", start |-> time + j, planned |-> time, ahead |-> 0]>> : j \in Jitter}

Init ==
  /\ now = 0 /\ up = FALSE /\ nextRound = 0
  /\ queue \in InitialQueues(0) /\ hand = Nothing /\ busySince = Never
  /\ history = {} /\ planned = {} /\ read = {} /\ connectedAt = 0

-----------------------------------------------------------------------------
(* The planners.                                                           *)

HourOfDay == (now \div Hour) % DayLength

\* Mutant: an interval over midnight is taken for an ordinary one.
InQuietSameDay(hour, start, end) == start <= hour /\ hour < end

\* next_batch_interval: in_quiet.
InQuiet(hour, start, end) ==
  IF start < end THEN start <= hour /\ hour < end
                 ELSE hour >= start \/ hour < end

\* Mutants: a read counts only once its time has come; only until then.
RecentPast == {r \in history : r.start <= now /\ now - r.start < Hour}
RecentAhead == {r \in history : r.start > now}

\* The history without reads planned for more than an hour ago.
Recent == {r \in history : now - r.start < Hour}

\* The interval to the next round; the settings are read anew each time.
SleepUntilNext ==
  \E quiet \in {InQuiet(HourOfDay, start, end) : start, end \in 0 .. DayLength - 1} :
    \E gap \in IF quiet THEN NightGaps ELSE DayGaps : nextRound' = now + gap

\* The actions of a round: a channel, a dialog perhaps, and a gap.
Round(useBot, channel, dialog, idle) ==
  IF useBot
  THEN <<Planned("channel", channel, Before), Planned("dialog", dialog, Before + 1),
         Planned("idle", idle, Before + 2)>>
  ELSE <<Planned("channel", channel, Before), Planned("idle", idle, Before + 1)>>

\* The dialog read among them, if any.
DialogIn(useBot, dialog) == IF useBot THEN {Planned("dialog", dialog, Before + 1)} ELSE {}

\* plan_warmup_batch_for_account.  A dialog read is a matter of chance under
\* the cap.
PlanWarmup ==
  /\ now >= nextRound /\ Len(queue) <= MaxQueue
  /\ \E cap \in Caps, j, i \in Jitter, k \in DialogDelays, chance \in BOOLEAN :
       LET useBot == chance /\ Cardinality(Recent) < cap
       IN  /\ queue' = queue \o Round(useBot, j, j + k, j + i)
           /\ history' = Recent \cup DialogIn(useBot, j + k)
           /\ planned' = planned \cup DialogIn(useBot, j + k)
  /\ SleepUntilNext
  /\ UNCHANGED <<handVars, now, up, connectedAt>>

\* warmup_loop passes over an account that is not ACTIVE or is disabled; and
\* there may be no channels to read.
PassOver ==
  /\ now >= nextRound /\ SleepUntilNext
  /\ UNCHANGED <<history, planned, handVars, now, up, queue, connectedAt>>

\* outreach_loop: a reserved lead is queued.
ColdPlanned ==
  /\ Len(queue) <= MaxQueue
  /\ \E delay \in ColdDelays : queue' = Append(queue, Planned("cold", delay, Before))
  /\ UNCHANGED <<plannerVars, handVars, now, up, connectedAt>>

-----------------------------------------------------------------------------
(* The worker.                                                             *)

\* Mutants: the newest action is taken first; a worker that is gone pops.
NextNewest ==
  /\ up /\ hand = Nothing /\ queue # <<>>
  /\ hand' = Last(queue) /\ queue' = Front(queue)
  /\ UNCHANGED <<plannerVars, busySince, read, now, up, connectedAt>>
NextUnguarded ==
  /\ hand = Nothing /\ queue # <<>>
  /\ hand' = Head(queue) /\ queue' = Tail(queue)
  /\ UNCHANGED <<plannerVars, busySince, read, now, up, connectedAt>>

\* next_action pops before it sleeps.
NextAction ==
  /\ up /\ hand = Nothing /\ queue # <<>>
  /\ hand' = Head(queue) /\ queue' = Tail(queue)
  /\ UNCHANGED <<plannerVars, busySince, read, now, up, connectedAt>>

\* Nothing is planned: the checks, and five seconds of sleep.
Poll ==
  /\ up /\ hand = Nothing /\ queue = <<>>
  /\ hand' = Planned("poll", 0, 0)
  /\ UNCHANGED <<plannerVars, busySince, read, now, up, queue, connectedAt>>

\* The start has come.  For an idle action there is nothing to do but the
\* checks after it.
Begin ==
  /\ Asleep /\ now >= hand.start
  /\ busySince' = now
  /\ read' = IF hand.kind = "dialog" THEN read \cup {[action |-> hand, at |-> now]} ELSE read
  /\ UNCHANGED <<plannerVars, hand, now, up, queue, connectedAt>>

\* The handler returns: read, skipped for want of a history, or with an error
\* it has noted.  A revoked session makes the account NEED_RELOGIN; the task
\* goes on with what is queued.
Finish ==
  /\ Busy /\ hand' = Nothing /\ busySince' = Never
  /\ UNCHANGED <<plannerVars, read, now, up, queue, connectedAt>>

\* Stopped, or an exception no handler catches: _handle_read_dialog lets some
\* through.
WorkerEnds ==
  /\ up /\ up' = FALSE
  /\ hand' = Nothing /\ busySince' = Never
  /\ UNCHANGED <<plannerVars, read, now, queue, connectedAt>>

\* The first connection, or a resumed worker's.
Connect ==
  /\ ~up /\ up' = TRUE /\ connectedAt' = now
  /\ UNCHANGED <<plannerVars, handVars, now, queue>>

\* The process starts again: queues and the hourly history are gone.
Restart ==
  /\ up' = FALSE /\ nextRound' = now
  /\ queue' \in InitialQueues(now) /\ hand' = Nothing /\ busySince' = Never
  /\ history' = {} /\ planned' = {} /\ read' = {} /\ connectedAt' = now
  /\ UNCHANGED now

-----------------------------------------------------------------------------
(* Time.                                                                   *)

\* The worker's loop is prompt: it does not wait with an action at hand,
\* beyond a start, or for longer than a handler may take.
Prompt ==
  up =>
    /\ hand # Nothing
    /\ Asleep => now < hand.start
    /\ Busy => now < busySince + Work

Tick ==
  /\ now < MaxTime /\ Prompt /\ now' = now + 1
  /\ UNCHANGED <<plannerVars, handVars, up, queue, connectedAt>>

Next ==
  \/ PlanWarmup \/ PassOver \/ ColdPlanned
  \/ NextAction \/ Poll \/ Begin \/ Finish
  \/ WorkerEnds \/ Connect \/ Restart
  \/ Tick

Spec == Init /\ [][Next]_vars

-----------------------------------------------------------------------------
(* Properties.                                                             *)

DialogRead == [action : Action, at : Nat]

TypeOK ==
  /\ now \in Nat /\ up \in BOOLEAN
  /\ nextRound \in Nat /\ queue \in Seq(Action)
  /\ hand \in Action \cup {Nothing} /\ busySince \in Nat \cup {Never}
  /\ hand # Nothing => up
  /\ history \subseteq Action /\ IsFiniteSet(history)
  /\ planned \subseteq Action /\ IsFiniteSet(planned)
  /\ read \subseteq DialogRead /\ IsFiniteSet(read)
  /\ connectedAt \in Nat

\* The dialog reads planned for the hour after from.
PlannedIn(from) == {a \in planned : from < a.start /\ a.start <= from + Hour}

\* No hour, wherever it begins, has more dialog reads planned for it by one
\* process than max_read_dialogs_per_hour at its highest.
PlannedCap == \A from \in -Hour .. now + MaxDelay : Cardinality(PlannedIn(from)) <= MaxCap

ReadIn(from) == {r \in read : from < r.at /\ r.at <= from + Hour}

Lateness(r) == r.at - r.action.start

\* What becomes of the cap when reads happen: reads of one hour that are up to
\* n hours late exceed it at most n times over, for backlogs after a
\* reconnection and for reads held up behind a cold send alike.
HourlyReads ==
  \A from \in -Hour .. now, n \in 0 .. (now \div Hour) + 1 :
    Cardinality({r \in ReadIn(from) : Lateness(r) <= n * Hour}) <= MaxCap * (n + 1)

\* An action waits no longer than the longest delay of those before it, and
\* for them to be done; time without a worker apart.
Punctual ==
  Busy =>
    \/ busySince <= hand.planned + MaxDelay + Work * hand.ahead
    \/ busySince <= connectedAt + Work * hand.ahead

\* Quiet hours are those from their start round the clock to their end, the
\* whole day if the two are the same.
QuietHours ==
  \A start, end \in 0 .. DayLength - 1 :
    InQuiet(HourOfDay, start, end)
      <=> start = end \/ (HourOfDay - start) % DayLength < (end - start) % DayLength
=============================================================================
