-------------------------- MODULE AccountLifecycle --------------------------
(***************************************************************************)
(* The life of one Telegram account: its status in the memory of the       *)
(* worker process, in the memory of the API process and in SQLite          *)
(* (core/state.py, storage/state_db.py), the worker task that connects,    *)
(* checks and serves it (telegram/accounts.py, telegram/client_adapter.py),*)
(* the loops that pause, resume and restart it (app/runner.py), and what   *)
(* an operator does about it (pause, resume, settings, login, restart in   *)
(* app/api.py).  There is one account: of the others it sees the restart,  *)
(* and the lock of the client manager, held while a client connects, so    *)
(* that they connect one after another and Connect may come late.          *)
(*                                                                         *)
(* Each process reads the account's row once, keeps its own copy, and      *)
(* writes the whole row from that copy whenever it sets any field.         *)
(* One action is the code of one process between two suspension points;    *)
(* an endpoint that sets several fields in turn writes the last row.       *)
(***************************************************************************)
EXTENDS Naturals

CONSTANT MaxRestarts    \* bound: crashes of the worker and restart requests

ASSUME BoundAssumption == MaxRestarts \in Nat

\* AccountStatus; nothing sets DISABLED.
Status == {"ACTIVE", "PAUSED", "NEED_RELOGIN", "BANNED"}

\* AccountRuntimeState; ban is "there is a ban_reason".
Runtime == [status : Status, ban : BOOLEAN]

\* Found without a session, or banned.
Dead == {"NEED_RELOGIN", "BANNED"}

Unread == [status |-> "UNREAD"]

VARIABLES
  enabled,    \* the override in the settings: "on", "off" or "unset"
  session,    \* the session file is authorised
  row,        \* account_runtime in SQLite
  memory,     \* the worker process's copy of it
  apiMemory,  \* the API process's copy of it, Unread until first used
  login,      \* the API has a login under way
  flag,       \* control_flags has "restart_workers"
  task,       \* of the worker: "down", "connecting", "checking", "running"
  wired,      \* the worker was built by init_workers
  client,     \* the cached client: "none", "good" or "bad" (not authorised)
  stopping,   \* stop_all: "no", "draining" (others), "waiting", "stopped"
  restarts    \* crashes and restart requests so far

\* History: the operator has logged the account in, and nothing has happened
\* since that speaks against its having a worker.
VARIABLE awaited

apiVars == <<apiMemory, login, awaited>>
taskVars == <<task, wired, client, stopping>>
vars == <<apiVars, taskVars, enabled, session, row, memory, flag, restarts>>

Configured == IF enabled = "off" THEN "PAUSED" ELSE "ACTIVE"

\* GlobalState.set_*: the caller's copy, and the whole row from it.
WorkerWrites(state) == memory' = state /\ row' = state
ApiWrites(state) == apiMemory' = state /\ row' = state

WithStatus(state, status) == [state EXCEPT !.status = status]

\* ensure_account in the API process.
ApiCopy == IF apiMemory = Unread THEN row ELSE apiMemory

Init ==
  /\ enabled \in {"on", "off", "unset"} /\ session \in BOOLEAN
  /\ row = [status |-> Configured, ban |-> FALSE] /\ memory = row
  /\ task = "connecting" /\ wired = TRUE /\ client = "none" /\ stopping = "no"
  /\ apiMemory = Unread /\ login = FALSE
  /\ flag = FALSE /\ restarts = 0 /\ awaited = FALSE

-----------------------------------------------------------------------------
(* AccountWorker.run up to the loop.                                       *)

\* The task returns or dies; stop_all may be waiting for it.
TaskEnds ==
  /\ task' = "down"
  /\ stopping' = IF stopping = "waiting" THEN "stopped" ELSE stopping

\* Mutant: a client that is not authorised is not kept.
Uncached(cached) == IF session THEN "good" ELSE "none"

\* start_account returns the cached client, or connects a new one.
ClientFor(cached) ==
  IF cached # "none" THEN cached ELSE IF session THEN "good" ELSE "bad"

\* Connected: errors, ban reason and floodwait are cleared.
Connect ==
  /\ task = "connecting" /\ task' = "checking"
  /\ client' = ClientFor(client)
  /\ WorkerWrites([memory EXCEPT !.ban = FALSE])
  /\ UNCHANGED <<apiVars, wired, stopping, enabled, session, flag, restarts>>

ConnectFails ==
  /\ task = "connecting" /\ client = "none" /\ TaskEnds
  /\ WorkerWrites(WithStatus(memory, "PAUSED"))
  /\ awaited' = FALSE
  /\ UNCHANGED <<apiMemory, login, wired, client, enabled, session, flag, restarts>>

\* _post_connect_healthcheck passes, and the account is ACTIVE.
CheckPasses ==
  /\ task = "checking" /\ client = "good" /\ task' = "running"
  /\ WorkerWrites(WithStatus(memory, "ACTIVE"))
  /\ UNCHANGED <<apiVars, wired, client, stopping, enabled, session, flag, restarts>>

\* Mutant: run goes on after a check that failed.
CheckFailsGoesOn ==
  /\ task = "checking" /\ task' = "running"
  /\ \E status \in {"NEED_RELOGIN", "BANNED", "PAUSED"} :
       WorkerWrites([status |-> status,
                     ban |-> memory.ban \/ status = "BANNED"])
  /\ awaited' = FALSE
  /\ UNCHANGED <<apiMemory, login, stopping, wired, client, enabled, session,
                 flag, restarts>>

\* It does not: the session is not authorised or could not be asked, the
\* account is deactivated, or get_me failed some other way.
CheckFails ==
  /\ task = "checking" /\ TaskEnds
  /\ \E status \in {"NEED_RELOGIN", "BANNED", "PAUSED"} :
       WorkerWrites([status |-> status,
                     ban |-> memory.ban \/ status = "BANNED"])
  /\ awaited' = FALSE
  /\ UNCHANGED <<apiMemory, login, wired, client, enabled, session, flag, restarts>>

ConnectStep == Connect \/ ConnectFails \/ CheckPasses \/ CheckFails

-----------------------------------------------------------------------------
(* The connected worker.                                                   *)

\* A health check or a handler finds the session invalid; the loop goes on.
NeedsRelogin ==
  /\ task = "running"
  /\ WorkerWrites(WithStatus(memory, "NEED_RELOGIN"))
  /\ awaited' = FALSE
  /\ UNCHANGED <<apiMemory, login, taskVars, enabled, session, flag, restarts>>

\* _maybe_healthcheck passes: last_error and ban_reason are cleared.
HealthCheckPasses ==
  /\ task = "running" /\ client = "good"
  /\ WorkerWrites([memory EXCEPT !.ban = FALSE])
  /\ UNCHANGED <<apiVars, taskVars, enabled, session, flag, restarts>>

\* set_last_error: the row is written from this process's copy.
WorkerNotesError ==
  /\ task = "running" /\ WorkerWrites(memory)
  /\ UNCHANGED <<apiVars, taskVars, enabled, session, flag, restarts>>

\* An exception that no handler catches ends the task, and nothing else.
TaskDies ==
  /\ task = "running" /\ TaskEnds
  /\ UNCHANGED <<apiVars, wired, client, enabled, session, row, memory, flag, restarts>>

\* Mutant: the loop looks at _stopped only while the account is ACTIVE.
LoopEndsIfActive ==
  /\ task = "running" /\ stopping = "waiting" /\ memory.status = "ACTIVE" /\ TaskEnds
  /\ UNCHANGED <<apiVars, wired, client, enabled, session, row, memory, flag, restarts>>

\* The loop finds _stopped set after the action in hand.
LoopEnds ==
  /\ task = "running" /\ stopping = "waiting" /\ TaskEnds
  /\ UNCHANGED <<apiVars, wired, client, enabled, session, row, memory, flag, restarts>>

-----------------------------------------------------------------------------
(* The loops of app/runner.py.                                             *)

PlannerSets(status) ==
  /\ WorkerWrites(WithStatus(memory, status))
  /\ UNCHANGED <<apiVars, taskVars, enabled, session, flag, restarts>>

\* Mutant: an unset override is taken for "off", and "off" for "on".
PausesNobody ==
  memory.status = "ACTIVE" /\ enabled = "unset" /\ PlannerSets("PAUSED")

\* warmup_loop, outreach_loop: an ACTIVE account that is disabled is paused.
\* The branch that makes a PAUSED one ACTIVE stands behind a test for ACTIVE.
PlannerRound ==
  memory.status = "ACTIVE" /\ enabled = "off" /\ PlannerSets("PAUSED")

Resuming ==
  /\ task = "down" /\ task' = "connecting" /\ wired' = FALSE
  /\ UNCHANGED <<apiVars, client, stopping, enabled, session, flag, restarts>>

\* Mutants: any account without a worker is resumed; one that the row calls
\* ACTIVE is; one whose worker has been resumed before is not.
ResumesAny == Resuming /\ WorkerWrites(WithStatus(memory, "ACTIVE"))
AutoResumeByRow ==
  row.status = "ACTIVE" /\ Resuming /\ WorkerWrites(WithStatus(memory, "ACTIVE"))
ResumesOnce ==
  memory.status = "ACTIVE" /\ wired /\ Resuming
  /\ WorkerWrites(WithStatus(memory, "ACTIVE"))

\* auto_resume_loop: resume_account builds a new worker and starts its task.
AutoResume ==
  memory.status = "ACTIVE" /\ Resuming
  /\ WorkerWrites(WithStatus(memory, "ACTIVE"))

Untouched == UNCHANGED <<apiVars, enabled, session, row, memory>>

\* control_loop pops the flag; stop_all stops one worker after another.
PopFlag ==
  /\ flag /\ stopping = "no" /\ flag' = FALSE /\ stopping' = "draining"
  /\ Untouched /\ UNCHANGED <<task, wired, client, restarts>>

StopWorker ==
  /\ stopping = "draining"
  /\ stopping' = IF task = "down" THEN "stopped" ELSE "waiting"
  /\ Untouched /\ UNCHANGED <<task, wired, client, flag, restarts>>

\* Under its restart policy: apply_initial_statuses reads the row and
\* overrides its status, and every worker is started.
StartsAgain ==
  /\ WorkerWrites(WithStatus(row, Configured))
  /\ task' = "connecting" /\ wired' = TRUE /\ client' = "none" /\ stopping' = "no"
  /\ awaited' = FALSE
  /\ UNCHANGED <<apiMemory, login, enabled, session, flag>>

Exit == stopping = "stopped" /\ StartsAgain /\ UNCHANGED restarts

Crash ==
  restarts < MaxRestarts /\ restarts' = restarts + 1 /\ StartsAgain

Control == PopFlag \/ StopWorker \/ Exit

-----------------------------------------------------------------------------
(* Telegram, and the operator through the API process.                     *)

SessionRevoked ==
  /\ session /\ session' = FALSE
  /\ client' = IF client = "good" THEN "bad" ELSE client
  /\ awaited' = FALSE
  /\ UNCHANGED <<apiMemory, login, task, wired, stopping, enabled, row, memory, flag, restarts>>

ApiSets(choice, state) ==
  /\ enabled' = choice /\ ApiWrites(state)
  /\ awaited' = (awaited /\ choice # "off")
  /\ UNCHANGED <<login, taskVars, session, memory, flag, restarts>>

PauseAccount == ApiSets("off", WithStatus(ApiCopy, "PAUSED"))
ResumeAccount == ApiSets("on", WithStatus(ApiCopy, "ACTIVE"))

\* update_settings: every override in the merged settings sets the status.
PutSettings(choice) ==
  ApiSets(choice, WithStatus(ApiCopy, IF choice = "off" THEN "PAUSED" ELSE "ACTIVE"))

ListAccounts ==
  /\ apiMemory = Unread /\ apiMemory' = row
  /\ UNCHANGED <<login, awaited, taskVars, enabled, session, row, memory, flag, restarts>>

LoginStart ==
  /\ login' = TRUE
  /\ UNCHANGED <<apiMemory, awaited, taskVars, enabled, session, row, memory, flag, restarts>>

\* The code is right: the session file is authorised, and whether a client
\* that has it open notices is up to Telegram.
LoginVerify ==
  /\ login /\ login' = FALSE /\ session' = TRUE
  /\ awaited' = (enabled # "off")
  /\ client' \in {client, IF client = "bad" THEN "good" ELSE client}
  /\ ApiWrites([status |-> Configured, ban |-> FALSE])
  /\ UNCHANGED <<task, wired, stopping, enabled, memory, flag, restarts>>

ApiRestarts ==
  /\ apiMemory' = Unread /\ login' = FALSE
  /\ UNCHANGED <<awaited, taskVars, enabled, session, row, memory, flag, restarts>>

RestartWorkers ==
  /\ ~flag /\ flag' = TRUE
  /\ restarts < MaxRestarts /\ restarts' = restarts + 1
  /\ UNCHANGED <<apiVars, taskVars, enabled, session, row, memory>>

Operator ==
  \/ PauseAccount \/ ResumeAccount \/ \E c \in {"on", "off"} : PutSettings(c)
  \/ ListAccounts \/ LoginStart \/ LoginVerify \/ ApiRestarts \/ RestartWorkers

-----------------------------------------------------------------------------
Next ==
  \/ ConnectStep \/ NeedsRelogin \/ HealthCheckPasses \/ WorkerNotesError
  \/ TaskDies \/ LoopEnds \/ PlannerRound \/ AutoResume \/ Control \/ Crash
  \/ SessionRevoked \/ Operator

Spec == Init /\ [][Next]_vars

\* The loops of the worker process run for ever, the hours of auto-resume come
\* every day, and connecting and finishing an action end.
FairSpec ==
  /\ Spec
  /\ WF_vars(ConnectStep) /\ WF_vars(LoopEnds) /\ WF_vars(PlannerRound)
  /\ WF_vars(AutoResume) /\ WF_vars(Control)

-----------------------------------------------------------------------------
(* Properties.                                                             *)

TypeOK ==
  /\ enabled \in {"on", "off", "unset"} /\ session \in BOOLEAN
  /\ row \in Runtime /\ memory \in Runtime
  /\ apiMemory \in Runtime \cup {Unread} /\ login \in BOOLEAN
  /\ flag \in BOOLEAN /\ wired \in BOOLEAN
  /\ task \in {"down", "connecting", "checking", "running"}
  /\ client \in {"none", "good", "bad"}
  /\ task \in {"checking", "running"} => client # "none"
  /\ stopping \in {"no", "draining", "waiting", "stopped"}
  /\ stopping = "waiting" => task # "down"
  /\ restarts \in 0 .. MaxRestarts /\ awaited \in BOOLEAN

FreshProcess == task = "connecting" /\ wired /\ client = "none"

\* Once the worker process's own copy of the status says banned or needs a
\* login, it says so until that process restarts, and a task that has ended
\* is not started again: whatever the planners, auto-resume and health checks
\* do, and although the API process and a login write ACTIVE to the row.  A
\* task still running under NEED_RELOGIN goes on with its queue.
DeadIsNotResumed ==
  [][memory.status \in Dead /\ ~FreshProcess'
       => memory'.status \in Dead /\ (task = "down" => task' = "down")]_vars

\* A banned account has no worker: nothing restarts one under it.
BannedIsDown == memory.status = "BANNED" => task = "down"

View == INSTANCE AccountView WITH
  active <- memory.status = "ACTIVE",
  worker <- IF task = "down" THEN "down" ELSE IF wired THEN "wired" ELSE "bare"

\* What ColdOutreach takes for granted of an account: a worker that ends
\* does not activate it, only an active one is resumed, without its stores,
\* and none becomes active while it has no worker.
KeepsView == View!Spec

\* An ACTIVE account gets a connected worker, or stops being ACTIVE: after a
\* crash of the task, a lost connection, or while the process restarts.
ActiveIsServed ==
  memory.status = "ACTIVE" ~> (task = "running" \/ memory.status # "ACTIVE")

\* An operator's pause takes hold in the worker process again and again, for
\* as long as it lasts, although connecting sets ACTIVE without looking.
DisabledIsPaused ==
  <>[](enabled = "off") => []<>(memory.status # "ACTIVE")

\* A requested restart happens: stop_all does not wait for ever for a worker
\* that is paused, has failed or is being resumed meanwhile.
RestartHappens == flag ~> FreshProcess /\ ~flag

-----------------------------------------------------------------------------
(* What a comment says and the code does not do.                           *)

\* "flip status so the orchestrator can auto-resume the worker": a login is
\* followed by a connected worker, unless something new gets in the way.
LoginIsResumed == awaited ~> (task = "running" \/ ~awaited)

=============================================================================
