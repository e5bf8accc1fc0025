----------------------- MODULE AccountLifecycleProofs -----------------------
(***************************************************************************)
(* Proofs about AccountLifecycle, for every MaxRestarts: the type          *)
(* invariant, the two properties of accounts found dead, and that the      *)
(* module implements AccountView, what ColdOutreach relies on.             *)
(***************************************************************************)
EXTENDS AccountLifecycle, TLAPS

-----------------------------------------------------------------------------
(* Records of the runtime state.                                           *)

LEMMA RuntimeUpdates ==
  ASSUME NEW m \in Runtime
  PROVE  /\ \A s \in Status : /\ WithStatus(m, s) \in Runtime
                              /\ WithStatus(m, s).status = s
         /\ [m EXCEPT !.ban = FALSE] \in Runtime
         /\ [m EXCEPT !.ban = FALSE].status = m.status
         /\ m \in [status : Status, ban : BOOLEAN]
  BY DEF Runtime, WithStatus

LEMMA ConfiguredStatus == Configured \in {"ACTIVE", "PAUSED"} /\ Configured \in Status
  BY DEF Configured, Status

-----------------------------------------------------------------------------
(* Types.                                                                  *)

\* What the worker process does to its own variables is well typed.
LEMMA WorkerTypes ==
  ASSUME TypeOK,
         \/ ConnectStep \/ NeedsRelogin \/ HealthCheckPasses \/ WorkerNotesError
         \/ TaskDies \/ LoopEnds \/ PlannerRound \/ AutoResume
  PROVE  TypeOK'
  <1> USE DEF TypeOK, apiVars, taskVars
  <1>1. memory \in Runtime OBVIOUS
  <1>2. \A s \in Status : WithStatus(memory, s) \in Runtime
    BY <1>1, RuntimeUpdates
  <1>3. [memory EXCEPT !.ban = FALSE] \in Runtime
    BY <1>1, RuntimeUpdates
  <1>4. {"ACTIVE", "PAUSED", "NEED_RELOGIN", "BANNED"} = Status
    BY DEF Status
  <1>5. CASE Connect
    BY <1>5, <1>3 DEF Connect, ClientFor, WorkerWrites
  <1>6. CASE ConnectFails
    BY <1>6, <1>2, <1>4 DEF ConnectFails, TaskEnds, WorkerWrites
  <1>7. CASE CheckPasses
    BY <1>7, <1>2, <1>4 DEF CheckPasses, WorkerWrites
  <1>8. CASE CheckFails
    <2>1. memory.ban \in BOOLEAN
      BY <1>1 DEF Runtime
    <2>2. memory' \in Runtime /\ row' = memory'
      BY <1>8, <2>1, <1>4 DEF CheckFails, WorkerWrites, Runtime
    <2> QED BY <1>8, <2>2 DEF CheckFails, TaskEnds
  <1>9. CASE NeedsRelogin
    BY <1>9, <1>2, <1>4 DEF NeedsRelogin, WorkerWrites
  <1>10. CASE HealthCheckPasses
    BY <1>10, <1>3 DEF HealthCheckPasses, WorkerWrites
  <1>11. CASE WorkerNotesError
    BY <1>11 DEF WorkerNotesError, WorkerWrites
  <1>12. CASE TaskDies
    BY <1>12 DEF TaskDies, TaskEnds
  <1>13. CASE LoopEnds
    BY <1>13 DEF LoopEnds, TaskEnds
  <1>14. CASE PlannerRound
    BY <1>14, <1>2, <1>4 DEF PlannerRound, PlannerSets, WorkerWrites
  <1>15. CASE AutoResume
    BY <1>15, <1>2, <1>4 DEF AutoResume, Resuming, WorkerWrites
  <1> QED
    BY <1>5, <1>6, <1>7, <1>8, <1>9, <1>10, <1>11, <1>12, <1>13, <1>14, <1>15
    DEF ConnectStep

\* Restarts, the session and the API process leave everything well typed.
LEMMA OutsideTypes ==
  ASSUME TypeOK, Control \/ Crash \/ SessionRevoked \/ Operator
  PROVE  TypeOK'
  <1> USE DEF TypeOK, apiVars, taskVars
  <1>1. \A s \in Status : WithStatus(row, s) \in Runtime
    BY RuntimeUpdates
  <1>2. ApiCopy \in Runtime
    BY DEF ApiCopy
  <1>3. \A s \in Status : WithStatus(ApiCopy, s) \in Runtime
    BY <1>2, RuntimeUpdates
  <1>4. "ACTIVE" \in Status /\ "PAUSED" \in Status
    BY DEF Status
  <1>5. CASE PopFlag
    BY <1>5 DEF PopFlag, Untouched
  <1>6. CASE StopWorker
    BY <1>6 DEF StopWorker, Untouched
  <1>7. CASE Exit
    BY <1>7, <1>1, ConfiguredStatus DEF Exit, StartsAgain, WorkerWrites
  <1>8. CASE Crash
    <2>1. restarts' \in 0 .. MaxRestarts
      BY <1>8, BoundAssumption DEF Crash
    <2> QED
      BY <1>8, <2>1, <1>1, ConfiguredStatus DEF Crash, StartsAgain, WorkerWrites
  <1>9. CASE SessionRevoked
    BY <1>9 DEF SessionRevoked
  <1>10. CASE PauseAccount \/ ResumeAccount \/ \E c \in {"on", "off"} : PutSettings(c)
    <2>1. PICK choice \in {"on", "off"}, s \in {"ACTIVE", "PAUSED"} :
            ApiSets(choice, WithStatus(ApiCopy, s))
      BY <1>10 DEF PauseAccount, ResumeAccount, PutSettings
    <2>2. apiMemory' \in Runtime /\ row' \in Runtime
      BY <2>1, <1>3, <1>4 DEF ApiSets, ApiWrites
    <2>3. awaited' \in BOOLEAN
      BY <2>1 DEF ApiSets
    <2> QED BY <2>1, <2>2, <2>3 DEF ApiSets
  <1>11. CASE ListAccounts
    BY <1>11 DEF ListAccounts
  <1>12. CASE LoginStart
    BY <1>12 DEF LoginStart
  <1>13. CASE LoginVerify
    <2>1. apiMemory' \in Runtime /\ row' \in Runtime
      BY <1>13, ConfiguredStatus DEF LoginVerify, ApiWrites, Runtime
    <2>2. awaited' \in BOOLEAN /\ client' \in {client, "good"}
      BY <1>13 DEF LoginVerify
    <2>3. client' = "none" => client = "none"
      BY <1>13, <2>2
    <2> QED BY <1>13, <2>1, <2>2, <2>3 DEF LoginVerify
  <1>14. CASE ApiRestarts
    BY <1>14 DEF ApiRestarts
  <1>15. CASE RestartWorkers
    BY <1>15, BoundAssumption DEF RestartWorkers
  <1> QED
    BY <1>5, <1>6, <1>7, <1>8, <1>9, <1>10, <1>11, <1>12, <1>13, <1>14, <1>15
    DEF Control, Operator

\* Every reachable state is well typed; the client of a connected worker
\* exists, and stop_all waits only for a task that has not ended.
THEOREM TypeCorrect == Spec => []TypeOK
  <1>1. Init => TypeOK
    <2> SUFFICES ASSUME Init PROVE TypeOK OBVIOUS
    <2>1. row \in Runtime
      BY ConfiguredStatus DEF Init, Runtime
    <2>2. apiMemory \in Runtime \cup {Unread}
      BY DEF Init
    <2>3. restarts \in 0 .. MaxRestarts
      BY BoundAssumption DEF Init
    <2> QED BY <2>1, <2>2, <2>3 DEF Init, TypeOK
  <1>2. TypeOK /\ [Next]_vars => TypeOK'
    <2> SUFFICES ASSUME TypeOK, [Next]_vars PROVE TypeOK' OBVIOUS
    <2>1. CASE UNCHANGED vars
      BY <2>1 DEF vars, apiVars, taskVars, TypeOK
    <2>2. CASE \/ ConnectStep \/ NeedsRelogin \/ HealthCheckPasses \/ WorkerNotesError
               \/ TaskDies \/ LoopEnds \/ PlannerRound \/ AutoResume
      BY <2>2, WorkerTypes
    <2>3. CASE Control \/ Crash \/ SessionRevoked \/ Operator
      BY <2>3, OutsideTypes
    <2> QED BY <2>1, <2>2, <2>3 DEF Next
  <1> QED BY <1>1, <1>2, PTL DEF Spec

-----------------------------------------------------------------------------
(* Accounts found dead.                                                    *)

\* What a status set in the worker process means for the account.
LEMMA StatusSet ==
  ASSUME TypeOK
  PROVE  /\ \A s \in Status : WithStatus(memory, s).status = s
         /\ \A s \in Status : WithStatus(row, s).status = s
         /\ [memory EXCEPT !.ban = FALSE].status = memory.status
         /\ Configured \in Status \ Dead
         /\ "ACTIVE" \in Status \ Dead /\ "PAUSED" \in Status \ Dead
         /\ "NEED_RELOGIN" \in Status \cap Dead /\ "BANNED" \in Status \cap Dead
  <1>1. memory \in Runtime /\ row \in Runtime
    BY DEF TypeOK
  <1> QED BY <1>1, RuntimeUpdates, ConfiguredStatus DEF Status, Dead

\* No task that is on its way to ACTIVE serves a dead account, and a banned
\* one has no task at all.
DeadInv ==
  /\ BannedIsDown
  /\ memory.status \in Dead => task \in {"down", "running"}

\* One step: the invariant is kept, and a dead account that comes back to
\* life does so in a new process.
LEMMA DeadStep ==
  ASSUME TypeOK, DeadInv, [Next]_vars
  PROVE  /\ DeadInv'
         /\ memory.status \in Dead /\ ~FreshProcess'
              => memory'.status \in Dead /\ (task = "down" => task' = "down")
  <1> DEFINE Kept == /\ memory'.status = memory.status
                     /\ task' \in {task, "down"}
  <1> USE DEF DeadInv, BannedIsDown, apiVars, taskVars
  <1>1. CASE Kept
    BY <1>1
  <1>2. CASE Connect
    BY <1>2, StatusSet DEF Connect, WorkerWrites, Dead
  <1>3. CASE ConnectFails
    BY <1>3, StatusSet DEF ConnectFails, TaskEnds, WorkerWrites, Dead
  <1>4. CASE CheckPasses
    <2>1. memory.status \notin Dead
      BY <1>4 DEF CheckPasses
    <2>2. memory'.status = "ACTIVE"
      BY <1>4, StatusSet DEF CheckPasses, WorkerWrites
    <2> QED BY <2>1, <2>2 DEF Dead
  <1>5. CASE CheckFails
    <2>1. memory.status \notin Dead
      BY <1>5 DEF CheckFails
    <2>2. task' = "down"
      BY <1>5 DEF CheckFails, TaskEnds
    <2> QED BY <2>1, <2>2
  <1>6. CASE NeedsRelogin
    BY <1>6, StatusSet DEF NeedsRelogin, WorkerWrites, Dead
  <1>7. CASE PlannerRound
    BY <1>7, StatusSet DEF PlannerRound, PlannerSets, WorkerWrites, Dead
  <1>8. CASE AutoResume
    BY <1>8, StatusSet DEF AutoResume, Resuming, WorkerWrites, Dead
  <1>9. CASE Exit \/ Crash
    <2>1. StartsAgain
      BY <1>9 DEF Exit, Crash
    <2>2. memory'.status = Configured /\ task' = "connecting"
      BY <2>1, StatusSet DEF StartsAgain, WorkerWrites
    <2>3. FreshProcess'
      BY <2>1 DEF StartsAgain, FreshProcess
    <2> QED BY <2>2, <2>3, StatusSet DEF Dead
  <1>10. CASE HealthCheckPasses \/ WorkerNotesError
    BY <1>10, <1>1, StatusSet DEF HealthCheckPasses, WorkerNotesError, WorkerWrites
  <1>11. CASE TaskDies \/ LoopEnds
    BY <1>11, <1>1 DEF TaskDies, LoopEnds, TaskEnds
  <1>12. CASE PopFlag \/ StopWorker \/ SessionRevoked
    BY <1>12, <1>1 DEF PopFlag, StopWorker, Untouched, SessionRevoked
  <1>13. CASE Operator
    <2>1. memory' = memory /\ task' = task
      BY <1>13 DEF Operator, PauseAccount, ResumeAccount, PutSettings, ApiSets,
           ListAccounts, LoginStart, LoginVerify, ApiRestarts, RestartWorkers
    <2> QED BY <2>1, <1>1
  <1>14. CASE UNCHANGED vars
    BY <1>14, <1>1 DEF vars
  <1> QED
    BY <1>2, <1>3, <1>4, <1>5, <1>6, <1>7, <1>8, <1>9, <1>10, <1>11, <1>12,
       <1>13, <1>14
    DEF Next, ConnectStep, Control

LEMMA DeadInvariant == Spec => [](TypeOK /\ DeadInv)
  <1>1. Init /\ TypeOK => DeadInv
    BY StatusSet, ConfiguredStatus DEF Init, DeadInv, BannedIsDown, Runtime, Dead
  <1>2. TypeOK /\ DeadInv /\ [Next]_vars => DeadInv'
    BY DeadStep
  <1> QED BY <1>1, <1>2, TypeCorrect, PTL DEF Spec

\* A banned account has no worker.
THEOREM BannedIsDownHolds == Spec => []BannedIsDown
  <1>1. DeadInv => BannedIsDown
    BY DEF DeadInv
  <1> QED BY <1>1, DeadInvariant, PTL

\* Until the worker process restarts, its copy of a status that says banned or
\* needs a login stays so, and a task that has ended gets no successor.
THEOREM DeadIsNotResumedHolds == Spec => DeadIsNotResumed
  <1>1. TypeOK /\ DeadInv /\ [Next]_vars
          => [memory.status \in Dead /\ ~FreshProcess'
                => memory'.status \in Dead /\ (task = "down" => task' = "down")]_vars
    BY DeadStep
  <1> QED BY <1>1, DeadInvariant, PTL DEF Spec, DeadIsNotResumed

-----------------------------------------------------------------------------
(* What cold outreach relies on.                                           *)

Active == memory.status = "ACTIVE"
Worker == IF task = "down" THEN "down" ELSE IF wired THEN "wired" ELSE "bare"

\* The step of AccountView that a step of AccountLifecycle is, if any.
LEMMA ViewStep ==
  ASSUME TypeOK, [Next]_vars
  PROVE  \/ Worker # "down" /\ Worker' = "down" /\ (Active' => Active)
         \/ Active /\ Worker = "down" /\ Worker' = "bare" /\ Active'
         \/ ~(Active' <=> Active) /\ (Worker = "down" => Active) /\ Worker' = Worker
         \/ Worker' = "wired"
         \/ (Active' <=> Active) /\ Worker' = Worker
  <1> USE DEF Active, Worker, apiVars, taskVars
  <1>1. CASE Connect
    <2>1. task = "connecting" /\ task' = "checking" /\ wired' = wired
      BY <1>1 DEF Connect
    <2>2. memory'.status = memory.status
      BY <1>1, StatusSet DEF Connect, WorkerWrites
    <2> QED BY <2>1, <2>2
  <1>2. CASE ConnectFails \/ CheckFails
    <2>1. memory'.status # "ACTIVE" /\ task # "down" /\ task' = "down"
      BY <1>2, StatusSet DEF ConnectFails, CheckFails, TaskEnds, WorkerWrites
    <2> QED BY <2>1
  <1>3. CASE CheckPasses \/ NeedsRelogin
    <2>1. task # "down" /\ task' # "down" /\ wired' = wired
      BY <1>3 DEF CheckPasses, NeedsRelogin
    <2> QED BY <2>1
  <1>4. CASE HealthCheckPasses \/ WorkerNotesError
    BY <1>4, StatusSet DEF HealthCheckPasses, WorkerNotesError, WorkerWrites
  <1>5. CASE TaskDies \/ LoopEnds
    BY <1>5 DEF TaskDies, LoopEnds, TaskEnds
  <1>6. CASE PlannerRound
    BY <1>6 DEF PlannerRound, PlannerSets
  <1>7. CASE AutoResume
    <2>1. memory'.status = "ACTIVE"
      BY <1>7, StatusSet DEF AutoResume, WorkerWrites
    <2> QED BY <1>7, <2>1 DEF AutoResume, Resuming
  <1>8. CASE Exit \/ Crash
    BY <1>8 DEF Exit, Crash, StartsAgain
  <1>9. CASE PopFlag \/ StopWorker \/ SessionRevoked
    BY <1>9 DEF PopFlag, StopWorker, Untouched, SessionRevoked
  <1>10. CASE Operator
    <2>1. memory' = memory /\ task' = task /\ wired' = wired
      BY <1>10 DEF Operator, PauseAccount, ResumeAccount, PutSettings, ApiSets,
           ListAccounts, LoginStart, LoginVerify, ApiRestarts, RestartWorkers
    <2> QED BY <2>1
  <1>11. CASE UNCHANGED vars
    BY <1>11 DEF vars
  <1> QED
    BY <1>1, <1>2, <1>3, <1>4, <1>5, <1>6, <1>7, <1>8, <1>9, <1>10, <1>11
    DEF Next, ConnectStep, Control

\* AccountLifecycle implements AccountView.
THEOREM ViewKept == Spec => KeepsView
  <1>1. Init => View!Init
    BY DEF Init, View!Init
  <1>2. TypeOK /\ [Next]_vars => [View!Next]_(View!vars)
    <2> SUFFICES ASSUME TypeOK, [Next]_vars
                 PROVE  View!Next \/ UNCHANGED View!vars
      OBVIOUS
    <2>1. CASE Worker # "down" /\ Worker' = "down" /\ (Active' => Active)
      BY <2>1 DEF View!Next, View!Exit, Active, Worker
    <2>2. CASE Active /\ Worker = "down" /\ Worker' = "bare" /\ Active'
      BY <2>2 DEF View!Next, View!Resume, Active, Worker
    <2>3. CASE ~(Active' <=> Active) /\ (Worker = "down" => Active) /\ Worker' = Worker
      BY <2>3 DEF View!Next, View!StatusChanges, Active, Worker
    <2>4. CASE Worker' = "wired"
      BY <2>4 DEF View!Next, View!Restart, Active, Worker
    <2>5. CASE (Active' <=> Active) /\ Worker' = Worker
      BY <2>5 DEF View!vars, Active, Worker
    <2> QED BY <2>1, <2>2, <2>3, <2>4, <2>5, ViewStep
  <1> QED BY <1>1, <1>2, TypeCorrect, PTL DEF Spec, KeepsView, View!Spec

=============================================================================
