------------------------- MODULE ColdOutreachProofs -------------------------
(***************************************************************************)
(* Proofs about ColdOutreach, for every set of accounts and leads and for  *)
(* every value of the limits and the bounds.                               *)
(***************************************************************************)
EXTENDS ColdOutreach, TLAPS, FiniteSetTheorems

USE LimitsAssumption, BoundsAssumption

-----------------------------------------------------------------------------
(* Types.                                                                  *)

\* The limits a planning round installs respect the ceilings.
LEMMA ConfiguredLimitsType ==
  ASSUME TypeOK
  PROVE  /\ ConfiguredLimits \in Limits
         /\ ConfiguredLimits.acc <= MaxAcc
         /\ ConfiguredLimits.total <= MaxTotal
  BY DEF TypeOK, ConfiguredLimits, Limits, SettingsType

\* Whatever can_send_cold answers, it leaves well-typed counters.
LEMMA CanSendColdType ==
  ASSUME TypeOK, NEW a \in Accounts, NEW lim \in Limits, NEW ok \in BOOLEAN,
         CanSendCold(a, lim, ok)
  PROVE  /\ globalSent' \in Nat
         /\ accountSent' \in [Accounts -> Nat]
         /\ resetToday' = TRUE
  BY DEF TypeOK, CanSendCold, TotalAfterReset, AccountsAfterReset, Seeded

\* Registering a send leaves well-typed counters.
LEMMA RegisterType ==
  ASSUME TypeOK, NEW a \in Accounts, RegisterColdSent(a),
         coldSent' \in [Accounts -> Nat], coldSentSum' \in Nat
  PROVE  /\ globalSent' \in Nat
         /\ accountSent' \in [Accounts -> Nat]
         /\ resetToday' = TRUE
  <1>1. AccountsAfterReset(coldSent') \in [Accounts -> Nat]
    BY DEF TypeOK, AccountsAfterReset
  <1>2. TotalAfterReset(coldSentSum') \in Nat
    BY DEF TypeOK, TotalAfterReset
  <1>3. QED
    BY <1>1, <1>2 DEF RegisterColdSent

\* A planning round, whether or not a reservation failed.
Plans(a) == \E n \in Nat : PlanUpTo(a, n)

LEMMA PlanIsPlans ==
  ASSUME TypeOK
  PROVE  \A a \in Accounts : PlanBatch(a) \/ PlanCutShort(a) => Plans(a)
  <1>1. settings.batch \in Nat
    BY DEF TypeOK, SettingsType
  <1>2. 0 .. settings.batch - 1 \subseteq Nat
    BY <1>1
  <1>3. QED
    BY <1>1, <1>2 DEF PlanBatch, PlanCutShort, Plans

\* A reservation makes a sequence of tickets out of free leads.
LEMMA ReservationsType ==
  ASSUME TypeOK, NEW most \in Nat, NEW batch \in Reservations(most)
  PROVE  /\ \E n \in Nat : batch \in [1 .. n -> NewLeads]
         /\ [i \in DOMAIN batch |-> Ticket(batch[i])] \in Seq(Tickets)
  <1>1. NewLeads \subseteq Leads
    BY DEF NewLeads
  <1>2. Cardinality(NewLeads) \in Nat
    BY <1>1, LeadsAssumption, FS_Subset, FS_CardinalityType
  <1>3. PICK n \in Nat : batch \in [1 .. n -> NewLeads]
    BY <1>2 DEF Reservations, Injection
  <1>4. \A i \in 1 .. n : Ticket(batch[i]) \in Tickets
    BY <1>1, <1>3 DEF Ticket, Tickets, TypeOK
  <1>5. QED
    BY <1>3, <1>4

\* Every action keeps every variable in its type.
LEMMA TypeStep == TypeOK /\ [Next]_vars => TypeOK'
  <1> SUFFICES ASSUME TypeOK, [Next]_vars PROVE TypeOK'
    OBVIOUS
  <1> USE DEF TypeOK, leadVars, metricVars, counterVars, handVars,
              LeadStatus, Undelivered
  <1>1. ASSUME NEW a \in Accounts, PauseDisabled(a) PROVE TypeOK'
    BY <1>1 DEF PauseDisabled
  <1>2. ASSUME NEW a \in Accounts, OutreachOff(a) PROVE TypeOK'
    BY <1>2, ConfiguredLimitsType DEF OutreachOff
  <1>3. ASSUME NEW a \in Accounts, PlanRefused(a) PROVE TypeOK'
    BY <1>3, ConfiguredLimitsType, CanSendColdType DEF PlanRefused, Planning
  <1>4. ASSUME NEW a \in Accounts, Plans(a) PROVE TypeOK'
    <2>0. PICK most \in Nat : PlanUpTo(a, most)
      BY <1>4 DEF Plans
    <2>1. PICK batch \in Reservations(most) :
            /\ Reserve(batch)
            /\ queue' = [queue EXCEPT ![a] =
                 @ \o [i \in DOMAIN batch |-> Ticket(batch[i])]]
      BY <2>0 DEF PlanUpTo
    <2>2. leadStatus' \in [Leads -> LeadStatus]
      BY <2>1 DEF Reserve
    <2>3. queue' \in [Accounts -> Seq(Tickets)]
      BY <2>1, ReservationsType
    <2>4. /\ globalSent' \in Nat /\ accountSent' \in [Accounts -> Nat]
          /\ resetToday' \in BOOLEAN
      BY <1>4, ConfiguredLimitsType, CanSendColdType DEF Plans, PlanUpTo
    <2>5. /\ limits' \in Limits
          /\ limits'.acc <= MaxAcc /\ limits'.total <= MaxTotal
      BY <1>4, ConfiguredLimitsType DEF Plans, PlanUpTo, Planning
    <2>6. QED
      BY <1>4, <2>2, <2>3, <2>4, <2>5 DEF Plans, PlanUpTo, Planning
  <1>5. ASSUME NEW a \in Accounts, NextAction(a) PROVE TypeOK'
    BY <1>5 DEF NextAction
  <1>6. ASSUME NEW a \in Accounts, PassLimit(a) PROVE TypeOK'
    BY <1>6, CanSendColdType DEF PassLimit, Moves
  <1>7. ASSUME NEW a \in Accounts, SkipOverLimit(a) PROVE TypeOK'
    BY <1>7, CanSendColdType DEF SkipOverLimit, Moves
  <1>8. ASSUME NEW a \in Accounts,
               BareWorkerDrops(a) \/ Draft(a) \/ DraftFails(a)
        PROVE  TypeOK'
    BY <1>8 DEF BareWorkerDrops, Draft, DraftFails, Moves, WorkerLocal
  <1>9. ASSUME NEW a \in Accounts, Deliver(a) PROVE TypeOK'
    BY <1>9 DEF Deliver, Moves, WorkerLocal, Tickets
  <1>10. ASSUME NEW a \in Accounts, SendFails(a) PROVE TypeOK'
    BY <1>10 DEF SendFails, Moves, WorkerLocal, SetLead, Tickets
  <1>11. ASSUME NEW a \in Accounts, SessionInvalid(a) PROVE TypeOK'
    BY <1>11 DEF SessionInvalid, Moves
  <1>12. ASSUME NEW a \in Accounts, FinishSend(a) PROVE TypeOK'
    <2>1. coldSent' \in [Accounts -> Nat] /\ coldSentSum' \in Nat
      BY <1>12 DEF FinishSend, CountInMetrics
    <2>2. /\ globalSent' \in Nat /\ accountSent' \in [Accounts -> Nat]
          /\ resetToday' \in BOOLEAN
      BY <1>12, <2>1, RegisterType DEF FinishSend
    <2>3. QED
      BY <1>12, <2>1, <2>2 DEF FinishSend, Moves, SetLead, Tickets
  <1>13. ASSUME NEW a \in Accounts, BookkeepingFails(a) PROVE TypeOK'
    <2>1. coldSent' \in [Accounts -> Nat] /\ coldSentSum' \in Nat
      BY <1>13 DEF BookkeepingFails, CountInMetrics
    <2>2. /\ globalSent' \in Nat /\ accountSent' \in [Accounts -> Nat]
          /\ resetToday' \in BOOLEAN
          /\ unregistered' \in Nat /\ unregistered' <= MaxFaults
      <3>1. CASE RegisterColdSent(a) /\ UNCHANGED unregistered
        BY <3>1, <2>1, RegisterType
      <3>2. CASE /\ unregistered < MaxFaults
                 /\ unregistered' = unregistered + 1
                 /\ UNCHANGED counterVars
        BY <3>2
      <3>3. QED
        BY <1>13, <3>1, <3>2 DEF BookkeepingFails
    <2>3. QED
      BY <1>13, <2>1, <2>2 DEF BookkeepingFails, Moves, SetLead, Tickets
  <1>14. ASSUME NEW a \in Accounts,
                WorkerExits(a) \/ AutoResume(a) \/ StatusChanges(a)
         PROVE  TypeOK'
    BY <1>14 DEF WorkerExits, AutoResume, StatusChanges
  <1>15. ASSUME NEW l \in Leads, NEW status \in LeadStatus,
                AdminSetsStatus(l, status)
         PROVE  TypeOK'
    <2>1. admissions' \in [Leads -> Nat] /\ leadStatus' \in [Leads -> LeadStatus]
      <3>1. leadStatus' = [leadStatus EXCEPT ![l] = status]
        BY <1>15 DEF AdminSetsStatus, SetLead
      <3>2. \/ admissions' = admissions
            \/ admissions' = [admissions EXCEPT ![l] = @ + 1]
        BY <1>15 DEF AdminSetsStatus
      <3>3. leadStatus' \in [Leads -> LeadStatus]
        BY <3>1
      <3>4. admissions' \in [Leads -> Nat]
        <4>1. [admissions EXCEPT ![l] = @ + 1] \in [Leads -> Nat]
          OBVIOUS
        <4>2. QED
          BY <3>2, <4>1
      <3>5. QED
        BY <3>3, <3>4
    <2>2. QED
      BY <1>15, <2>1 DEF AdminSetsStatus
  <1>16. CASE PutSettings
    BY <1>16 DEF PutSettings
  <1>17. CASE Midnight
    <2>1. /\ coldSent' = [a \in Accounts |-> 0] /\ coldSentSum' = 0
          /\ unregistered' = 0 /\ resetToday' = FALSE
      BY <1>17 DEF Midnight
    <2>2. UNCHANGED <<leadVars, globalSent, accountSent, handVars,
                      settings, limits, active, worker, queue>>
      BY <1>17 DEF Midnight
    <2>3. coldSent' \in [Accounts -> Nat] /\ coldSentSum' \in Nat
      BY <2>1
    <2>4. unregistered' \in Nat /\ unregistered' <= MaxFaults
      BY <2>1
    <2>5. QED
      BY <2>1, <2>2, <2>3, <2>4
  <1>18. CASE Restart
    <2>1. coldSent' \in [Accounts -> Nat] /\ coldSentSum' \in Nat
      BY <1>18 DEF Restart, CountInMetrics
    <2>2. QED
      BY <1>18, <2>1 DEF Restart
  <1>19. CASE UNCHANGED vars
    BY <1>19 DEF vars
  <1>20. QED
    BY <1>1, <1>2, <1>3, <1>4, <1>5, <1>6, <1>7, <1>8, <1>9, <1>10, <1>11,
       <1>12, <1>13, <1>14, <1>15, <1>16, <1>17, <1>18, <1>19, PlanIsPlans
       DEF Next, OutreachRound, SendStep

\* Type correctness of cold outreach.
THEOREM TypeCorrect == Spec => []TypeOK
  <1>1. Init => TypeOK
    BY DEF Init, TypeOK, LeadStatus, Undelivered
  <1>2. QED
    BY <1>1, TypeStep, PTL DEF Spec

-----------------------------------------------------------------------------
(* The daily limits.                                                       *)

\* The sends in flight are finitely many, at most one per account.
LEMMA InFlightCount ==
  /\ IsFiniteSet(Accounts)
  /\ Cardinality(Accounts) \in Nat \ {0}
  /\ \A S \in SUBSET Accounts :
       /\ IsFiniteSet(S)
       /\ Cardinality(S) \in Nat
       /\ Cardinality(S) <= Cardinality(Accounts)
       /\ \A T \in SUBSET S : Cardinality(T) <= Cardinality(S)
       /\ \A a \in S : Cardinality(S \ {a}) = Cardinality(S) - 1
  <1>1. IsFiniteSet(Accounts) /\ Cardinality(Accounts) \in Nat
    BY AccountsAssumption, FS_CardinalityType
  <1>2. Cardinality(Accounts) # 0
    BY AccountsAssumption, FS_EmptySet
  <1>3. ASSUME NEW S \in SUBSET Accounts
        PROVE  /\ IsFiniteSet(S) /\ Cardinality(S) \in Nat
               /\ Cardinality(S) <= Cardinality(Accounts)
    BY <1>1, <1>3, FS_Subset, FS_CardinalityType
  <1>4. ASSUME NEW S \in SUBSET Accounts, NEW T \in SUBSET S
        PROVE  Cardinality(T) <= Cardinality(S)
    BY <1>3, <1>4, FS_Subset
  <1>5. ASSUME NEW S \in SUBSET Accounts, NEW a \in S
        PROVE  Cardinality(S \ {a}) = Cardinality(S) - 1
    BY <1>3, <1>5, FS_RemoveElement
  <1>6. QED
    BY <1>1, <1>2, <1>3, <1>4, <1>5

\* A limit check leaves the counters no further behind metrics, and when it
\* passes, the metrics were below both limits.
LEMMA CheckKeepsUp ==
  ASSUME TypeOK, LimiterKeepsUp, NEW a \in Accounts, NEW lim \in Limits,
         NEW ok \in BOOLEAN, CanSendCold(a, lim, ok), UNCHANGED metricVars
  PROVE  /\ LimiterKeepsUp'
         /\ \A b \in Accounts : Level(b) => Level(b)'
         /\ ok => /\ Level(a)'
                  /\ coldSentSum < lim.total + unregistered
                  /\ coldSent[a] < lim.acc + unregistered
                  /\ lim.acc > 0 /\ lim.total > 0
  <1> DEFINE total == TotalAfterReset(coldSentSum)
             known == AccountsAfterReset(coldSent)
  <1> USE DEF TypeOK, Limits, metricVars
  <1>1. total \in Nat /\ coldSentSum <= total + unregistered
    BY DEF TotalAfterReset, LimiterKeepsUp
  <1>2. /\ known \in [Accounts -> Nat]
        /\ \A b \in Accounts :
             known[b] = 0 \/ coldSent[b] <= known[b] + unregistered
    BY DEF AccountsAfterReset, LimiterKeepsUp
  <1>3. /\ Seeded(a) \in [Accounts -> Nat]
        /\ coldSent[a] <= Seeded(a)[a] + unregistered
        /\ \A b \in Accounts :
             Seeded(a)[b] = 0 \/ coldSent[b] <= Seeded(a)[b] + unregistered
    <2>1. CASE known[a] = 0
      BY <2>1, <1>2 DEF Seeded
    <2>2. CASE known[a] # 0
      BY <2>2, <1>2 DEF Seeded
    <2>3. QED
      BY <2>1, <2>2
  <1>4. globalSent' = total /\ (accountSent' = known \/ accountSent' = Seeded(a))
    BY DEF CanSendCold
  <1>5. LimiterKeepsUp'
    BY <1>1, <1>2, <1>3, <1>4 DEF LimiterKeepsUp
  <1>6. ASSUME ok
        PROVE  total < lim.total /\ Seeded(a)[a] < lim.acc /\ Level(a)'
    BY <1>3, <1>6 DEF CanSendCold, Level
  <1>7. ASSUME NEW b \in Accounts, Level(b) PROVE Level(b)'
    <2>1. coldSent[b] <= known[b] + unregistered
      BY <1>7 DEF AccountsAfterReset, Level
    <2>2. coldSent[b] <= Seeded(a)[b] + unregistered
      BY <2>1, <1>2, <1>3 DEF Seeded
    <2>3. QED
      BY <2>1, <2>2, <1>4 DEF Level
  <1>8. QED
    BY <1>1, <1>3, <1>5, <1>6, <1>7

\* Registering a send right after counting it keeps the counters level.
LEMMA RegisterKeepsUp ==
  ASSUME TypeOK, LimiterKeepsUp, NEW a \in Accounts,
         CountInMetrics(a), RegisterColdSent(a), UNCHANGED unregistered,
         Level(a)
  PROVE  LimiterKeepsUp' /\ \A b \in Accounts : Level(b) => Level(b)'
  <1> USE DEF TypeOK
  <1>1. /\ coldSentSum' = coldSentSum + 1
        /\ coldSent' = [coldSent EXCEPT ![a] = @ + 1]
    BY DEF CountInMetrics
  <1>2. CASE resetToday
    <2>1. /\ globalSent' = globalSent + 1
          /\ accountSent' = [accountSent EXCEPT ![a] = @ + 1]
      BY <1>2 DEF RegisterColdSent, TotalAfterReset, AccountsAfterReset
    <2>2. QED
      BY <1>1, <1>2, <2>1 DEF LimiterKeepsUp, Level
  <1>3. CASE ~resetToday
    <2>1. /\ globalSent' = coldSentSum' + 1
          /\ accountSent' = [coldSent' EXCEPT ![a] = @ + 1]
      BY <1>3 DEF RegisterColdSent, TotalAfterReset, AccountsAfterReset
    <2>2. QED
      BY <1>1, <1>3, <2>1 DEF LimiterKeepsUp, Level
  <1>4. QED
    BY <1>2, <1>3

\* Steps that touch neither counters nor metrics and put no account in flight.
LEMMA LimitFrame ==
  ASSUME TypeOK, LimitInv, UNCHANGED metricVars, LimiterKeepsUp',
         InFlight' \subseteq InFlight, \A b \in InFlight' : Level(b)'
  PROVE  LimitInv'
  <1>1. InFlight \in SUBSET Accounts
    BY DEF InFlight
  <1>2. /\ Cardinality(InFlight') <= Cardinality(InFlight)
        /\ Cardinality(InFlight) \in Nat /\ Cardinality(InFlight') \in Nat
    BY <1>1, InFlightCount
  <1>3. QED
    BY <1>1, <1>2, InFlightCount
       DEF LimitInv, TypeOK, AccountCap, metricVars

\* A send that ends gives its place in flight to the recorded total.
LEMMA LimitCounted ==
  ASSUME TypeOK, LimitInv, NEW a \in InFlight,
         CountInMetrics(a), LimiterKeepsUp',
         unregistered' \in {unregistered, unregistered + 1},
         InFlight' \subseteq InFlight \ {a}, \A b \in InFlight' : Level(b)'
  PROVE  LimitInv'
  <1> USE DEF TypeOK
  <1>1. InFlight \in SUBSET Accounts /\ a \in Accounts
    BY DEF InFlight
  <1>2. InFlight \ {a} \in SUBSET Accounts
    BY <1>1
  <1>3. /\ Cardinality(InFlight \ {a}) = Cardinality(InFlight) - 1
        /\ Cardinality(InFlight) \in Nat
    BY <1>1, InFlightCount
  <1>4. /\ Cardinality(InFlight') <= Cardinality(InFlight \ {a})
        /\ Cardinality(InFlight \ {a}) \in Nat
        /\ Cardinality(InFlight') \in Nat
    BY <1>1, <1>2, InFlightCount
  <1>5. /\ coldSentSum' = coldSentSum + 1
        /\ coldSent' = [coldSent EXCEPT ![a] = @ + 1]
    BY DEF CountInMetrics
  <1>6. coldSentSum' + Cardinality(InFlight')
          <= MaxTotal + (Cardinality(Accounts) - 1) + unregistered'
    BY <1>3, <1>4, <1>5, InFlightCount DEF LimitInv
  <1>7. AccountCap'
    BY <1>1, <1>5 DEF LimitInv, AccountCap
  <1>8. \A b \in InFlight' :
          coldSent'[b] < MaxAcc + unregistered' /\ MaxAcc > 0 /\ MaxTotal > 0
    BY <1>1, <1>2, <1>5 DEF LimitInv
  <1>9. QED
    BY <1>6, <1>7, <1>8 DEF LimitInv

\* Every action preserves the limits.
LEMMA LimitStep == TypeOK /\ LimitInv /\ [Next]_vars => LimitInv'
  <1> SUFFICES ASSUME TypeOK, LimitInv, [Next]_vars PROVE LimitInv'
    OBVIOUS
  <1>0. LimiterKeepsUp /\ InFlight \in SUBSET Accounts
    BY DEF LimitInv, InFlight
  \* Steps that leave metrics and counters alone.
  <1>1. ASSUME UNCHANGED metricVars, UNCHANGED counterVars,
               InFlight' \subseteq InFlight
        PROVE  LimitInv'
    <2>1. LimiterKeepsUp' /\ \A b \in InFlight' : Level(b)'
      BY <1>0, <1>1 DEF LimiterKeepsUp, Level, LimitInv, metricVars, counterVars
    <2>2. QED
      BY <1>1, <2>1, LimitFrame
  <1>2. ASSUME NEW a \in Accounts,
               \/ PauseDisabled(a) \/ OutreachOff(a) \/ WorkerExits(a)
               \/ AutoResume(a) \/ StatusChanges(a)
        PROVE  LimitInv'
    BY <1>1, <1>2 DEF PauseDisabled, OutreachOff, WorkerExits, AutoResume,
                      StatusChanges, InFlight, handVars
  <1>3. ASSUME NEW a \in Accounts,
               \/ NextAction(a) \/ BareWorkerDrops(a) \/ Draft(a)
               \/ DraftFails(a) \/ Deliver(a) \/ SendFails(a)
               \/ SessionInvalid(a)
        PROVE  LimitInv'
    <2>1. UNCHANGED metricVars /\ UNCHANGED counterVars
      BY <1>3 DEF NextAction, BareWorkerDrops, Draft, DraftFails, Deliver,
                  SendFails, SessionInvalid, WorkerLocal
    <2>2. InFlight' \subseteq InFlight
      BY <1>3 DEF NextAction, BareWorkerDrops, Draft, DraftFails, Deliver,
                  SendFails, SessionInvalid, Moves, InFlight, PastCheck, TypeOK
    <2>3. QED
      BY <1>1, <2>1, <2>2
  <1>4. ASSUME NEW a \in Accounts,
               PlanRefused(a) \/ Plans(a) \/ SkipOverLimit(a)
        PROVE  LimitInv'
    <2>1. UNCHANGED metricVars
      BY <1>4 DEF PlanRefused, Plans, PlanUpTo, Planning, SkipOverLimit
    <2>2. PICK lim \in Limits, ok \in BOOLEAN : CanSendCold(a, lim, ok)
      BY <1>4, ConfiguredLimitsType
         DEF PlanRefused, Plans, PlanUpTo, SkipOverLimit, TypeOK
    <2>3. LimiterKeepsUp' /\ \A b \in Accounts : Level(b) => Level(b)'
      BY <1>0, <2>1, <2>2, CheckKeepsUp
    <2>4. InFlight' \subseteq InFlight
      BY <1>4 DEF PlanRefused, Plans, PlanUpTo, Planning, SkipOverLimit, Moves,
                  InFlight, PastCheck, TypeOK, handVars
    <2>5. \A b \in InFlight' : Level(b)'
      BY <1>0, <2>3, <2>4 DEF LimitInv
    <2>6. QED
      BY <2>1, <2>3, <2>4, <2>5, LimitFrame
  <1>5. ASSUME NEW a \in Accounts, PassLimit(a) PROVE LimitInv'
    <2> USE DEF TypeOK
    <2>1. UNCHANGED metricVars /\ CanSendCold(a, limits, TRUE)
      BY <1>5 DEF PassLimit
    <2>2. /\ LimiterKeepsUp' /\ Level(a)'
          /\ \A b \in Accounts : Level(b) => Level(b)'
          /\ coldSentSum < limits.total + unregistered
          /\ coldSent[a] < limits.acc + unregistered
          /\ limits.acc > 0 /\ limits.total > 0
      BY <1>0, <2>1, CheckKeepsUp
    <2>3. limits.acc \in Nat /\ limits.total \in Nat
      BY DEF Limits
    <2>4. InFlight' = InFlight \cup {a} /\ InFlight' \in SUBSET Accounts
      BY <1>5 DEF PassLimit, Moves, InFlight, PastCheck
    <2>5. Cardinality(InFlight') <= Cardinality(Accounts)
          /\ Cardinality(InFlight') \in Nat
      BY <2>4, InFlightCount
    <2>6. coldSentSum' + Cardinality(InFlight')
            <= MaxTotal + (Cardinality(Accounts) - 1) + unregistered'
      BY <2>1, <2>2, <2>3, <2>5, InFlightCount DEF metricVars
    <2>7. \A b \in InFlight' :
            coldSent'[b] < MaxAcc + unregistered' /\ MaxAcc > 0 /\ MaxTotal > 0
      BY <2>1, <2>2, <2>3, <2>4 DEF metricVars, LimitInv
    <2>8. AccountCap'
      BY <2>1 DEF metricVars, LimitInv, AccountCap
    <2>9. \A b \in InFlight' : Level(b)'
      BY <1>0, <2>2, <2>4 DEF LimitInv
    <2>10. QED
      BY <2>2, <2>6, <2>7, <2>8, <2>9 DEF LimitInv
  <1>6. ASSUME NEW a \in Accounts, FinishSend(a) PROVE LimitInv'
    <2>1. a \in InFlight /\ InFlight' \subseteq InFlight \ {a}
      BY <1>6 DEF FinishSend, Moves, InFlight, PastCheck, TypeOK
    <2>2. CountInMetrics(a) /\ RegisterColdSent(a) /\ unregistered' = unregistered
      BY <1>6 DEF FinishSend
    <2>3. LimiterKeepsUp' /\ \A b \in Accounts : Level(b) => Level(b)'
      BY <1>0, <2>1, <2>2, RegisterKeepsUp DEF LimitInv
    <2>4. \A b \in InFlight' : Level(b)'
      BY <1>0, <2>1, <2>3 DEF LimitInv
    <2>5. QED
      BY <2>1, <2>2, <2>3, <2>4, LimitCounted
  <1>7. ASSUME NEW a \in Accounts, BookkeepingFails(a) PROVE LimitInv'
    <2>1. a \in InFlight /\ InFlight' \subseteq InFlight \ {a}
      BY <1>7 DEF BookkeepingFails, Moves, InFlight, PastCheck, TypeOK
    <2>2. CountInMetrics(a)
      BY <1>7 DEF BookkeepingFails
    <2>3. CASE RegisterColdSent(a) /\ UNCHANGED unregistered
      <3>1. LimiterKeepsUp' /\ \A b \in Accounts : Level(b) => Level(b)'
        BY <1>0, <2>1, <2>2, <2>3, RegisterKeepsUp DEF LimitInv
      <3>2. \A b \in InFlight' : Level(b)'
        BY <1>0, <2>1, <3>1 DEF LimitInv
      <3>3. QED
        BY <2>1, <2>2, <2>3, <3>1, <3>2, LimitCounted
    <2>4. CASE unregistered' = unregistered + 1 /\ UNCHANGED counterVars
      <3>1. LimiterKeepsUp'
        BY <1>0, <2>2, <2>4
           DEF LimiterKeepsUp, CountInMetrics, counterVars, TypeOK
      <3>2. \A b \in InFlight' : Level(b)'
        BY <1>0, <2>1, <2>2, <2>4
           DEF LimitInv, Level, CountInMetrics, counterVars, TypeOK
      <3>3. QED
        BY <2>1, <2>2, <2>4, <3>1, <3>2, LimitCounted
    <2>5. QED
      BY <1>7, <2>3, <2>4 DEF BookkeepingFails
  <1>8. ASSUME NEW l \in Leads, NEW status \in LeadStatus,
               AdminSetsStatus(l, status)
        PROVE  LimitInv'
    BY <1>1, <1>8 DEF AdminSetsStatus, InFlight, handVars
  <1>9. CASE PutSettings
    BY <1>1, <1>9 DEF PutSettings, InFlight, handVars
  <1>10. CASE Midnight
    <2>1. InFlight' = InFlight
      BY <1>10 DEF Midnight, InFlight, handVars
    <2>2. Cardinality(InFlight) \in Nat
          /\ Cardinality(InFlight) <= Cardinality(Accounts)
      BY <1>0, InFlightCount
    <2>3. Cardinality(InFlight) <= MaxTotal + (Cardinality(Accounts) - 1)
      <3>1. CASE InFlight = {}
        BY <3>1, FS_EmptySet, InFlightCount
      <3>2. CASE InFlight # {}
        BY <3>2, <2>2, InFlightCount DEF LimitInv
      <3>3. QED
        BY <3>1, <3>2
    <2>4. LimiterKeepsUp' /\ \A b \in InFlight' : Level(b)'
      BY <1>10 DEF Midnight, LimiterKeepsUp, Level
    <2>5. /\ coldSent' = [b \in Accounts |-> 0] /\ coldSentSum' = 0
          /\ unregistered' = 0
      BY <1>10 DEF Midnight
    <2>6. AccountCap'
      BY <2>5 DEF AccountCap
    <2>7. \A b \in InFlight' :
            coldSent'[b] < MaxAcc + unregistered' /\ MaxAcc > 0 /\ MaxTotal > 0
      BY <1>0, <2>1, <2>5 DEF LimitInv
    <2>8. coldSentSum' + Cardinality(InFlight')
            <= MaxTotal + (Cardinality(Accounts) - 1) + unregistered'
      BY <2>1, <2>2, <2>3, <2>5, InFlightCount
    <2>9. QED
      BY <2>4, <2>6, <2>7, <2>8 DEF LimitInv
  <1>11. CASE Restart
    <2>1. InFlight' = {} /\ LimiterKeepsUp'
      BY <1>11 DEF Restart, InFlight, PastCheck, LimiterKeepsUp, TypeOK,
                   CountInMetrics
    <2>2. CASE UNCHANGED <<coldSent, coldSentSum>>
      <3>1. UNCHANGED metricVars
        BY <1>11, <2>2 DEF Restart, metricVars
      <3>2. InFlight' \subseteq InFlight /\ \A b \in InFlight' : Level(b)'
        BY <2>1
      <3>3. QED
        BY <2>1, <3>1, <3>2, LimitFrame
    <2>3. CASE \E a \in Accounts : stage[a] = "sent" /\ CountInMetrics(a)
      <3>1. PICK a \in InFlight : CountInMetrics(a)
        BY <2>3 DEF InFlight, PastCheck
      <3>2. unregistered' = unregistered
        BY <1>11 DEF Restart
      <3>3. InFlight' \subseteq InFlight \ {a} /\ \A b \in InFlight' : Level(b)'
        BY <2>1
      <3>4. QED
        BY <2>1, <3>1, <3>2, <3>3, LimitCounted
    <2>4. QED
      BY <1>11, <2>2, <2>3 DEF Restart
  <1>12. CASE UNCHANGED vars
    BY <1>1, <1>12 DEF vars, InFlight, handVars
  <1>13. QED
    BY <1>2, <1>3, <1>4, <1>5, <1>6, <1>7, <1>8, <1>9, <1>10, <1>11, <1>12, PlanIsPlans
       DEF Next, OutreachRound, SendStep

\* The invariant behind the daily limits holds in every reachable state.
THEOREM LimitInvariant == Spec => []LimitInv
  <1>1. Init => LimitInv
    <2> SUFFICES ASSUME Init PROVE LimitInv
      OBVIOUS
    <2>1. InFlight = {}
      BY DEF Init, InFlight, PastCheck
    <2>2. QED
      BY <2>1, FS_EmptySet, InFlightCount
         DEF Init, LimitInv, LimiterKeepsUp, AccountCap
  <1>2. QED
    BY <1>1, LimitStep, TypeCorrect, PTL DEF Spec

\* No account is recorded with more sends than its daily limit, across
\* restarts, midnights and concurrent sends of other accounts.
THEOREM AccountCapHolds == Spec => []AccountCap
  <1>1. LimitInv => AccountCap
    BY DEF LimitInv
  <1>2. QED
    BY <1>1, LimitInvariant, PTL

\* The recorded sends of all accounts pass the global limit by less than one
\* send per account.
THEOREM GlobalCapSlackHolds == Spec => []GlobalCapSlack
  <1>1. TypeOK /\ LimitInv => GlobalCapSlack
    <2> SUFFICES ASSUME TypeOK, LimitInv PROVE GlobalCapSlack
      OBVIOUS
    <2>1. Cardinality(InFlight) \in Nat
      BY InFlightCount DEF InFlight
    <2>2. QED
      BY <2>1, InFlightCount DEF LimitInv, GlobalCapSlack, TypeOK
  <1>2. QED
    BY <1>1, LimitInvariant, TypeCorrect, PTL

\* With one account, and no bookkeeping fault, the global limit is exact: no
\* restart, midnight or change of settings lets a day's total pass it.
THEOREM OneAccountKeepsTotal ==
  ASSUME Cardinality(Accounts) = 1, MaxFaults = 0
  PROVE  Spec => [](coldSentSum <= MaxTotal)
  <1>1. ASSUME TypeOK, GlobalCapSlack PROVE coldSentSum <= MaxTotal
    <2>1. unregistered \in Nat /\ unregistered <= 0 /\ coldSentSum \in Nat
      BY <1>1 DEF TypeOK
    <2>2. coldSentSum <= MaxTotal + (1 - 1) + unregistered
      BY <1>1 DEF GlobalCapSlack
    <2>3. QED
      BY <2>1, <2>2
  <1>2. QED
    BY <1>1, TypeCorrect, GlobalCapSlackHolds, PTL

\* The in-memory counters never lag behind metrics on the day they are for.
THEOREM LimiterKeepsUpHolds == Spec => []LimiterKeepsUp
  <1>1. LimitInv => LimiterKeepsUp
    BY DEF LimitInv
  <1>2. QED
    BY <1>1, LimitInvariant, PTL

\* A check leaves the counters at most one ahead, and so does a registration.
LEMMA CheckKeepsAhead ==
  ASSUME TypeOK, LimiterAheadByOne, NEW a \in Accounts, NEW lim \in Limits,
         NEW ok \in BOOLEAN, CanSendCold(a, lim, ok), UNCHANGED metricVars
  PROVE  LimiterAheadByOne'
  <1> USE DEF TypeOK, metricVars
  <1>1. \A b \in Accounts : AccountsAfterReset(coldSent)[b] <= coldSent[b] + 1
    BY DEF AccountsAfterReset, LimiterAheadByOne
  <1>2. \A b \in Accounts : Seeded(a)[b] <= coldSent[b] + 1
    BY <1>1 DEF Seeded, AccountsAfterReset
  <1>3. TotalAfterReset(coldSentSum) <= coldSentSum + 1
    BY DEF TotalAfterReset, LimiterAheadByOne
  <1>4. /\ globalSent' = TotalAfterReset(coldSentSum)
        /\ accountSent' = AccountsAfterReset(coldSent) \/ accountSent' = Seeded(a)
    BY DEF CanSendCold
  <1> QED BY <1>1, <1>2, <1>3, <1>4 DEF LimiterAheadByOne

LEMMA RegisterKeepsAhead ==
  ASSUME TypeOK, LimiterAheadByOne, NEW a \in Accounts, CountInMetrics(a),
         RegisterColdSent(a) \/ UNCHANGED counterVars
  PROVE  LimiterAheadByOne'
  <1> USE DEF TypeOK
  <1>1. coldSentSum' = coldSentSum + 1 /\ coldSent' = [coldSent EXCEPT ![a] = @ + 1]
    BY DEF CountInMetrics
  <1>2. CASE UNCHANGED counterVars
    BY <1>1, <1>2 DEF LimiterAheadByOne, counterVars
  <1>3. CASE RegisterColdSent(a) /\ resetToday
    <2>1. /\ globalSent' = globalSent + 1
          /\ accountSent' = [accountSent EXCEPT ![a] = @ + 1]
      BY <1>3 DEF RegisterColdSent, TotalAfterReset, AccountsAfterReset
    <2> QED BY <1>1, <1>3, <2>1 DEF LimiterAheadByOne
  <1>4. CASE RegisterColdSent(a) /\ ~ resetToday
    <2>1. /\ globalSent' = coldSentSum' + 1
          /\ accountSent' = [coldSent' EXCEPT ![a] = @ + 1]
      BY <1>4 DEF RegisterColdSent, TotalAfterReset, AccountsAfterReset
    <2> QED BY <1>1, <2>1 DEF LimiterAheadByOne
  <1> QED BY <1>2, <1>3, <1>4

\* Nor do the counters run ahead of metrics, by more than the one send that
\* midnight can make them count twice.
THEOREM LimiterAheadByOneHolds == Spec => []LimiterAheadByOne
  <1>1. ASSUME Init PROVE LimiterAheadByOne
    BY <1>1 DEF Init, LimiterAheadByOne
  <1>2. ASSUME TypeOK, LimiterAheadByOne, [Next]_vars
        PROVE  LimiterAheadByOne'
    <2>1. CASE UNCHANGED <<coldSent, coldSentSum>> /\ UNCHANGED counterVars
      BY <1>2, <2>1 DEF LimiterAheadByOne, counterVars
    <2>2. ASSUME NEW a \in Accounts,
                 PlanRefused(a) \/ Plans(a) \/ PassLimit(a) \/ SkipOverLimit(a)
          PROVE  LimiterAheadByOne'
      <3>1. limits \in Limits /\ ConfiguredLimits \in Limits
        BY <1>2, ConfiguredLimitsType DEF TypeOK
      <3>2. UNCHANGED metricVars
        BY <2>2 DEF PlanRefused, Plans, PlanUpTo, Planning, PassLimit, SkipOverLimit
      <3>3. \E lim \in Limits, ok \in BOOLEAN : CanSendCold(a, lim, ok)
        BY <2>2, <3>1 DEF PlanRefused, Plans, PlanUpTo, PassLimit, SkipOverLimit
      <3> QED BY <1>2, <3>2, <3>3, CheckKeepsAhead
    <2>3. ASSUME NEW a \in Accounts, FinishSend(a) \/ BookkeepingFails(a)
          PROVE  LimiterAheadByOne'
      <3>1. CountInMetrics(a) /\ (RegisterColdSent(a) \/ UNCHANGED counterVars)
        BY <2>3 DEF FinishSend, BookkeepingFails
      <3> QED BY <1>2, <3>1, RegisterKeepsAhead
    <2>4. CASE Midnight
      BY <1>2, <2>4 DEF Midnight, LimiterAheadByOne, TypeOK
    <2>5. CASE Restart
      <3>1. /\ globalSent' = coldSentSum' /\ accountSent' = [b \in Accounts |-> 0]
            /\ \A b \in Accounts : coldSent'[b] \in Nat
            /\ coldSentSum' \in Nat
        BY <1>2, <2>5 DEF Restart, CountInMetrics, TypeOK
      <3>2. \A n \in Nat : n <= n + 1 /\ 0 <= n + 1
        OBVIOUS
      <3>3. globalSent' <= coldSentSum' + 1
        BY <3>1, <3>2
      <3>4. \A b \in Accounts : accountSent'[b] <= coldSent'[b] + 1
        BY <3>1, <3>2
      <3> QED BY <3>3, <3>4 DEF LimiterAheadByOne
    <2>6. CASE \E a \in Accounts :
                 \/ PauseDisabled(a) \/ OutreachOff(a) \/ NextAction(a) \/ BareWorkerDrops(a)
                 \/ Draft(a) \/ DraftFails(a) \/ Deliver(a) \/ SendFails(a)
                 \/ SessionInvalid(a) \/ WorkerExits(a) \/ AutoResume(a) \/ StatusChanges(a)
      BY <2>1, <2>6 DEF PauseDisabled, OutreachOff, NextAction, BareWorkerDrops, Draft,
           DraftFails, Deliver, SendFails, SessionInvalid, WorkerExits, AutoResume,
           StatusChanges, WorkerLocal, metricVars
    <2>7. CASE PutSettings \/ \E l \in Leads, status \in LeadStatus : AdminSetsStatus(l, status)
      BY <2>1, <2>7 DEF PutSettings, AdminSetsStatus, metricVars
    <2>8. CASE UNCHANGED vars
      BY <2>1, <2>8 DEF vars, metricVars
    <2> QED BY <1>2, <2>2, <2>3, <2>4, <2>5, <2>6, <2>7, <2>8, PlanIsPlans
            DEF Next, OutreachRound, SendStep
  <1> QED BY <1>1, <1>2, TypeCorrect, PTL DEF Spec

-----------------------------------------------------------------------------
(* Reservations.                                                           *)

\* A place of account a that carries ticket t.
Holds(a, t) == Queued(a, t) \/ InHand(a, t)

\* Two tickets with the same fields are the same.
LEMMA TicketFields ==
  ASSUME NEW t \in Tickets, NEW u \in Tickets, t.lead = u.lead, t.adm = u.adm
  PROVE  t = u
  BY DEF Tickets

\* The ticket of a lead names the lead and its present admission.
LEMMA TicketOf ==
  ASSUME TypeOK, NEW l \in Leads
  PROVE  /\ Ticket(l) \in Tickets
         /\ Ticket(l).lead = l /\ Ticket(l).adm = admissions[l]
  BY DEF Ticket, Tickets, TypeOK

\* Steps that neither admit nor answer a lead, and put no ticket anywhere.
LEMMA TicketFrame ==
  ASSUME TypeOK, TypeOK', TicketInv,
         UNCHANGED <<admissions, answered, dms>>, NewLeads' \subseteq NewLeads,
         \A a \in Accounts, t \in Tickets :
           /\ Queued(a, t)' => Queued(a, t)
           /\ InHand(a, t)' => InHand(a, t)
           /\ Open(a, t)' => Open(a, t),
         \A a \in Accounts : \A i, j \in 1 .. Len(queue'[a]) :
           queue'[a][i] = queue'[a][j] => i = j
  PROVE  TicketInv'
  <1>1. \A l \in Leads : Ticket(l)' = Ticket(l) /\ Ticket(l) \in Tickets
    BY TicketOf DEF Ticket
  <1>2. NewLeads \subseteq Leads
    BY DEF NewLeads
  <1>3. NewLeadIsFree'
    <2> SUFFICES ASSUME NEW l \in NewLeads'
                 PROVE  /\ admissions'[l] \notin answered'[l]
                        /\ \A a \in Accounts :
                             ~Queued(a, Ticket(l))' /\ ~InHand(a, Ticket(l))'
      BY DEF NewLeadIsFree
    <2>1. l \in NewLeads /\ l \in Leads
      BY <1>2
    <2>2. /\ admissions[l] \notin answered[l]
          /\ \A a \in Accounts : ~Queued(a, Ticket(l)) /\ ~InHand(a, Ticket(l))
      BY <2>1 DEF TicketInv, NewLeadIsFree
    <2>3. ASSUME NEW a \in Accounts
          PROVE  ~Queued(a, Ticket(l))' /\ ~InHand(a, Ticket(l))'
      <3>1. /\ (Queued(a, Ticket(l)))' => Queued(a, Ticket(l))
            /\ (InHand(a, Ticket(l)))' => InHand(a, Ticket(l))
        BY <1>1, <2>1 DEF Queued, InHand
      <3>2. QED
        BY <3>1, <2>2
    <2>4. QED
      BY <2>2, <2>3
  <1>4. QED
    BY <1>3 DEF TicketInv

\* Popping the oldest action moves its ticket from the queue to the hand.
LEMMA TicketPop ==
  ASSUME TypeOK, TypeOK', TicketInv, NEW a \in Accounts, NextAction(a)
  PROVE  TicketInv'
  <1>0. PICK h : h = Head(queue[a])
    OBVIOUS
  <1>1. /\ queue[a] \in Seq(Tickets) /\ queue[a] # <<>> /\ stage[a] = "idle"
        /\ queue' = [queue EXCEPT ![a] = Tail(@)]
        /\ hand' = [hand EXCEPT ![a] = h]
        /\ stage' = [stage EXCEPT ![a] = "held"]
        /\ UNCHANGED <<leadStatus, admissions, answered, dms>>
    BY <1>0 DEF NextAction, TypeOK, leadVars
  <1>2. /\ h = queue[a][1] /\ Len(queue[a]) \in Nat /\ Len(queue[a]) > 0
        /\ Len(Tail(queue[a])) = Len(queue[a]) - 1
        /\ \A i \in 1 .. Len(Tail(queue[a])) :
             Tail(queue[a])[i] = queue[a][i + 1]
    BY <1>0, <1>1
  <1>3. /\ queue'[a] = Tail(queue[a])
        /\ \A b \in Accounts \ {a} : queue'[b] = queue[b]
        /\ hand'[a] = h /\ stage'[a] = "held"
        /\ \A b \in Accounts \ {a} : hand'[b] = hand[b] /\ stage'[b] = stage[b]
    BY <1>1 DEF TypeOK
  <1>4. Queued(a, h)
    BY <1>2 DEF Queued
  <1>5. ASSUME NEW b \in Accounts, NEW t, Queued(b, t)' PROVE Queued(b, t)
    <2>1. CASE b = a
      <3>1. PICK i \in 1 .. Len(Tail(queue[a])) : Tail(queue[a])[i] = t
        BY <1>3, <1>5, <2>1 DEF Queued
      <3>2. i + 1 \in 1 .. Len(queue[a]) /\ queue[a][i + 1] = t
        BY <1>2, <3>1
      <3>3. QED
        BY <2>1, <3>2 DEF Queued
    <2>2. CASE b # a
      BY <1>3, <1>5, <2>2 DEF Queued
    <2>3. QED
      BY <2>1, <2>2
  <1>6. ~Queued(a, h)'
    <2> SUFFICES ASSUME Queued(a, h)' PROVE FALSE
      OBVIOUS
    <2>1. PICK i \in 1 .. Len(Tail(queue[a])) : Tail(queue[a])[i] = h
      BY <1>3 DEF Queued
    <2>2. /\ i + 1 \in 1 .. Len(queue[a]) /\ 1 \in 1 .. Len(queue[a])
          /\ queue[a][i + 1] = queue[a][1] /\ i + 1 # 1
      BY <1>2, <2>1
    <2>3. QED
      BY <2>2 DEF TicketInv
  <1>7. ASSUME NEW b \in Accounts, NEW t, InHand(b, t)'
        PROVE  (b = a /\ t = h) \/ (b # a /\ InHand(b, t))
    BY <1>3, <1>7 DEF InHand
  <1>8. \A b \in Accounts, t \in Tickets : Open(b, t)' => Open(b, t)
    BY <1>3, <1>4, <1>5 DEF Open, Undelivered
  <1>9. \A b \in Accounts, t \in Tickets : Holds(b, t)' => Holds(b, t)
    BY <1>4, <1>5, <1>7 DEF Holds
  <1>10. \A l \in Leads : Ticket(l)' = Ticket(l) /\ Ticket(l) \in Tickets
    BY <1>1, TicketOf DEF Ticket
  <1>11. NewLeadIsFree'
    <2> SUFFICES ASSUME NEW l \in Leads, leadStatus[l] = "new"
                 PROVE  /\ admissions[l] \notin answered[l]
                        /\ \A b \in Accounts : ~Holds(b, Ticket(l))'
      BY <1>1, <1>10 DEF NewLeadIsFree, NewLeads, Holds
    <2>1. /\ admissions[l] \notin answered[l]
          /\ \A b \in Accounts : ~Holds(b, Ticket(l))
      BY DEF TicketInv, NewLeadIsFree, NewLeads, Holds
    <2>2. ASSUME NEW b \in Accounts PROVE ~Holds(b, Ticket(l))'
      <3>1. (Holds(b, Ticket(l)))' => Holds(b, Ticket(l))
        BY <1>9, <1>10 DEF Holds, Queued, InHand
      <3>2. QED
        BY <2>1, <3>1
    <2>3. QED
      BY <2>1, <2>2
  <1>12. ASSUME NEW b \in Accounts, NEW t \in Tickets
         PROVE  /\ Holds(b, t)' => t.adm \in 1 .. admissions[t.lead]
                /\ Open(b, t)' => t.adm \notin answered[t.lead]
                /\ ~(Queued(b, t)' /\ InHand(b, t)')
                /\ \A c \in Accounts \ {b} : Holds(b, t)' => ~Holds(c, t)'
    <2>1. Holds(b, t)' => t.adm \in 1 .. admissions[t.lead]
      BY <1>9 DEF TicketInv, Holds
    <2>2. Open(b, t)' => t.adm \notin answered[t.lead]
      BY <1>8 DEF TicketInv
    <2>3. ~(Queued(b, t)' /\ InHand(b, t)')
      BY <1>5, <1>6, <1>7 DEF TicketInv
    <2>4. \A c \in Accounts \ {b} : Holds(b, t)' => ~Holds(c, t)'
      BY <1>9 DEF TicketInv, Holds
    <2>5. QED
      BY <2>1, <2>2, <2>3, <2>4
  <1>13. ASSUME NEW b \in Accounts, NEW i \in 1 .. Len(queue'[b]),
                NEW j \in 1 .. Len(queue'[b]), queue'[b][i] = queue'[b][j]
         PROVE  i = j
    <2>1. CASE b = a
      <3>0. /\ i \in 1 .. Len(Tail(queue[a])) /\ j \in 1 .. Len(Tail(queue[a]))
            /\ Tail(queue[a])[i] = Tail(queue[a])[j]
        BY <1>3, <1>13, <2>1
      <3>1. /\ i + 1 \in 1 .. Len(queue[a]) /\ j + 1 \in 1 .. Len(queue[a])
            /\ queue[a][i + 1] = queue[a][j + 1]
        BY <1>2, <3>0
      <3>2. i + 1 = j + 1
        BY <3>1 DEF TicketInv
      <3>3. i \in Nat /\ j \in Nat
        BY <1>2, <1>3, <2>1
      <3>4. QED
        BY <3>2, <3>3
    <2>2. CASE b # a
      BY <1>3, <1>13, <2>2 DEF TicketInv
    <2>3. QED
      BY <2>1, <2>2
  <1>14. QED
    BY <1>1, <1>11, <1>12, <1>13 DEF TicketInv, Holds

\* A planning round queues the tickets of leads that were free.
LEMMA TicketPlan ==
  ASSUME TypeOK, TypeOK', TicketInv, NEW a \in Accounts, Plans(a)
  PROVE  TicketInv'
  <1>0. PICK most \in Nat : PlanUpTo(a, most)
    BY DEF Plans
  <1>1. PICK batch \in Reservations(most) :
          /\ Reserve(batch)
          /\ queue' = [queue EXCEPT ![a] =
               @ \o [i \in DOMAIN batch |-> Ticket(batch[i])]]
    BY <1>0 DEF PlanUpTo
  <1>2. PICK n \in Nat : batch \in [1 .. n -> NewLeads]
    BY ReservationsType
  <1>3. \A i, j \in 1 .. n : batch[i] = batch[j] => i = j
    BY <1>2 DEF Reservations, Injection, IsInjective
  <1>4. UNCHANGED <<admissions, answered, dms, hand, stage>>
    BY DEF Plans, PlanUpTo, Planning, handVars
  <1>5. NewLeads \subseteq Leads /\ \A i \in 1 .. n : batch[i] \in NewLeads
    BY <1>2 DEF NewLeads
  <1>6. PICK new \in Seq(Tickets) :
          /\ Len(new) = n /\ \A i \in 1 .. n : new[i] = Ticket(batch[i])
          /\ queue' = [queue EXCEPT ![a] = @ \o new]
    <2> DEFINE new == [i \in DOMAIN batch |-> Ticket(batch[i])]
    <2>1. new \in Seq(Tickets) /\ DOMAIN batch = 1 .. n
      BY <1>2, ReservationsType
    <2>2. Len(new) = n /\ \A i \in 1 .. n : new[i] = Ticket(batch[i])
      BY <1>2, <2>1
    <2>3. QED
      BY <1>1, <2>1, <2>2
  <1>7. PICK old \in Seq(Tickets) : old = queue[a]
    BY DEF TypeOK
  <1>8. /\ Len(old) \in Nat /\ queue'[a] = old \o new
        /\ Len(queue'[a]) = Len(old) + n
        /\ \A i \in 1 .. Len(old) : queue'[a][i] = old[i]
        /\ \A i \in (Len(old) + 1) .. (Len(old) + n) :
             /\ i - Len(old) \in 1 .. n
             /\ queue'[a][i] = Ticket(batch[i - Len(old)])
    <2>1. queue'[a] = old \o new
      BY <1>6, <1>7 DEF TypeOK
    <2>2. Len(old) \in Nat /\ Len(old \o new) = Len(old) + n
      BY <1>6
    <2>3. \A i \in 1 .. Len(old) : (old \o new)[i] = old[i]
      BY <1>6, <2>2
    <2>4. ASSUME NEW i \in (Len(old) + 1) .. (Len(old) + n)
          PROVE  /\ i - Len(old) \in 1 .. n
                 /\ (old \o new)[i] = Ticket(batch[i - Len(old)])
      <3>1. i - Len(old) \in 1 .. n
        BY <2>2
      <3>2. (old \o new)[i] = new[i - Len(old)]
        BY <1>6, <2>2
      <3>3. QED
        BY <1>6, <3>1, <3>2
    <2>5. QED
      BY <2>1, <2>2, <2>3, <2>4
  <1>9. \A b \in Accounts \ {a} : queue'[b] = queue[b]
    BY <1>6 DEF TypeOK
  \* A ticket in a queue was there before, or is one of the new ones.
  <1>10. ASSUME NEW b \in Accounts, NEW t, Queued(b, t)'
         PROVE  \/ Queued(b, t)
                \/ b = a /\ \E l \in NewLeads : l \in Range(batch) /\ t = Ticket(l)
    <2>1. CASE b # a
      BY <1>9, <1>10, <2>1 DEF Queued
    <2>2. CASE b = a
      <3>1. PICK i \in 1 .. Len(queue'[a]) : queue'[a][i] = t
        BY <1>10, <2>2 DEF Queued
      <3>2. CASE i \in 1 .. Len(old)
        BY <1>7, <1>8, <2>2, <3>1, <3>2 DEF Queued
      <3>3. CASE i \in (Len(old) + 1) .. (Len(old) + n)
        <4>1. /\ i - Len(old) \in 1 .. n
              /\ t = Ticket(batch[i - Len(old)])
          BY <1>8, <3>1, <3>3
        <4>2. /\ batch[i - Len(old)] \in NewLeads
              /\ batch[i - Len(old)] \in Range(batch)
          BY <1>2, <1>5, <4>1 DEF Range
        <4>3. QED
          BY <2>2, <4>1, <4>2
      <3>4. QED
        BY <1>8, <3>1, <3>2, <3>3
    <2>3. QED
      BY <2>1, <2>2
  <1>11. \A b \in Accounts, t \in Tickets :
           /\ InHand(b, t)' = InHand(b, t)
           /\ Open(b, t)' => Open(b, t) \/ Queued(b, t)'
    BY <1>4 DEF InHand, Open
  \* What was known of the tickets of new leads.
  <1>12. ASSUME NEW l \in NewLeads
         PROVE  /\ Ticket(l)' = Ticket(l) /\ Ticket(l) \in Tickets
                /\ Ticket(l).lead = l /\ Ticket(l).adm = admissions[l]
                /\ admissions[l] \in 1 .. admissions[l]
                /\ admissions[l] \notin answered[l]
                /\ \A b \in Accounts : ~Queued(b, Ticket(l)) /\ ~InHand(b, Ticket(l))
    <2>1. /\ Ticket(l)' = Ticket(l) /\ Ticket(l) \in Tickets
          /\ Ticket(l).lead = l /\ Ticket(l).adm = admissions[l]
      BY <1>4, <1>5, <1>12, TicketOf DEF Ticket
    <2>2. admissions[l] \in 1 .. admissions[l]
      BY <1>5, <1>12 DEF TicketInv, TypeOK
    <2>3. QED
      BY <1>12, <2>1, <2>2 DEF TicketInv, NewLeadIsFree
  <1>13. NewLeads' \subseteq NewLeads /\ \A l \in NewLeads' : l \notin Range(batch)
    BY <1>1 DEF NewLeads, Reserve
  <1>14. NewLeadIsFree'
    <2> SUFFICES ASSUME NEW l \in NewLeads'
                 PROVE  /\ admissions'[l] \notin answered'[l]
                        /\ \A b \in Accounts :
                             ~Queued(b, Ticket(l))' /\ ~InHand(b, Ticket(l))'
      BY DEF NewLeadIsFree
    <2>1. l \in NewLeads /\ l \notin Range(batch)
      BY <1>13
    <2>2. PICK t \in Tickets : t = Ticket(l) /\ t = Ticket(l)'
      BY <1>12, <2>1
    <2>3. ASSUME NEW b \in Accounts PROVE ~Queued(b, t)' /\ ~InHand(b, t)'
      <3>1. ~InHand(b, t)'
        BY <1>11, <1>12, <2>1, <2>2
      <3>2. ~Queued(b, t)
        BY <1>12, <2>1, <2>2
      <3>3. \A k \in NewLeads : k \in Range(batch) => t # Ticket(k)
        BY <1>12, <2>1, <2>2
      <3>4. QED
        BY <1>10, <3>1, <3>2, <3>3
    <2>4. \A b \in Accounts : ~Queued(b, Ticket(l))' /\ ~InHand(b, Ticket(l))'
      BY <2>2, <2>3 DEF Queued, InHand
    <2>5. admissions'[l] \notin answered'[l]
      BY <1>4, <1>12, <2>1
    <2>6. QED
      BY <2>4, <2>5
  <1>15. ASSUME NEW b \in Accounts, NEW t \in Tickets
         PROVE  /\ Holds(b, t)' => t.adm \in 1 .. admissions[t.lead]
                /\ Open(b, t)' => t.adm \notin answered[t.lead]
                /\ ~(Queued(b, t)' /\ InHand(b, t)')
                /\ \A c \in Accounts \ {b} : Holds(b, t)' => ~Holds(c, t)'
    <2>1. CASE \E l \in NewLeads : t = Ticket(l)
      <3>1. PICK l \in NewLeads : t = Ticket(l)
        BY <2>1
      <3>2. t.adm \in 1 .. admissions[t.lead] /\ t.adm \notin answered[t.lead]
        BY <1>12, <3>1
      <3>3. \A c \in Accounts : ~Queued(c, t) /\ ~InHand(c, t)
        BY <1>12, <3>1
      <3>4. \A c \in Accounts : ~InHand(c, t)' /\ (Queued(c, t)' => c = a)
        BY <1>10, <1>11, <3>3
      <3>5. QED
        BY <3>2, <3>4 DEF Holds
    <2>2. CASE \A l \in NewLeads : t # Ticket(l)
      <3>1. \A c \in Accounts :
              /\ Queued(c, t)' => Queued(c, t)
              /\ InHand(c, t)' => InHand(c, t)
        BY <1>10, <1>11, <2>2
      <3>2. Open(b, t)' => Open(b, t)
        BY <1>11, <3>1 DEF Open
      <3>3. QED
        BY <3>1, <3>2 DEF TicketInv, Holds
    <2>3. QED
      BY <2>1, <2>2
  <1>16. ASSUME NEW b \in Accounts, NEW i \in 1 .. Len(queue'[b]),
                NEW j \in 1 .. Len(queue'[b]), queue'[b][i] = queue'[b][j]
         PROVE  i = j
    <2>1. CASE b # a
      BY <1>9, <1>16, <2>1 DEF TicketInv
    <2>2. CASE b = a
      <3>1. i \in 1 .. (Len(old) + n) /\ j \in 1 .. (Len(old) + n)
            /\ queue'[a][i] = queue'[a][j]
        BY <1>8, <1>16, <2>2
      <3>2. ASSUME NEW k \in 1 .. Len(old), NEW m \in (Len(old) + 1) .. (Len(old) + n)
            PROVE  queue'[a][k] # queue'[a][m]
        <4>1. queue'[a][k] = queue[a][k] /\ Queued(a, queue[a][k])
          BY <1>7, <1>8 DEF Queued
        <4>2. PICK l \in NewLeads : queue'[a][m] = Ticket(l)
          BY <1>5, <1>8
        <4>3. QED
          BY <1>12, <4>1, <4>2
      <3>3. CASE i \in 1 .. Len(old) /\ j \in 1 .. Len(old)
        BY <1>7, <1>8, <3>1, <3>3 DEF TicketInv
      <3>4. CASE /\ i \in (Len(old) + 1) .. (Len(old) + n)
                 /\ j \in (Len(old) + 1) .. (Len(old) + n)
        <4>1. PICK x \in 1 .. n : x = i - Len(old)
          BY <1>8, <3>4
        <4>2. PICK y \in 1 .. n : y = j - Len(old)
          BY <1>8, <3>4
        <4>3. Ticket(batch[x]) = Ticket(batch[y])
          BY <1>8, <3>1, <3>4, <4>1, <4>2
        <4>4. batch[x] = batch[y]
          BY <1>5, <1>12, <4>3
        <4>5. x = y
          BY <1>3, <4>4
        <4>6. QED
          BY <1>8, <3>4, <4>1, <4>2, <4>5
      <3>5. QED
        BY <1>8, <3>1, <3>2, <3>3, <3>4
    <2>3. QED
      BY <2>1, <2>2
  <1>17. ASSUME NEW l \in Leads
         PROVE  /\ admissions'[l] >= 1
                /\ answered'[l] \subseteq 1 .. admissions'[l]
                /\ dms'[l] = Cardinality(answered'[l])
    BY <1>4 DEF TicketInv
  <1>18. QED
    BY <1>4, <1>14, <1>15, <1>16, <1>17 DEF TicketInv, Holds

\* A delivery answers an admission that no message had answered before.
LEMMA TicketDeliver ==
  ASSUME TypeOK, TypeOK', TicketInv, NEW a \in Accounts, Deliver(a)
  PROVE  TicketInv'
  <1>1. PICK h \in Tickets : h = hand[a]
    BY DEF Deliver, Moves, TypeOK
  <1>2. /\ stage[a] = "sending" /\ stage' = [stage EXCEPT ![a] = "sent"]
        /\ hand' = hand /\ UNCHANGED <<queue, leadStatus, admissions>>
        /\ dms' = [dms EXCEPT ![h.lead] = @ + 1]
        /\ answered' = [answered EXCEPT ![h.lead] = @ \cup {h.adm}]
    BY <1>1 DEF Deliver, Moves, WorkerLocal
  <1>3. h.lead \in Leads /\ h.adm \in Nat
    BY DEF Tickets
  <1>4. /\ h.adm \in 1 .. admissions[h.lead] /\ h.adm \notin answered[h.lead]
        /\ ~Queued(a, h)
        /\ \A b \in Accounts \ {a} : ~Holds(b, h)
    <2>1. InHand(a, h) /\ Open(a, h)
      BY <1>1, <1>2 DEF InHand, Open, Undelivered
    <2>2. QED
      BY <2>1 DEF TicketInv, Holds
  <1>5. \A b \in Accounts : \A t :
          /\ Queued(b, t)' = Queued(b, t)
          /\ InHand(b, t)' = InHand(b, t)
    BY <1>2 DEF Queued, InHand, TypeOK
  <1>6. /\ answered'[h.lead] = answered[h.lead] \cup {h.adm}
        /\ dms'[h.lead] = dms[h.lead] + 1
        /\ \A l \in Leads \ {h.lead} :
             answered'[l] = answered[l] /\ dms'[l] = dms[l]
    BY <1>2, <1>3 DEF TypeOK
  <1>7. ASSUME NEW l \in Leads
        PROVE  /\ admissions'[l] >= 1
               /\ answered'[l] \subseteq 1 .. admissions'[l]
               /\ dms'[l] = Cardinality(answered'[l])
    <2>1. CASE l = h.lead
      <3>1. IsFiniteSet(answered[l])
        <4>1. /\ answered[l] \subseteq 1 .. admissions[l]
              /\ 1 \in Int /\ admissions[l] \in Int
          BY DEF TicketInv, TypeOK
        <4>2. QED
          BY <4>1, FS_Interval, FS_Subset
      <3>2. Cardinality(answered[l] \cup {h.adm}) = Cardinality(answered[l]) + 1
        BY <1>4, <2>1, <3>1, FS_AddElement
      <3>3. /\ admissions[l] >= 1 /\ answered[l] \subseteq 1 .. admissions[l]
            /\ dms[l] = Cardinality(answered[l])
        BY DEF TicketInv
      <3>4. /\ admissions'[l] = admissions[l]
            /\ answered'[l] = answered[l] \cup {h.adm} /\ dms'[l] = dms[l] + 1
            /\ h.adm \in 1 .. admissions[l]
        BY <1>2, <1>4, <1>6, <2>1
      <3>5. QED
        BY <3>2, <3>3, <3>4
    <2>2. CASE l # h.lead
      BY <1>2, <1>6, <2>2 DEF TicketInv
    <2>3. QED
      BY <2>1, <2>2
  <1>8. NewLeadIsFree'
    <2> SUFFICES ASSUME NEW l \in NewLeads'
                 PROVE  /\ admissions'[l] \notin answered'[l]
                        /\ \A b \in Accounts :
                             ~Queued(b, Ticket(l))' /\ ~InHand(b, Ticket(l))'
      BY DEF NewLeadIsFree
    <2>1. l \in NewLeads /\ l \in Leads
      BY <1>2 DEF NewLeads
    <2>2. PICK t \in Tickets : /\ t = Ticket(l) /\ t = Ticket(l)'
                               /\ t.lead = l /\ t.adm = admissions[l]
      BY <1>2, <2>1, TicketOf DEF Ticket
    <2>3. /\ admissions[l] \notin answered[l]
          /\ \A b \in Accounts : ~Queued(b, t) /\ ~InHand(b, t)
      BY <2>1, <2>2 DEF TicketInv, NewLeadIsFree
    <2>4. t # h
      BY <1>1, <1>2, <2>3 DEF InHand
    <2>5. ~(l = h.lead /\ admissions[l] = h.adm)
      BY <2>2, <2>4, TicketFields
    <2>6. admissions'[l] \notin answered'[l]
      BY <1>2, <1>6, <2>1, <2>3, <2>5
    <2>7. \A b \in Accounts : ~Queued(b, t)' /\ ~InHand(b, t)'
      BY <1>5, <2>3
    <2>8. \A b \in Accounts : ~Queued(b, Ticket(l))' /\ ~InHand(b, Ticket(l))'
      BY <2>2, <2>7 DEF Queued, InHand
    <2>9. QED
      BY <2>6, <2>8
  <1>9. ASSUME NEW b \in Accounts, NEW t \in Tickets, Open(b, t)'
        PROVE  t.adm \notin answered'[t.lead]
    <2>1. Open(b, t) /\ t # h
      <3>1. CASE b = a
        <4>1. Queued(a, t)
          BY <1>2, <1>5, <1>9, <3>1 DEF Open, Undelivered, TypeOK
        <4>2. QED
          BY <1>4, <3>1, <4>1 DEF Open
      <3>2. CASE b # a
        <4>1. Open(b, t)
          BY <1>2, <1>5, <1>9, <3>2 DEF Open, TypeOK
        <4>2. Holds(b, t)
          BY <4>1 DEF Open, Holds, InHand, Undelivered
        <4>3. QED
          BY <1>4, <3>2, <4>1, <4>2
      <3>3. QED
        BY <3>1, <3>2
    <2>2. t.adm \notin answered[t.lead] /\ t.lead \in Leads
      BY <2>1 DEF TicketInv, Tickets
    <2>3. ~(t.lead = h.lead /\ t.adm = h.adm)
      BY <2>1, TicketFields
    <2>4. QED
      BY <1>6, <2>2, <2>3
  <1>10. ASSUME NEW b \in Accounts, NEW t \in Tickets
         PROVE  /\ Queued(b, t)' \/ InHand(b, t)'
                     => t.adm \in 1 .. admissions'[t.lead]
                /\ ~(Queued(b, t)' /\ InHand(b, t)')
                /\ \A c \in Accounts \ {b} :
                     Queued(b, t)' \/ InHand(b, t)'
                     => ~Queued(c, t)' /\ ~InHand(c, t)'
    BY <1>2, <1>5 DEF TicketInv
  <1>11. ASSUME NEW b \in Accounts, NEW i \in 1 .. Len(queue'[b]),
                NEW j \in 1 .. Len(queue'[b]), queue'[b][i] = queue'[b][j]
         PROVE  i = j
    BY <1>2, <1>11 DEF TicketInv
  <1>12. QED
    BY <1>7, <1>8, <1>9, <1>10, <1>11 DEF TicketInv

\* A reopened lead starts an admission no ticket and no message belongs to.
LEMMA TicketReadmit ==
  ASSUME TypeOK, TypeOK', TicketInv, NEW l \in Leads,
         AdminSetsStatus(l, "new"), leadStatus[l] # "new"
  PROVE  TicketInv'
  <1>1. /\ leadStatus' = [leadStatus EXCEPT ![l] = "new"]
        /\ admissions' = [admissions EXCEPT ![l] = @ + 1]
        /\ UNCHANGED <<answered, dms, hand, stage, queue>>
    BY DEF AdminSetsStatus, SetLead, handVars
  <1>2. /\ admissions'[l] = admissions[l] + 1 /\ admissions[l] \in Nat
        /\ \A k \in Leads \ {l} : admissions'[k] = admissions[k]
    BY <1>1 DEF TypeOK
  <1>3. ASSUME NEW k \in Leads
        PROVE  admissions[k] \in Nat /\ admissions'[k] >= admissions[k]
    <2>1. admissions[k] \in Nat
      BY DEF TypeOK
    <2>2. admissions'[k] = admissions[k] + 1 \/ admissions'[k] = admissions[k]
      BY <1>2
    <2>3. QED
      BY <2>1, <2>2
  <1>4. \A b \in Accounts : \A t :
          /\ Queued(b, t)' = Queued(b, t)
          /\ InHand(b, t)' = InHand(b, t)
          /\ Open(b, t)' = Open(b, t)
    BY <1>1 DEF Queued, InHand, Open
  <1>5. ASSUME NEW k \in Leads
        PROVE  /\ admissions'[k] >= 1
               /\ answered'[k] \subseteq 1 .. admissions'[k]
               /\ dms'[k] = Cardinality(answered'[k])
    <2>1. 1 .. admissions[k] \subseteq 1 .. admissions'[k] /\ admissions[k] >= 1
      BY <1>3 DEF TicketInv, TypeOK
    <2>2. QED
      BY <1>1, <1>3, <2>1 DEF TicketInv, TypeOK
  <1>6. NewLeadIsFree'
    <2> SUFFICES ASSUME NEW k \in NewLeads'
                 PROVE  /\ admissions'[k] \notin answered'[k]
                        /\ \A b \in Accounts :
                             ~Queued(b, Ticket(k))' /\ ~InHand(b, Ticket(k))'
      BY DEF NewLeadIsFree
    <2>0. k \in Leads
      BY DEF NewLeads
    <2>1. CASE k = l
      <3>1. answered[l] \subseteq 1 .. admissions[l]
        BY DEF TicketInv
      <3>2. admissions'[k] \notin 1 .. admissions[l]
        BY <1>2, <2>1
      <3>3. PICK t \in Tickets : t = Ticket(k)' /\ t.lead = l /\ t.adm = admissions'[l]
        <4>1. Ticket(k)' = [lead |-> l, adm |-> admissions'[l]]
          BY <2>1 DEF Ticket
        <4>2. QED
          BY <1>2, <4>1 DEF Tickets
      <3>4. \A b \in Accounts : ~Queued(b, t) /\ ~InHand(b, t)
        BY <2>1, <3>2, <3>3 DEF TicketInv
      <3>5. \A b \in Accounts : ~Queued(b, Ticket(k))' /\ ~InHand(b, Ticket(k))'
        <4>1. \A b \in Accounts : ~Queued(b, t)' /\ ~InHand(b, t)'
          BY <1>4, <3>4
        <4>2. QED
          BY <3>3, <4>1 DEF Queued, InHand
      <3>6. QED
        BY <1>1, <2>1, <3>1, <3>2, <3>5
    <2>2. CASE k # l
      <3>1. k \in NewLeads
        BY <1>1, <2>0, <2>2 DEF NewLeads, TypeOK
      <3>2. PICK t : t = Ticket(k) /\ t = Ticket(k)'
        BY <1>2, <2>0, <2>2 DEF Ticket
      <3>3. /\ admissions[k] \notin answered[k]
            /\ \A b \in Accounts : ~Queued(b, t) /\ ~InHand(b, t)
        BY <3>1, <3>2 DEF TicketInv, NewLeadIsFree
      <3>4. \A b \in Accounts : ~Queued(b, Ticket(k))' /\ ~InHand(b, Ticket(k))'
        <4>1. \A b \in Accounts : ~Queued(b, t)' /\ ~InHand(b, t)'
          BY <1>4, <3>3
        <4>2. QED
          BY <3>2, <4>1 DEF Queued, InHand
      <3>5. QED
        BY <1>1, <1>2, <2>0, <2>2, <3>3, <3>4
    <2>3. QED
      BY <2>1, <2>2
  <1>7. ASSUME NEW b \in Accounts, NEW t \in Tickets, Queued(b, t) \/ InHand(b, t)
        PROVE  t.adm \in 1 .. admissions'[t.lead]
    <2>1. t.adm \in 1 .. admissions[t.lead] /\ t.lead \in Leads
      BY <1>7 DEF TicketInv, Tickets
    <2>2. QED
      BY <1>2, <1>3, <2>1 DEF TypeOK
  <1>8. ASSUME NEW b \in Accounts, NEW t \in Tickets
        PROVE  /\ Queued(b, t)' \/ InHand(b, t)'
                    => t.adm \in 1 .. admissions'[t.lead]
               /\ Open(b, t)' => t.adm \notin answered'[t.lead]
               /\ ~(Queued(b, t)' /\ InHand(b, t)')
               /\ \A c \in Accounts \ {b} :
                    Queued(b, t)' \/ InHand(b, t)'
                    => ~Queued(c, t)' /\ ~InHand(c, t)'
    <2>1. answered'[t.lead] = answered[t.lead]
      BY <1>1
    <2>2. QED
      BY <1>4, <1>7, <2>1 DEF TicketInv
  <1>9. ASSUME NEW b \in Accounts, NEW i \in 1 .. Len(queue'[b]),
                NEW j \in 1 .. Len(queue'[b]), queue'[b][i] = queue'[b][j]
         PROVE  i = j
    BY <1>1, <1>9 DEF TicketInv
  <1>10. QED
    BY <1>5, <1>6, <1>8, <1>9 DEF TicketInv

\* Every action preserves the reservations.
LEMMA TicketStep == TypeOK /\ TicketInv /\ [Next]_vars => TicketInv'
  <1> SUFFICES ASSUME TypeOK, TicketInv, [Next]_vars PROVE TicketInv'
    OBVIOUS
  <1>0. TypeOK'
    BY TypeStep
  \* Steps that leave the queues alone and give no worker a ticket.
  <1>1. ASSUME UNCHANGED <<admissions, answered, dms, queue>>,
               NewLeads' \subseteq NewLeads,
               \A b \in Accounts :
                 \/ stage'[b] = "idle"
                 \/ /\ hand'[b] = hand[b] /\ stage[b] # "idle"
                    /\ stage'[b] \in Undelivered => stage[b] \in Undelivered
        PROVE  TicketInv'
    <2>1. ASSUME NEW b \in Accounts, NEW t \in Tickets
          PROVE  /\ Queued(b, t)' => Queued(b, t)
                 /\ InHand(b, t)' => InHand(b, t)
                 /\ Open(b, t)' => Open(b, t)
      BY <1>1 DEF Queued, InHand, Open, Undelivered
    <2>2. \A b \in Accounts : \A i, j \in 1 .. Len(queue'[b]) :
            queue'[b][i] = queue'[b][j] => i = j
      BY <1>1 DEF TicketInv
    <2>3. QED
      BY <1>0, <1>1, <2>1, <2>2, TicketFrame
  <1>2. ASSUME NEW a \in Accounts,
               \/ PauseDisabled(a) \/ OutreachOff(a) \/ PlanRefused(a)
               \/ WorkerExits(a) \/ AutoResume(a) \/ StatusChanges(a)
        PROVE  TicketInv'
    BY <1>1, <1>2 DEF PauseDisabled, OutreachOff, PlanRefused, Planning,
       WorkerExits, AutoResume, StatusChanges, leadVars, handVars, NewLeads
  <1>3. ASSUME NEW a \in Accounts,
               \/ PassLimit(a) \/ SkipOverLimit(a) \/ BareWorkerDrops(a)
               \/ Draft(a) \/ DraftFails(a) \/ SessionInvalid(a)
        PROVE  TicketInv'
    <2>1. UNCHANGED <<admissions, answered, dms, queue, leadStatus>>
      BY <1>3 DEF PassLimit, SkipOverLimit, BareWorkerDrops, Draft, DraftFails,
                  SessionInvalid, WorkerLocal, leadVars
    <2>2. \/ Moves(a, "held", "drafting") \/ Moves(a, "drafting", "sending")
          \/ \E s \in Undelivered : Moves(a, s, "idle")
      BY <1>3 DEF PassLimit, SkipOverLimit, BareWorkerDrops, Draft, DraftFails,
                  SessionInvalid, Undelivered
    <2>3. ASSUME NEW b \in Accounts
          PROVE  \/ stage'[b] = "idle"
                 \/ /\ hand'[b] = hand[b] /\ stage[b] # "idle"
                    /\ stage'[b] \in Undelivered => stage[b] \in Undelivered
      BY <2>2 DEF Moves, Undelivered, TypeOK
    <2>4. QED
      BY <1>1, <2>1, <2>3 DEF NewLeads
  <1>4. ASSUME NEW a \in Accounts,
               SendFails(a) \/ FinishSend(a) \/ BookkeepingFails(a)
        PROVE  TicketInv'
    <2>1. /\ UNCHANGED <<admissions, answered, dms, queue>>
          /\ \E s \in {"sending", "sent"} : Moves(a, s, "idle")
          /\ \E s \in {"contacted", "failed"} : SetLead(hand[a].lead, s)
      BY <1>4 DEF SendFails, FinishSend, BookkeepingFails, WorkerLocal
    <2>2. NewLeads' \subseteq NewLeads
      BY <2>1 DEF SetLead, NewLeads, TypeOK
    <2>3. ASSUME NEW b \in Accounts
          PROVE  \/ stage'[b] = "idle"
                 \/ /\ hand'[b] = hand[b] /\ stage[b] # "idle"
                    /\ stage'[b] \in Undelivered => stage[b] \in Undelivered
      BY <2>1 DEF Moves, TypeOK
    <2>4. QED
      BY <1>1, <2>1, <2>2, <2>3
  <1>5. ASSUME NEW a \in Accounts, Plans(a) PROVE TicketInv'
    BY <1>0, <1>5, TicketPlan
  <1>6. ASSUME NEW a \in Accounts, NextAction(a) PROVE TicketInv'
    BY <1>0, <1>6, TicketPop
  <1>7. ASSUME NEW a \in Accounts, Deliver(a) PROVE TicketInv'
    BY <1>0, <1>7, TicketDeliver
  <1>8. ASSUME NEW l \in Leads, NEW status \in LeadStatus,
               AdminSetsStatus(l, status)
        PROVE  TicketInv'
    <2>1. CASE status = "new" /\ leadStatus[l] # "new"
      BY <1>0, <1>8, <2>1, TicketReadmit
    <2>2. CASE ~(status = "new" /\ leadStatus[l] # "new")
      <3>1. UNCHANGED <<admissions, answered, dms, queue, hand, stage>>
        BY <1>8, <2>2 DEF AdminSetsStatus, handVars
      <3>2. leadStatus' = [leadStatus EXCEPT ![l] = status]
        BY <1>8 DEF AdminSetsStatus, SetLead
      <3>3. NewLeads' \subseteq NewLeads
        BY <2>2, <3>2 DEF NewLeads, TypeOK
      <3>4. QED
        BY <1>1, <3>1, <3>3
    <2>3. QED
      BY <2>1, <2>2
  <1>9. CASE PutSettings
    BY <1>1, <1>9 DEF PutSettings, leadVars, handVars, NewLeads
  <1>10. CASE Midnight
    BY <1>1, <1>10 DEF Midnight, leadVars, handVars, NewLeads
  <1>11. CASE Restart
    <2>1. /\ UNCHANGED <<admissions, answered, dms>> /\ NewLeads' \subseteq NewLeads
          /\ \A b \in Accounts : queue'[b] = <<>> /\ stage'[b] = "idle"
      BY <1>11 DEF Restart, leadVars, NewLeads
    <2>2. ASSUME NEW b \in Accounts, NEW t \in Tickets
          PROVE  ~Queued(b, t)' /\ ~InHand(b, t)' /\ ~Open(b, t)'
      BY <2>1 DEF Queued, InHand, Open, Undelivered
    <2>3. \A b \in Accounts : \A i, j \in 1 .. Len(queue'[b]) :
            queue'[b][i] = queue'[b][j] => i = j
      BY <2>1
    <2>4. QED
      BY <1>0, <2>1, <2>2, <2>3, TicketFrame
  <1>12. CASE UNCHANGED vars
    BY <1>1, <1>12 DEF vars, leadVars, handVars, NewLeads
  <1>13. QED
    BY <1>2, <1>3, <1>4, <1>5, <1>6, <1>7, <1>8, <1>9, <1>10, <1>11, <1>12, PlanIsPlans
       DEF Next, OutreachRound, SendStep

\* The invariant behind the reservations holds in every reachable state.
THEOREM TicketInvariant == Spec => []TicketInv
  <1>1. Init => TicketInv
    <2> SUFFICES ASSUME Init PROVE TicketInv
      OBVIOUS
    <2>1. \A a \in Accounts : \A t : ~Queued(a, t) /\ ~InHand(a, t) /\ ~Open(a, t)
      BY DEF Init, Queued, InHand, Open, Undelivered
    <2>2. NewLeadIsFree
      BY <2>1 DEF Init, NewLeadIsFree, NewLeads
    <2>3. ASSUME NEW l \in Leads
          PROVE  /\ admissions[l] >= 1
                 /\ answered[l] \subseteq 1 .. admissions[l]
                 /\ dms[l] = Cardinality(answered[l])
      BY FS_EmptySet DEF Init
    <2>4. \A a \in Accounts : \A i, j \in 1 .. Len(queue[a]) :
            queue[a][i] = queue[a][j] => i = j
      BY DEF Init
    <2>5. QED
      BY <2>1, <2>2, <2>3, <2>4 DEF TicketInv
  <1>2. QED
    BY <1>1, TicketStep, TypeCorrect, PTL DEF Spec

\* No lead is written to more often than it was made 'new'.
LEMMA AtMostAdmitted ==
  ASSUME TypeOK, TicketInv
  PROVE  OneMessagePerAdmission
  <1> SUFFICES ASSUME NEW l \in Leads PROVE dms[l] <= admissions[l]
    BY DEF OneMessagePerAdmission
  <1>1. /\ answered[l] \subseteq 1 .. admissions[l] /\ admissions[l] \in Nat
        /\ dms[l] = Cardinality(answered[l]) /\ dms[l] \in Nat
    BY DEF TicketInv, TypeOK
  <1>2. /\ IsFiniteSet(1 .. admissions[l])
        /\ Cardinality(1 .. admissions[l]) = admissions[l]
    <2>1. PICK n \in Nat : n = admissions[l]
      BY <1>1
    <2>2. 1 \in Int /\ n \in Int
      BY <2>1
    <2>3. /\ IsFiniteSet(1 .. n)
          /\ Cardinality(1 .. n) = IF 1 > n THEN 0 ELSE n - 1 + 1
      BY <2>2, FS_Interval
    <2>4. QED
      BY <2>1, <2>3
  <1>3. Cardinality(answered[l]) <= Cardinality(1 .. admissions[l])
    BY <1>1, <1>2, FS_Subset
  <1>4. QED
    BY <1>1, <1>2, <1>3

\* A lead gets at most one cold message each time it is made 'new', whatever
\* fails, restarts or is reopened in between.
THEOREM OneMessagePerAdmissionHolds == Spec => []OneMessagePerAdmission
  BY AtMostAdmitted, TicketInvariant, TypeCorrect, PTL

\* A lead that can be reserved is in nobody's queue or hand under its present
\* admission, and was not written to under it.
THEOREM NewLeadIsFreeHolds == Spec => []NewLeadIsFree
  <1>1. TicketInv => NewLeadIsFree
    BY DEF TicketInv
  <1>2. QED
    BY <1>1, TicketInvariant, PTL

-----------------------------------------------------------------------------
(* The refinement of OutreachPromise.                                      *)

\* Recording a send is a Record step: the day's total stays within the cap.
LEMMA RecordStep ==
  ASSUME TypeOK, TypeOK', GlobalCapSlack', NEW a \in Accounts,
         CountInMetrics(a), UNCHANGED <<admissions, dms>>
  PROVE  Promise!Record
  <1>1. coldSentSum' = coldSentSum + 1 /\ coldSentSum \in Nat
    BY DEF CountInMetrics, TypeOK
  <1>2. coldSentSum' <= MaxTotal + (Cardinality(Accounts) - 1) + unregistered'
    BY DEF GlobalCapSlack
  <1>3. unregistered' \in Nat /\ unregistered' <= MaxFaults
    BY DEF TypeOK
  <1>4. coldSentSum < MaxTotal + (Cardinality(Accounts) - 1) + MaxFaults
    BY <1>1, <1>2, <1>3, InFlightCount
  <1>5. QED
    BY <1>1, <1>4 DEF Promise!Record

\* Every step of cold outreach is a step of the promise, or none.
LEMMA PromiseStep ==
  ASSUME TypeOK, TypeOK', OneMessagePerAdmission', GlobalCapSlack', [Next]_vars
  PROVE  [Promise!Next]_Promise!vars
  <1> USE DEF Promise!vars
  <1>1. ASSUME NEW a \in Accounts, Deliver(a) PROVE \E l \in Leads : Promise!Contact(l)
    <2>1. PICK l \in Leads : l = hand[a].lead
      BY <1>1 DEF Deliver, Moves, TypeOK, Tickets
    <2>2. /\ dms' = [dms EXCEPT ![l] = @ + 1]
          /\ UNCHANGED <<admissions, coldSentSum>>
      BY <1>1, <2>1 DEF Deliver, WorkerLocal, metricVars
    <2>3. dms'[l] <= admissions'[l]
      BY DEF OneMessagePerAdmission
    <2>4. dms[l] < admissions[l]
      BY <2>2, <2>3 DEF TypeOK
    <2>5. QED
      BY <2>2, <2>4 DEF Promise!Contact
  <1>2. ASSUME NEW a \in Accounts, FinishSend(a) \/ BookkeepingFails(a)
        PROVE  Promise!Record
    <2>1. CountInMetrics(a) /\ UNCHANGED <<admissions, dms>>
      BY <1>2 DEF FinishSend, BookkeepingFails
    <2>2. QED
      BY <2>1, RecordStep
  <1>3. ASSUME NEW l \in Leads, NEW status \in LeadStatus,
               AdminSetsStatus(l, status)
        PROVE  Promise!Readmit(l) \/ UNCHANGED Promise!vars
    BY <1>3 DEF AdminSetsStatus, Promise!Readmit, metricVars
  <1>4. CASE Midnight
    BY <1>4 DEF Midnight, leadVars, Promise!NewDay, Promise!Next
  <1>5. CASE Restart
    <2>1. UNCHANGED <<admissions, dms>>
      BY <1>5 DEF Restart, leadVars
    <2>2. \/ UNCHANGED coldSentSum
          \/ \E a \in Accounts : CountInMetrics(a)
      BY <1>5 DEF Restart
    <2>3. QED
      BY <2>1, <2>2, RecordStep DEF Promise!Next
  <1>6. ASSUME NEW a \in Accounts,
               \/ PauseDisabled(a) \/ OutreachOff(a) \/ PlanRefused(a)
               \/ Plans(a) \/ WorkerExits(a) \/ AutoResume(a)
               \/ StatusChanges(a) \/ NextAction(a) \/ PassLimit(a)
               \/ SkipOverLimit(a) \/ BareWorkerDrops(a) \/ Draft(a)
               \/ DraftFails(a) \/ SendFails(a) \/ SessionInvalid(a)
        PROVE  UNCHANGED Promise!vars
    BY <1>6 DEF PauseDisabled, OutreachOff, PlanRefused,
       Plans, PlanUpTo, Planning, WorkerExits, AutoResume, StatusChanges,
       NextAction, PassLimit, SkipOverLimit, BareWorkerDrops, Draft,
       DraftFails, SendFails, SessionInvalid, WorkerLocal, leadVars, metricVars
  <1>7. CASE PutSettings \/ UNCHANGED vars
    BY <1>7 DEF PutSettings, vars, leadVars, metricVars
  <1>8. QED
    BY <1>1, <1>2, <1>3, <1>4, <1>5, <1>6, <1>7, PlanIsPlans
       DEF Next, OutreachRound, SendStep, Promise!Next

\* Cold outreach implements OutreachPromise.
THEOREM PromiseKept == Spec => KeepsPromise
  <1>1. Init => Promise!Init
    BY DEF Init, Promise!Init
  <1>2. QED
    BY <1>1, PromiseStep, TypeCorrect, OneMessagePerAdmissionHolds,
       GlobalCapSlackHolds, PTL DEF Spec, KeepsPromise, Promise!Spec

-----------------------------------------------------------------------------
(* The refinement of ActionQueues.                                         *)

\* A worker that goes from one stage of an action to the next, or to idle,
\* holds the same action for its queue, or has done with it.
LEMMA MoveIsHeldOrDone ==
  ASSUME TypeOK, NEW a \in Accounts, NEW from, NEW to, from # "idle",
         Moves(a, from, to), UNCHANGED queue
  PROVE  Scheduler!Done(a) \/ UNCHANGED Scheduler!vars
  <1> DEFINE held == [b \in Accounts |-> IF stage[b] = "idle" THEN NoTicket ELSE hand[b]]
  <1>1. stage \in [Accounts -> {"idle"} \cup Undelivered \cup {"sent"}]
        /\ hand \in [Accounts -> Tickets \cup {NoTicket}]
    BY DEF TypeOK
  <1>2. CASE to = "idle"
    <2>1. stage' = [stage EXCEPT ![a] = "idle"] /\ hand' = [hand EXCEPT ![a] = NoTicket]
      BY <1>2 DEF Moves
    <2>2. held' = [held EXCEPT ![a] = NoTicket]
      BY <1>1, <2>1
    <2>3. QED
      BY <2>2 DEF Scheduler!Done
  <1>3. CASE to # "idle"
    <2>1. stage' = [stage EXCEPT ![a] = to] /\ hand' = hand /\ stage[a] # "idle"
      BY <1>3 DEF Moves
    <2>2. held' = held
      BY <1>1, <1>3, <2>1
    <2>3. QED
      BY <2>2 DEF Scheduler!vars
  <1>4. QED
    BY <1>2, <1>3

\* A planning round queues its reservations behind those that are there.
LEMMA PlanIsAdd ==
  ASSUME TypeOK, NEW a \in Accounts, Plans(a)
  PROVE  Scheduler!Add(a)
  <1>0. PICK most \in Nat : PlanUpTo(a, most)
    BY DEF Plans
  <1>1. PICK batch \in Reservations(most) :
          queue' = [queue EXCEPT ![a] = @ \o [i \in DOMAIN batch |-> Ticket(batch[i])]]
    BY <1>0 DEF PlanUpTo
  <1> DEFINE new == [i \in DOMAIN batch |-> Ticket(batch[i])]
  <1>2. new \in Seq(Tickets)
    BY ReservationsType
  <1>3. queue \in [Accounts -> Seq(Tickets)] /\ queue[a] \in Seq(Tickets)
    BY DEF TypeOK
  <1>4. queue' = [queue EXCEPT ![a] = queue[a] \o new]
    BY <1>1
  <1> HIDE DEF new
  <1>5. queue'[a] = queue[a] \o new
    BY <1>3, <1>4
  <1>6. /\ Len(queue[a]) <= Len(queue'[a])
        /\ \A i \in 1 .. Len(queue[a]) : queue'[a][i] = queue[a][i]
    BY <1>2, <1>3, <1>5
  <1>7. UNCHANGED <<hand, stage>>
    BY DEF Plans, PlanUpTo, Planning, handVars
  <1>8. QED
    BY <1>4, <1>5, <1>6, <1>7 DEF Scheduler!Add, Scheduler!OnlyFor

\* The worker that pops an action had none.
LEMMA PopIsTake ==
  ASSUME TypeOK, NEW a \in Accounts, NextAction(a)
  PROVE  Scheduler!Take(a)
  <1> DEFINE held == [b \in Accounts |-> IF stage[b] = "idle" THEN NoTicket ELSE hand[b]]
  <1>1. stage \in [Accounts -> {"idle"} \cup Undelivered \cup {"sent"}]
        /\ hand \in [Accounts -> Tickets \cup {NoTicket}]
    BY DEF TypeOK
  <1>2. /\ stage[a] = "idle" /\ queue[a] # <<>>
        /\ hand' = [hand EXCEPT ![a] = Head(queue[a])]
        /\ stage' = [stage EXCEPT ![a] = "held"]
        /\ queue' = [queue EXCEPT ![a] = Tail(@)]
    BY DEF NextAction
  <1>3. held' = [held EXCEPT ![a] = Head(queue[a])]
    BY <1>1, <1>2
  <1>4. held[a] = NoTicket
    BY <1>2
  <1>5. QED
    BY <1>2, <1>3, <1>4 DEF Scheduler!Take

\* Every step of cold outreach is a step of the queues, or none.
LEMMA QueuesStep ==
  ASSUME TypeOK, [Next]_vars
  PROVE  [Scheduler!Next]_Scheduler!vars
  <1>1. ASSUME NEW a \in Accounts,
               \/ PassLimit(a) \/ SkipOverLimit(a) \/ BareWorkerDrops(a)
               \/ Draft(a) \/ DraftFails(a) \/ Deliver(a) \/ SendFails(a)
               \/ SessionInvalid(a) \/ FinishSend(a) \/ BookkeepingFails(a)
        PROVE  Scheduler!Done(a) \/ UNCHANGED Scheduler!vars
    <2>1. \E from \in Undelivered \cup {"sent"}, to \in {"idle"} \cup Undelivered \cup {"sent"} :
            Moves(a, from, to)
      BY <1>1 DEF PassLimit, SkipOverLimit, BareWorkerDrops, Draft, DraftFails,
         Deliver, SendFails, SessionInvalid, FinishSend, BookkeepingFails, Undelivered
    <2>2. UNCHANGED queue
      BY <1>1 DEF PassLimit, SkipOverLimit, BareWorkerDrops, Draft, DraftFails,
         Deliver, SendFails, SessionInvalid, FinishSend, BookkeepingFails, WorkerLocal
    <2>3. \A from \in Undelivered \cup {"sent"} : from # "idle"
      BY DEF Undelivered
    <2>4. QED
      BY <2>1, <2>2, <2>3, MoveIsHeldOrDone
  <1>2. ASSUME \/ \E a \in Accounts :
                    \/ PauseDisabled(a) \/ OutreachOff(a) \/ PlanRefused(a)
                    \/ WorkerExits(a) \/ AutoResume(a) \/ StatusChanges(a)
               \/ \E l \in Leads, status \in LeadStatus : AdminSetsStatus(l, status)
               \/ PutSettings \/ Midnight \/ UNCHANGED vars
        PROVE  UNCHANGED Scheduler!vars
    <2>1. UNCHANGED <<queue, hand, stage>>
      BY <1>2 DEF PauseDisabled, OutreachOff, PlanRefused, Planning, WorkerExits,
         AutoResume, StatusChanges, AdminSetsStatus, PutSettings, Midnight,
         vars, handVars
    <2>2. QED
      BY <2>1 DEF Scheduler!vars
  <1>3. CASE Restart
    <2>1. /\ queue' = [a \in Accounts |-> <<>>]
          /\ stage' = [a \in Accounts |-> "idle"]
      BY <1>3 DEF Restart
    <2>2. QED
      BY <2>1 DEF Scheduler!Next, Scheduler!Restart, Scheduler!Started
  <1>4. QED
    BY <1>1, <1>2, <1>3, PlanIsPlans, PlanIsAdd, PopIsTake
       DEF Next, SendStep, OutreachRound, Scheduler!Next

\* Cold outreach implements ActionQueues: a reservation reaches its worker in
\* its turn, and only a restart loses any, all of them.
THEOREM QueuesKept == Spec => KeepsQueues
  <1>1. Init => Scheduler!Started
    BY DEF Init, Scheduler!Started
  <1>2. QED
    BY <1>1, QueuesStep, TypeCorrect, PTL DEF Spec, KeepsQueues, Scheduler!Spec

=============================================================================
