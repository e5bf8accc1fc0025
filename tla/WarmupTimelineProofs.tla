------------------------ MODULE WarmupTimelineProofs ------------------------
(***************************************************************************)
(* Proofs about WarmupTimeline, for any delays, gaps and caps: types, the  *)
(* hourly cap as planned and as carried out, punctuality, and quiet hours. *)
(***************************************************************************)
EXTENDS WarmupTimeline, Counting, FiniteSetTheorems, TLAPS

-----------------------------------------------------------------------------
(* Types.                                                                  *)

LEMMA Delays ==
  \A j \in Jitter : \A k \in Jitter \cup DialogDelays :
    /\ j \in Nat /\ k \in Nat /\ j + k \in Nat
    /\ j <= MaxDelay /\ j + k <= MaxDelay
  BY TimeAssumption

LEMMA PlannedTypes ==
  ASSUME now \in Nat, NEW kind \in Kind, NEW delay \in Nat, NEW before \in Nat
  PROVE  /\ Planned(kind, delay, before) \in Action
         /\ Planned(kind, delay, before).kind = kind
         /\ Planned(kind, delay, before).start = now + delay
         /\ Planned(kind, delay, before).planned = now
         /\ Planned(kind, delay, before).ahead = before
  BY DEF Planned, Action

LEMMA BeforeTypes == ASSUME TypeOK PROVE Before \in Nat
  BY DEF TypeOK, Before

\* A round has these actions, each counting those before it.
LEMMA RoundTypes ==
  ASSUME TypeOK, NEW useBot \in BOOLEAN, NEW c \in Nat, NEW d \in Nat, NEW i \in Nat
  PROVE  /\ Round(useBot, c, d, i) \in Seq(Action)
         /\ DialogIn(useBot, d) \subseteq Action /\ IsFiniteSet(DialogIn(useBot, d))
         /\ \A n \in 1 .. Len(Round(useBot, c, d, i)) :
              /\ Round(useBot, c, d, i)[n].start \in {now + c, now + d, now + i}
              /\ Round(useBot, c, d, i)[n].planned = now
              /\ Round(useBot, c, d, i)[n].ahead = Before + n - 1
  <1>1. now \in Nat /\ Before \in Nat
    BY BeforeTypes DEF TypeOK
  <1> DEFINE ch == Planned("channel", c, Before)
             dialog == Planned("dialog", d, Before + 1)
             idle(n) == Planned("idle", i, Before + n)
             round == Round(useBot, c, d, i)
  <1>2. /\ ch \in Action /\ ch.start = now + c /\ ch.planned = now /\ ch.ahead = Before
        /\ dialog \in Action /\ dialog.start = now + d /\ dialog.planned = now
        /\ dialog.ahead = Before + 1
        /\ \A n \in {1, 2} : /\ idle(n) \in Action /\ idle(n).start = now + i
                             /\ idle(n).planned = now /\ idle(n).ahead = Before + n
    BY <1>1 DEF Planned, Action, Kind
  <1>3. CASE useBot
    <2>1. round = <<ch, dialog, idle(2)>> /\ DialogIn(useBot, d) = {dialog}
      BY <1>3 DEF Round, DialogIn
    <2> HIDE DEF ch, dialog, idle, round
    <2>2. IsFiniteSet(DialogIn(useBot, d)) /\ DialogIn(useBot, d) \subseteq Action
      BY <1>2, <2>1, FS_Singleton
    <2>3. /\ round \in Seq(Action) /\ Len(round) = 3
          /\ round[1] = ch /\ round[2] = dialog /\ round[3] = idle(2)
      BY <1>2, <2>1
    <2>4. ASSUME NEW n \in 1 .. Len(round)
          PROVE  /\ round[n].start \in {now + c, now + d, now + i} /\ round[n].planned = now
                 /\ round[n].ahead = Before + n - 1
      <3>1. n = 1 \/ n = 2 \/ n = 3
        BY <2>3, <2>4
      <3> QED BY <1>1, <1>2, <2>3, <3>1
    <2> QED BY <2>2, <2>3, <2>4 DEF round
  <1>4. CASE ~ useBot
    <2>1. round = <<ch, idle(1)>> /\ DialogIn(useBot, d) = {}
      BY <1>4 DEF Round, DialogIn
    <2> HIDE DEF ch, dialog, idle, round
    <2>2. IsFiniteSet(DialogIn(useBot, d)) /\ DialogIn(useBot, d) \subseteq Action
      BY <2>1, FS_EmptySet
    <2>3. /\ round \in Seq(Action) /\ Len(round) = 2
          /\ round[1] = ch /\ round[2] = idle(1)
      BY <1>2, <2>1
    <2>4. ASSUME NEW n \in 1 .. Len(round)
          PROVE  /\ round[n].start \in {now + c, now + d, now + i} /\ round[n].planned = now
                 /\ round[n].ahead = Before + n - 1
      <3>1. n = 1 \/ n = 2
        BY <2>3, <2>4
      <3> QED BY <1>1, <1>2, <2>3, <3>1
    <2> QED BY <2>2, <2>3, <2>4 DEF round
  <1> QED BY <1>3, <1>4

LEMMA InitialTypes ==
  ASSUME NEW time \in Nat, NEW q \in InitialQueues(time)
  PROVE  /\ q \in Seq(Action) /\ Len(q) = 1 /\ q[1].ahead = 0 /\ q[1].planned = time
         /\ q[1].start <= time + MaxDelay /\ q[1].start \in Nat
         /\ q[1].kind = "idle"
  <1> DEFINE gap(j) == [kind |-> "idle", start |-> time + j, planned |-> time, ahead |-> 0]
  <1>1. PICK j \in Jitter : q = <<gap(j)>>
    BY DEF InitialQueues
  <1>2. /\ gap(j) \in Action /\ gap(j).ahead = 0 /\ gap(j).planned = time
        /\ gap(j).start = time + j /\ gap(j).kind = "idle"
    BY Delays DEF Action, Kind
  <1>3. j \in Nat /\ j <= MaxDelay
    BY Delays
  <1> HIDE DEF gap
  <1>4. q \in Seq(Action) /\ Len(q) = 1 /\ q[1] = gap(j)
    BY <1>1, <1>2
  <1>5. time + j \in Nat /\ time + j <= time + MaxDelay
    BY <1>3, TimeAssumption
  <1> QED BY <1>2, <1>4, <1>5

LEMMA NothingApart == Nothing \notin Action
  BY DEF Nothing, Action

LEMMA InitTypes == ASSUME Init PROVE TypeOK
  <1>1. queue \in Seq(Action)
    BY InitialTypes DEF Init
  <1>2. IsFiniteSet({})
    BY FS_EmptySet
  <1> QED BY <1>1, <1>2 DEF Init, TypeOK

LEMMA RecentFinite ==
  ASSUME TypeOK
  PROVE  Recent \subseteq history /\ Recent \subseteq Action /\ IsFiniteSet(Recent)
  <1>1. Recent \subseteq history
    BY DEF Recent
  <1> QED BY <1>1, FS_Subset DEF TypeOK

LEMMA RoundSettled ==
  ASSUME TypeOK, SleepUntilNext
  PROVE  nextRound' \in Nat
  <1>1. \A gap \in DayGaps \cup NightGaps : gap \in Nat
    BY TimeAssumption
  <1> QED BY <1>1 DEF TypeOK, SleepUntilNext

\* What planning a round comes to.
LEMMA PlanStep ==
  ASSUME TypeOK, PlanWarmup
  PROVE  \E useBot \in BOOLEAN, c \in Jitter, d \in Nat, i \in Nat :
           /\ useBot => Cardinality(Recent) < MaxCap
           /\ c \in Nat /\ c <= MaxDelay /\ d <= MaxDelay /\ i <= MaxDelay
           /\ queue' = queue \o Round(useBot, c, d, i)
           /\ history' = Recent \cup DialogIn(useBot, d)
           /\ planned' = planned \cup DialogIn(useBot, d)
  <1>1. PICK cap \in Caps, j \in Jitter, i \in Jitter, k \in DialogDelays, chance \in BOOLEAN :
          LET useBot == chance /\ Cardinality(Recent) < cap
          IN  /\ queue' = queue \o Round(useBot, j, j + k, j + i)
              /\ history' = Recent \cup DialogIn(useBot, j + k)
              /\ planned' = planned \cup DialogIn(useBot, j + k)
    BY DEF PlanWarmup
  <1> DEFINE useBot == chance /\ Cardinality(Recent) < cap
  <1>2. useBot \in BOOLEAN
    OBVIOUS
  <1>3. useBot => Cardinality(Recent) < MaxCap
    <2>1. Cardinality(Recent) \in Nat
      BY RecentFinite, FS_CardinalityType
    <2> QED BY <2>1, CapAssumption
  <1>4. /\ j \in Nat /\ j <= MaxDelay /\ j + k \in Nat /\ j + k <= MaxDelay
        /\ j + i \in Nat /\ j + i <= MaxDelay
    BY Delays
  <1> HIDE DEF useBot
  <1> QED BY <1>1, <1>2, <1>3, <1>4 DEF useBot

LEMMA TypesKept ==
  ASSUME TypeOK, [Next]_vars
  PROVE  TypeOK'
  <1>1. CASE PlanWarmup
    <2>1. PICK useBot \in BOOLEAN, c \in Jitter, d \in Nat, i \in Nat :
            /\ c \in Nat /\ queue' = queue \o Round(useBot, c, d, i)
            /\ history' = Recent \cup DialogIn(useBot, d)
            /\ planned' = planned \cup DialogIn(useBot, d)
      BY <1>1, PlanStep
    <2>2. /\ Round(useBot, c, d, i) \in Seq(Action)
          /\ DialogIn(useBot, d) \subseteq Action /\ IsFiniteSet(DialogIn(useBot, d))
      BY <2>1, RoundTypes
    <2>3. queue' \in Seq(Action)
      BY <2>1, <2>2 DEF TypeOK
    <2>4. /\ history' \subseteq Action /\ IsFiniteSet(history')
          /\ planned' \subseteq Action /\ IsFiniteSet(planned')
      BY <2>1, <2>2, RecentFinite, FS_Union DEF TypeOK
    <2>5. nextRound' \in Nat
      BY <1>1, RoundSettled DEF PlanWarmup
    <2> QED BY <1>1, <2>3, <2>4, <2>5 DEF TypeOK, PlanWarmup, handVars
  <1>2. CASE PassOver
    BY <1>2, RoundSettled DEF TypeOK, PassOver, handVars
  <1>3. CASE ColdPlanned
    <2>1. PICK delay \in ColdDelays : queue' = Append(queue, Planned("cold", delay, Before))
      BY <1>3 DEF ColdPlanned
    <2>2. Planned("cold", delay, Before) \in Action
      BY BeforeTypes, TimeAssumption DEF TypeOK, Planned, Action, Kind
    <2>3. queue' \in Seq(Action)
      BY <2>1, <2>2 DEF TypeOK
    <2> QED BY <1>3, <2>3 DEF TypeOK, ColdPlanned, plannerVars, handVars
  <1>4. CASE NextAction
    BY <1>4 DEF TypeOK, NextAction, plannerVars
  <1>5. CASE Poll
    BY <1>5 DEF TypeOK, Poll, Planned, Action, Kind, plannerVars
  <1>6. CASE Begin
    <2>1. hand \in Action /\ [action |-> hand, at |-> now] \in DialogRead
      BY <1>6 DEF TypeOK, Begin, Asleep, DialogRead
    <2>2. read' \subseteq DialogRead /\ IsFiniteSet(read')
      BY <1>6, <2>1, FS_AddElement DEF TypeOK, Begin
    <2> QED BY <1>6, <2>2 DEF TypeOK, Begin, plannerVars
  <1>7. CASE Finish
    BY <1>7 DEF TypeOK, Finish, plannerVars
  <1>8. CASE WorkerEnds
    BY <1>8 DEF TypeOK, WorkerEnds, plannerVars
  <1>9. CASE Connect
    BY <1>9 DEF TypeOK, Connect, plannerVars, handVars
  <1>10. CASE Restart
    BY <1>10, InitialTypes, FS_EmptySet DEF TypeOK, Restart
  <1>11. CASE Tick
    BY <1>11 DEF TypeOK, Tick, plannerVars, handVars
  <1>12. CASE UNCHANGED vars
    BY <1>12 DEF TypeOK, vars, plannerVars, handVars
  <1> QED BY <1>1, <1>2, <1>3, <1>4, <1>5, <1>6, <1>7, <1>8, <1>9, <1>10, <1>11, <1>12 DEF Next

\* Every reachable state is well typed; an action is at hand only of a worker
\* that is in its loop.
THEOREM TypeCorrect == Spec => []TypeOK
  BY InitTypes, TypesKept, PTL DEF Spec

-----------------------------------------------------------------------------
(* The hourly cap.                                                         *)

\* A planned read is in the history until it is an hour past, and no hour has
\* more of them than the cap, wherever it begins.
CapInv ==
  /\ \A a \in planned : now - a.start < Hour => a \in history
  /\ \A from \in Int : Cardinality(PlannedIn(from)) <= MaxCap

LEMMA PlannedFinite ==
  ASSUME TypeOK, NEW from \in Int
  PROVE  IsFiniteSet(PlannedIn(from)) /\ Cardinality(PlannedIn(from)) \in Nat
  <1>1. PlannedIn(from) \in SUBSET planned
    BY DEF PlannedIn
  <1> QED BY <1>1, FS_Subset, FS_CardinalityType DEF TypeOK

\* A new read shares an hour only with reads that are still in the history.
LEMMA PlanKeepsCap ==
  ASSUME TypeOK, CapInv, PlanWarmup
  PROVE  CapInv'
  <1>1. PICK useBot \in BOOLEAN, d \in Nat :
          /\ useBot => Cardinality(Recent) < MaxCap
          /\ history' = Recent \cup DialogIn(useBot, d)
          /\ planned' = planned \cup DialogIn(useBot, d)
    BY PlanStep
  <1>2. now \in Nat /\ now' = now /\ Before \in Nat
    BY BeforeTypes DEF TypeOK, PlanWarmup
  <1> DEFINE dialog == Planned("dialog", d, Before + 1)
  <1>3. dialog.start = now + d
    BY DEF Planned
  <1>4. \A a \in planned' : now' - a.start < Hour => a \in history'
    BY <1>1, <1>2 DEF CapInv, Recent
  <1>5. ASSUME NEW from \in Int
        PROVE  Cardinality(PlannedIn(from)') <= MaxCap
    <2>1. CASE useBot /\ from < dialog.start /\ dialog.start <= from + Hour
      <3>1. \A a \in PlannedIn(from) : a \in Recent
        <4> TAKE a \in PlannedIn(from)
        <4>1. a \in planned /\ a.start \in Nat /\ from < a.start
          BY DEF PlannedIn, TypeOK, Action
        <4>2. now - a.start < Hour
          BY <1>2, <1>3, <2>1, <4>1, TimeAssumption
        <4> QED BY <4>1, <4>2 DEF CapInv, Recent
      <3>2. PlannedIn(from)' \in SUBSET (Recent \cup {dialog})
        BY <1>1, <3>1 DEF PlannedIn, DialogIn
      <3>3. /\ IsFiniteSet(Recent) /\ Cardinality(Recent) \in Nat
            /\ IsFiniteSet(Recent \cup {dialog})
            /\ Cardinality(Recent \cup {dialog}) <= Cardinality(Recent) + 1
            /\ Cardinality(Recent \cup {dialog}) \in Nat
        BY RecentFinite, FS_CardinalityType, FS_AddElement
      <3>4. /\ Cardinality(PlannedIn(from)') <= Cardinality(Recent \cup {dialog})
            /\ Cardinality(PlannedIn(from)') \in Nat
        BY <3>2, <3>3, FS_Subset, FS_CardinalityType
      <3> QED BY <1>1, <2>1, <3>3, <3>4, CapAssumption
    <2>2. CASE ~ (useBot /\ from < dialog.start /\ dialog.start <= from + Hour)
      <3>1. PlannedIn(from)' = PlannedIn(from)
        BY <1>1, <2>2 DEF PlannedIn, DialogIn
      <3> QED BY <3>1 DEF CapInv
    <2> QED BY <2>1, <2>2
  <1> QED BY <1>4, <1>5 DEF CapInv

LEMMA CapKept ==
  ASSUME TypeOK, CapInv, [Next]_vars
  PROVE  CapInv'
  <1>1. CASE UNCHANGED plannerVars /\ UNCHANGED now
    BY <1>1 DEF CapInv, PlannedIn, plannerVars
  <1>2. CASE PassOver
    BY <1>2 DEF CapInv, PlannedIn, PassOver
  <1>3. CASE Restart
    <2>1. \A from \in Int : PlannedIn(from)' = {}
      BY <1>3 DEF PlannedIn, Restart
    <2> QED BY <1>3, <2>1, FS_EmptySet, CapAssumption DEF CapInv, Restart
  <1>4. CASE Tick
    <2>1. /\ \A a \in planned : a.start \in Nat
          /\ now \in Nat /\ now' = now + 1 /\ planned' = planned /\ history' = history
      BY <1>4 DEF TypeOK, Action, Tick, plannerVars
    <2> QED BY <2>1, TimeAssumption DEF CapInv, PlannedIn
  <1> QED BY <1>1, <1>2, <1>3, <1>4, PlanKeepsCap
          DEF Next, ColdPlanned, NextAction, Poll, Begin, Finish, WorkerEnds, Connect, vars

LEMMA InitCap == ASSUME Init PROVE CapInv
  <1>1. planned = {}
    BY DEF Init
  <1>2. \A from \in Int : PlannedIn(from) = {}
    BY <1>1 DEF PlannedIn
  <1>3. Cardinality({}) <= MaxCap
    BY FS_EmptySet, CapAssumption
  <1> QED BY <1>1, <1>2, <1>3 DEF CapInv

\* No hour, wherever it begins, is planned fuller than the highest cap.
THEOREM PlannedCapHolds == Spec => []PlannedCap
  <1>1. ASSUME Init PROVE TypeOK /\ CapInv
    BY <1>1, InitTypes, InitCap
  <1>2. ASSUME TypeOK, CapInv, [Next]_vars PROVE TypeOK' /\ CapInv'
    BY <1>2, TypesKept, CapKept
  <1>3. ASSUME TypeOK, CapInv PROVE PlannedCap
    <2>1. \A from \in -Hour .. now + MaxDelay : from \in Int
      OBVIOUS
    <2> QED BY <1>3, <2>1 DEF CapInv, PlannedCap
  <1> QED BY <1>1, <1>2, <1>3, PTL DEF Spec

-----------------------------------------------------------------------------
(* Punctuality.                                                            *)

\* The time that n actions take.
Load(n) == Work * n

LEMMA Loads ==
  /\ Load(0) = 0
  /\ \A n \in Nat : Load(n) \in Nat /\ Load(n + 1) = Load(n) + Work
  /\ \A m, n \in Nat : m <= n => Load(m) <= Load(n)
  <1>1. Work \in Nat
    BY TimeAssumption
  <1>2. ASSUME NEW m \in Nat, NEW n \in Nat, m <= n PROVE Load(m) <= Load(n)
    <2>1. n - m \in Nat /\ n = m + (n - m)
      BY <1>2
    <2>2. Work * (m + (n - m)) = Work * m + Work * (n - m) /\ Work * (n - m) \in Nat
      BY <1>1, <2>1
    <2> QED BY <1>1, <2>1, <2>2 DEF Load
  <1>3. \A n \in Nat : Load(n) \in Nat /\ Load(n + 1) = Load(n) + Work
    BY <1>1 DEF Load
  <1> QED BY <1>1, <1>2, <1>3 DEF Load

\* From when on time passes only with work: those before an action have
\* started by then, or the worker has just connected.
From(a) == IF connectedAt <= a.planned + MaxDelay THEN a.planned + MaxDelay ELSE connectedAt

\* The worker is free again, or the handler began.
Since == IF Busy THEN busySince ELSE now

\* How many are before the action at this place of the queue.
Place(n) == n - 1 + (IF hand = Nothing THEN 0 ELSE 1)

\* An action with so many before it, no more than when it was planned, which
\* leave it enough time.
Timely(a, before) ==
  /\ a.start <= a.planned + MaxDelay /\ a.planned <= now
  /\ before <= a.ahead
  /\ up => Since + Load(before) <= From(a) + Load(a.ahead)

InTime ==
  /\ hand # Nothing => Timely(hand, 0)
  /\ \A n \in 1 .. Len(queue) : Timely(queue[n], Place(n))

\* Actions are planned in the order they are carried out.
InOrder ==
  /\ hand # Nothing => \A n \in 1 .. Len(queue) : hand.planned <= queue[n].planned
  /\ \A m, n \in 1 .. Len(queue) : m <= n => queue[m].planned <= queue[n].planned

Bounded ==
  /\ Busy => busySince <= now /\ now <= busySince + Work
  /\ connectedAt <= now

IdleHand == hand = Nothing => busySince = Never

TimeInv == InTime /\ InOrder /\ Bounded /\ IdleHand

\* What the types say of an action.
LEMMA ActionTypes ==
  ASSUME NEW a \in Action
  PROVE  a.start \in Nat /\ a.planned \in Nat /\ a.ahead \in Nat
  BY DEF Action

LEMMA PlaceTypes ==
  ASSUME TypeOK
  PROVE  /\ now \in Nat /\ connectedAt \in Nat /\ Len(queue) \in Nat
         /\ \A n \in 1 .. Len(queue) : queue[n] \in Action /\ Place(n) \in Nat
         /\ hand # Nothing => hand \in Action /\ up
         /\ Busy => busySince \in Nat
  BY DEF TypeOK, Place, Busy

\* Time: a worker asleep wakes in time, one at work was there in time.
LEMMA TickKeepsTime ==
  ASSUME TypeOK, TimeInv, Tick
  PROVE  TimeInv'
  <1>1. now' = now + 1 /\ UNCHANGED <<hand, busySince, up, queue, connectedAt>> /\ Prompt
    BY DEF Tick, handVars
  <1>2. ASSUME NEW a \in Action, NEW before \in Nat, Timely(a, before),
               Asleep => hand.planned <= a.planned
        PROVE  Timely(a, before)'
    <2>1. CASE ~ up
      BY <1>1, <1>2, <2>1, PlaceTypes, ActionTypes DEF Timely
    <2>2. CASE Busy
      BY <1>1, <1>2, <2>2, PlaceTypes, ActionTypes DEF Timely, Since, Busy, From
    <2>3. CASE up /\ Asleep
      <3>1. /\ now < hand.start /\ hand.start <= hand.planned + MaxDelay
            /\ hand.start \in Nat /\ hand.planned \in Nat
        BY <1>1, <2>3, PlaceTypes, ActionTypes DEF Prompt, Asleep, TimeInv, InTime, Timely
      <3>2. now + 1 <= a.planned + MaxDelay
        BY <1>2, <2>3, <3>1, PlaceTypes, ActionTypes, TimeAssumption
      <3>3. From(a)' = From(a) /\ a.planned + MaxDelay <= From(a) /\ From(a) \in Nat
        BY <1>1, PlaceTypes, ActionTypes, TimeAssumption DEF From
      <3>4. Since' = now + 1
        BY <1>1, <2>3 DEF Since, Busy, Asleep
      <3>5. Load(before) <= Load(a.ahead) /\ Load(before) \in Nat /\ Load(a.ahead) \in Nat
        BY <1>2, Loads, ActionTypes DEF Timely
      <3>6. Since' + Load(before) <= From(a) + Load(a.ahead)
        BY <3>2, <3>3, <3>4, <3>5, PlaceTypes, ActionTypes, TimeAssumption
      <3> QED BY <1>1, <1>2, <3>3, <3>6, PlaceTypes, ActionTypes DEF Timely
    <2> QED BY <1>1, <2>1, <2>2, <2>3 DEF Prompt, Busy, Asleep
  <1>3. InTime'
    <2>1. hand # Nothing => Timely(hand, 0)'
      BY <1>1, <1>2, PlaceTypes, ActionTypes DEF TimeInv, InTime
    <2>2. \A n \in 1 .. Len(queue) : Timely(queue[n], Place(n))'
      BY <1>1, <1>2, PlaceTypes DEF TimeInv, InTime, InOrder, Asleep, Place
    <2> QED BY <1>1, <2>1, <2>2 DEF InTime
  <1>4. InOrder' /\ Bounded' /\ IdleHand'
    BY <1>1, PlaceTypes, TimeAssumption
       DEF TimeInv, InOrder, Bounded, IdleHand, Prompt, Busy, Asleep
  <1> QED BY <1>3, <1>4 DEF TimeInv

\* The time that those before an action take only shrinks.
LEMMA Fewer ==
  ASSUME NEW a \in Action, NEW m \in Nat, NEW n \in Nat, m <= n, n <= a.ahead
  PROVE  Load(m) <= Load(n) /\ Load(n) <= Load(a.ahead)
         /\ Load(m) \in Nat /\ Load(n) \in Nat /\ Load(a.ahead) \in Nat
  BY Loads, ActionTypes

\* An action planned now, with so many before it, is in time.
LEMMA NewInTime ==
  ASSUME TypeOK, TimeInv, UNCHANGED <<now, up, hand, busySince, connectedAt>>,
         NEW a \in Action, a.planned = now, a.start <= now + MaxDelay, NEW n \in Nat, a.ahead = n
  PROVE  Timely(a, n)'
  <1>1. From(a)' \in Nat /\ now <= From(a)'
    BY PlaceTypes, TimeAssumption DEF From
  <1>2. Since' \in Nat /\ Since' <= now
    BY PlaceTypes DEF TimeInv, Bounded, Since, Busy
  <1>3. Load(n) \in Nat
    BY Loads
  <1> QED BY <1>1, <1>2, <1>3, PlaceTypes DEF Timely

\* Actions added at the end of the queue.
LEMMA AddKeepsTime ==
  ASSUME TypeOK, TimeInv, UNCHANGED <<now, up, hand, busySince, connectedAt>>,
         NEW new \in Seq(Action), queue' = queue \o new,
         \A n \in 1 .. Len(new) : /\ new[n].start <= now + MaxDelay /\ new[n].planned = now
                                  /\ new[n].ahead = Before + n - 1
  PROVE  TimeInv'
  <1>1. /\ Len(queue') = Len(queue) + Len(new) /\ Len(queue) \in Nat /\ Len(new) \in Nat
        /\ \A n \in 1 .. Len(queue) : queue'[n] = queue[n]
        /\ \A n \in 1 .. Len(new) : queue'[Len(queue) + n] = new[n] /\ new[n] \in Action
    BY DEF TypeOK
  <1>2. \A n \in 1 .. Len(queue') :
          n \in 1 .. Len(queue) \/ \E k \in 1 .. Len(new) : n = Len(queue) + k
    <2> TAKE n \in 1 .. Len(queue')
    <2>1. CASE n <= Len(queue)
      BY <1>1, <2>1
    <2>2. CASE n > Len(queue)
      <3>1. n - Len(queue) \in 1 .. Len(new) /\ n = Len(queue) + (n - Len(queue))
        BY <1>1, <2>2
      <3> QED BY <3>1
    <2> QED BY <1>1, <2>1, <2>2
  <1>3. ASSUME NEW n \in 1 .. Len(queue) PROVE Timely(queue[n], Place(n))'
    <2>1. Timely(queue[n], Place(n)) /\ queue'[n] = queue[n]
      BY <1>1 DEF TimeInv, InTime
    <2> QED BY <2>1 DEF Timely, Since, Busy, From, Place
  <1>4. ASSUME NEW k \in 1 .. Len(new), NEW n, n = Len(queue) + k
        PROVE  Timely(queue[n], Place(n))'
    <2>1. queue'[n] = new[k] /\ new[k] \in Action
      BY <1>1, <1>4
    <2>2. Before + k - 1 \in Nat /\ Place(n)' = Before + k - 1
      BY <1>1, <1>4, BeforeTypes DEF Place, Before
    <2>3. PICK m \in Nat : m = Before + k - 1
      BY <2>2
    <2>4. new[k].ahead = m
      BY <2>3
    <2>5. Timely(new[k], m)'
      BY <2>1, <2>4, NewInTime
    <2> QED BY <2>1, <2>2, <2>3, <2>5 DEF Timely
  <1>5. InTime'
    <2>1. hand' # Nothing => Timely(hand, 0)'
      BY DEF TimeInv, InTime, Timely, Since, Busy, From
    <2> QED BY <1>1, <1>2, <1>3, <1>4, <2>1 DEF InTime
  <1>6. InOrder'
    <2>1. \A n \in 1 .. Len(queue) : queue[n].planned <= now /\ queue[n].planned \in Nat
      BY PlaceTypes, ActionTypes DEF TimeInv, InTime, Timely
    <2>2. hand # Nothing => hand.planned <= now /\ hand.planned \in Nat
      BY PlaceTypes, ActionTypes DEF TimeInv, InTime, Timely
    <2>3. ASSUME hand # Nothing, NEW n \in 1 .. Len(queue')
          PROVE  hand.planned <= queue'[n].planned
      <3>1. CASE n \in 1 .. Len(queue)
        BY <1>1, <2>3, <3>1 DEF TimeInv, InOrder
      <3>2. CASE n \notin 1 .. Len(queue)
        <4>1. queue'[n].planned = now
          BY <1>1, <1>2, <3>2
        <4> QED BY <2>2, <2>3, <4>1
      <3> QED BY <3>1, <3>2
    <2>4. ASSUME NEW m \in 1 .. Len(queue'), NEW n \in 1 .. Len(queue'), m <= n
          PROVE  queue'[m].planned <= queue'[n].planned
      <3>1. CASE n \in 1 .. Len(queue)
        BY <1>1, <2>4, <3>1 DEF TimeInv, InOrder
      <3>2. CASE n \notin 1 .. Len(queue)
        <4>1. queue'[n].planned = now
          BY <1>1, <1>2, <3>2
        <4>2. queue'[m].planned <= now
          <5>1. CASE m \in 1 .. Len(queue)
            BY <1>1, <2>1, <5>1
          <5>2. CASE m \notin 1 .. Len(queue)
            <6>1. queue'[m].planned = now
              BY <1>1, <1>2, <5>2
            <6> QED BY <6>1, PlaceTypes
          <5> QED BY <5>1, <5>2
        <4> QED BY <4>1, <4>2
      <3> QED BY <3>1, <3>2
    <2> QED BY <2>3, <2>4 DEF InOrder
  <1>7. Bounded' /\ IdleHand'
    BY DEF TimeInv, Bounded, Busy, IdleHand
  <1> QED BY <1>5, <1>6, <1>7 DEF TimeInv

LEMMA PlannersKeepTime ==
  ASSUME TypeOK, TimeInv, PlanWarmup \/ ColdPlanned
  PROVE  TimeInv'
  <1>1. UNCHANGED <<now, up, hand, busySince, connectedAt>>
    BY DEF PlanWarmup, ColdPlanned, handVars
  <1>2. CASE PlanWarmup
    <2>1. PICK useBot \in BOOLEAN, c \in Jitter, d \in Nat, i \in Nat :
            /\ c \in Nat /\ c <= MaxDelay /\ d <= MaxDelay /\ i <= MaxDelay
            /\ queue' = queue \o Round(useBot, c, d, i)
      BY <1>2, PlanStep
    <2>2. PICK new \in Seq(Action) : new = Round(useBot, c, d, i)
      BY <2>1, RoundTypes
    <2>3. \A n \in 1 .. Len(new) : /\ new[n].start \in {now + c, now + d, now + i}
                                   /\ new[n].planned = now /\ new[n].ahead = Before + n - 1
      <3>1. c \in Nat
        BY <2>1
      <3> QED BY <2>2, <3>1, RoundTypes
    <2>4. \A x \in {now + c, now + d, now + i} : x <= now + MaxDelay
      BY <2>1, PlaceTypes, TimeAssumption
    <2> QED BY <1>1, <2>1, <2>2, <2>3, <2>4, AddKeepsTime
  <1>3. CASE ColdPlanned
    <2>1. PICK delay \in ColdDelays : queue' = Append(queue, Planned("cold", delay, Before))
      BY <1>3 DEF ColdPlanned
    <2>2. PICK a \in Action : a = Planned("cold", delay, Before)
      <3>1. Planned("cold", delay, Before) \in Action
        BY BeforeTypes, TimeAssumption DEF TypeOK, Planned, Action, Kind
      <3> QED BY <3>1
    <2>3. a.start <= now + MaxDelay /\ a.planned = now /\ a.ahead = Before
      BY <2>2, PlaceTypes, TimeAssumption DEF Planned
    <2>4. PICK new \in Seq(Action) : new = <<a>>
      <3>1. <<a>> \in Seq(Action)
        OBVIOUS
      <3> QED BY <3>1
    <2>5. queue' = queue \o new /\ Len(new) = 1 /\ new[1] = a
      BY <2>1, <2>2, <2>4 DEF TypeOK
    <2>6. Before + 1 - 1 = Before
      BY BeforeTypes
    <2>7. \A n \in 1 .. Len(new) : /\ new[n].start <= now + MaxDelay /\ new[n].planned = now
                                   /\ new[n].ahead = Before + n - 1
      BY <2>3, <2>5, <2>6
    <2> QED BY <1>1, <2>5, <2>7, AddKeepsTime
  <1> QED BY <1>2, <1>3

\* The head of the queue is taken in hand: everyone keeps as many before it.
LEMMA NextActionKeepsTime ==
  ASSUME TypeOK, TimeInv, NextAction
  PROVE  TimeInv'
  <1>1. /\ up /\ hand = Nothing /\ queue # <<>> /\ hand' = queue[1]
        /\ Len(queue') = Len(queue) - 1 /\ Len(queue) \in Nat /\ Len(queue) >= 1
        /\ \A n \in 1 .. Len(queue') : queue'[n] = queue[n + 1] /\ n + 1 \in 1 .. Len(queue)
        /\ UNCHANGED <<now, up, busySince, connectedAt>>
    BY DEF TypeOK, NextAction
  <1>2. hand' # Nothing /\ Place(1) = 0 /\ 1 \in 1 .. Len(queue)
    BY <1>1, PlaceTypes, NothingApart DEF Place
  <1>3. busySince = Never
    BY <1>1 DEF TimeInv, IdleHand
  <1>4. Since = now /\ Since' = now
    BY <1>1, <1>3 DEF Since, Busy
  <1>5. ASSUME NEW a \in Action, NEW m \in Nat, Timely(a, m)
        PROVE  Timely(a, m)'
    BY <1>1, <1>4, <1>5 DEF Timely, From
  <1>6. Timely(hand, 0)'
    <2>1. Timely(queue[1], 0) /\ queue[1] \in Action
      BY <1>2, PlaceTypes DEF TimeInv, InTime
    <2> QED BY <1>1, <1>5, <2>1
  <1>7. ASSUME NEW n \in 1 .. Len(queue')
        PROVE  Timely(queue[n], Place(n))'
    <2>1. PICK a \in Action, m \in Nat : a = queue[n + 1] /\ m = Place(n + 1)
      BY <1>1, PlaceTypes
    <2>2. Timely(a, m)'
      BY <1>1, <1>5, <2>1 DEF TimeInv, InTime
    <2>3. queue'[n] = a /\ Place(n)' = m
      BY <1>1, <1>2, <2>1 DEF Place
    <2> QED BY <2>2, <2>3 DEF Timely
  <1>8. InTime'
    BY <1>6, <1>7 DEF InTime
  <1>9. InOrder'
    <2>1. \A m, n \in 1 .. Len(queue') : m <= n => queue'[m].planned <= queue'[n].planned
      BY <1>1 DEF TimeInv, InOrder
    <2>2. \A n \in 1 .. Len(queue') : hand'.planned <= queue'[n].planned
      BY <1>1, <1>2 DEF TimeInv, InOrder
    <2> QED BY <2>1, <2>2 DEF InOrder
  <1>10. Bounded' /\ IdleHand'
    BY <1>1, <1>2, <1>3 DEF TimeInv, Bounded, Busy, IdleHand
  <1> QED BY <1>8, <1>9, <1>10 DEF TimeInv

\* A poll is planned when there is nothing else.
LEMMA PollKeepsTime ==
  ASSUME TypeOK, TimeInv, Poll
  PROVE  TimeInv'
  <1>1. /\ up /\ hand = Nothing /\ queue = <<>> /\ queue' = <<>> /\ Len(queue') = 0
        /\ UNCHANGED <<now, up, busySince, connectedAt>> /\ hand' = Planned("poll", 0, 0)
    BY DEF Poll
  <1>2. /\ hand' \in Action /\ hand'.start = now /\ hand'.planned = now /\ hand'.ahead = 0
    BY <1>1, PlaceTypes DEF Planned, Action, Kind
  <1>3. busySince = Never
    BY <1>1 DEF TimeInv, IdleHand
  <1>4. Since' = now
    BY <1>1, <1>3 DEF Since, Busy
  <1>5. Timely(hand, 0)'
    <2>1. From(hand)' \in Nat /\ now <= From(hand)'
      BY <1>1, <1>2, PlaceTypes, TimeAssumption DEF From
    <2>2. Load(0) = 0
      BY Loads
    <2> QED BY <1>1, <1>2, <1>4, <2>1, <2>2, PlaceTypes, TimeAssumption DEF Timely
  <1>6. InTime' /\ InOrder'
    BY <1>1, <1>5 DEF InTime, InOrder
  <1>7. Bounded' /\ IdleHand'
    BY <1>1, <1>3, <1>2, NothingApart DEF TimeInv, Bounded, Busy, IdleHand
  <1> QED BY <1>6, <1>7 DEF TimeInv

LEMMA BeginKeepsTime ==
  ASSUME TypeOK, TimeInv, Begin
  PROVE  TimeInv'
  <1>1. /\ hand # Nothing /\ busySince = Never /\ busySince' = now
        /\ UNCHANGED <<now, up, hand, queue, connectedAt>>
    BY DEF Begin, Asleep
  <1>2. Since = now /\ Since' = now
    BY <1>1, PlaceTypes DEF Since, Busy, Never
  <1>3. InTime'
    BY <1>1, <1>2 DEF TimeInv, InTime, Timely, From, Place
  <1>4. InOrder' /\ Bounded' /\ IdleHand'
    BY <1>1, PlaceTypes, TimeAssumption DEF TimeInv, InOrder, Bounded, Busy, IdleHand
  <1> QED BY <1>3, <1>4 DEF TimeInv

\* A handler is done within Work of its beginning: one fewer is before those
\* in the queue.
LEMMA FinishKeepsTime ==
  ASSUME TypeOK, TimeInv, Finish
  PROVE  TimeInv'
  <1>1. /\ Busy /\ hand # Nothing /\ hand' = Nothing /\ busySince' = Never
        /\ UNCHANGED <<now, up, queue, connectedAt>> /\ up
    BY PlaceTypes DEF Finish, Busy
  <1>2. Since = busySince /\ Since' = now /\ now <= busySince + Work
    BY <1>1 DEF Since, Busy, TimeInv, Bounded
  <1>3. ASSUME NEW n \in 1 .. Len(queue)
        PROVE  Timely(queue[n], Place(n))'
    <2>1. PICK a \in Action, m \in Nat : a = queue[n] /\ m + 1 = Place(n)
      <3>1. Place(n) = n /\ n - 1 \in Nat /\ (n - 1) + 1 = n
        BY <1>1, PlaceTypes DEF Place
      <3> QED BY <3>1, PlaceTypes
    <2>2. Timely(a, m + 1)
      BY <2>1 DEF TimeInv, InTime
    <2>3. From(a)' = From(a) /\ From(a) \in Nat
      BY <1>1, PlaceTypes, ActionTypes, TimeAssumption DEF From
    <2>4. Load(m + 1) = Load(m) + Work /\ Load(m) \in Nat /\ Load(a.ahead) \in Nat
      BY Loads, ActionTypes
    <2>5. now + Load(m) <= From(a) + Load(a.ahead)
      BY <1>1, <1>2, <2>2, <2>3, <2>4, PlaceTypes, TimeAssumption DEF Timely
    <2>6. Place(n)' = m
      BY <1>1, <2>1 DEF Place
    <2>7. Timely(a, m)'
      BY <1>1, <1>2, <2>2, <2>3, <2>5, ActionTypes DEF Timely
    <2> QED BY <1>1, <2>1, <2>6, <2>7 DEF Timely
  <1>4. InTime'
    BY <1>1, <1>3 DEF InTime
  <1>5. InOrder' /\ Bounded' /\ IdleHand'
    BY <1>1 DEF TimeInv, InOrder, Bounded, Busy, IdleHand
  <1> QED BY <1>4, <1>5 DEF TimeInv

\* The worker goes: what was in hand is before no one any more.
LEMMA EndKeepsTime ==
  ASSUME TypeOK, TimeInv, WorkerEnds
  PROVE  TimeInv'
  <1>1. /\ ~ up' /\ hand' = Nothing /\ busySince' = Never /\ UNCHANGED <<now, queue, connectedAt>>
    BY DEF WorkerEnds
  <1>2. ASSUME NEW n \in 1 .. Len(queue)
        PROVE  Timely(queue[n], Place(n))'
    <2>1. Timely(queue[n], Place(n)) /\ Place(n) \in Nat /\ queue[n].ahead \in Nat
      BY PlaceTypes, ActionTypes DEF TimeInv, InTime
    <2>2. Place(n)' <= Place(n) /\ Place(n)' \in Nat
      BY <1>1, PlaceTypes DEF Place
    <2> QED BY <1>1, <2>1, <2>2 DEF Timely
  <1>3. InTime'
    BY <1>1, <1>2 DEF InTime
  <1>4. InOrder' /\ Bounded' /\ IdleHand'
    BY <1>1 DEF TimeInv, InOrder, Bounded, Busy, IdleHand
  <1> QED BY <1>3, <1>4 DEF TimeInv

\* The worker is back: time is counted from now on.
LEMMA ConnectKeepsTime ==
  ASSUME TypeOK, TimeInv, Connect
  PROVE  TimeInv'
  <1>1. /\ hand = Nothing /\ busySince = Never /\ connectedAt' = now
        /\ UNCHANGED <<now, queue, hand, busySince>>
    BY PlaceTypes DEF Connect, handVars, TimeInv, IdleHand
  <1>2. ASSUME NEW n \in 1 .. Len(queue)
        PROVE  Timely(queue[n], Place(n))'
    <2>1. PICK a \in Action, m \in Nat : a = queue[n] /\ m = Place(n)
      BY PlaceTypes
    <2>2. Timely(a, m)
      BY <2>1 DEF TimeInv, InTime
    <2>3. From(a)' \in Nat /\ now <= From(a)' /\ Since' = now
      BY <1>1, PlaceTypes, ActionTypes, TimeAssumption DEF From, Since, Busy
    <2>4. Load(m) <= Load(a.ahead) /\ Load(m) \in Nat /\ Load(a.ahead) \in Nat
      BY <2>2, Loads, ActionTypes DEF Timely
    <2>5. Timely(a, m)'
      BY <1>1, <2>2, <2>3, <2>4, PlaceTypes DEF Timely
    <2> QED BY <1>1, <2>1, <2>5 DEF Timely, Place
  <1>3. InTime'
    BY <1>1, <1>2 DEF InTime
  <1>4. InOrder' /\ Bounded' /\ IdleHand'
    BY <1>1, PlaceTypes DEF TimeInv, InOrder, Bounded, Busy, IdleHand
  <1> QED BY <1>3, <1>4 DEF TimeInv

\* With the first queue of a process.
LEMMA StartInTime ==
  ASSUME NEW time \in Nat, NEW q \in InitialQueues(time)
  PROVE  /\ queue' = q /\ now' = time /\ connectedAt' = time /\ ~ up' /\ hand' = Nothing
            /\ busySince' = Never => TimeInv'
         /\ queue = q /\ now = time /\ connectedAt = time /\ ~ up /\ hand = Nothing
            /\ busySince = Never => TimeInv
  <1>1. /\ q \in Seq(Action) /\ Len(q) = 1 /\ q[1].ahead = 0 /\ q[1].planned = time
        /\ q[1].start <= time + MaxDelay
    BY InitialTypes
  <1>2. \A n \in 1 .. Len(q) : n = 1
    BY <1>1
  <1>3. ASSUME queue' = q, now' = time, connectedAt' = time, ~ up', hand' = Nothing,
               busySince' = Never
        PROVE  TimeInv'
    <2>1. Timely(q[1], 0)' /\ Place(1)' = 0
      BY <1>1, <1>3 DEF Timely, Place
    <2>2. InTime' /\ InOrder'
      BY <1>1, <1>2, <1>3, <2>1 DEF InTime, InOrder, Timely
    <2> QED BY <1>3, <2>2 DEF TimeInv, Bounded, Busy, IdleHand
  <1>4. ASSUME queue = q, now = time, connectedAt = time, ~ up, hand = Nothing, busySince = Never
        PROVE  TimeInv
    <2>1. Timely(q[1], 0) /\ Place(1) = 0
      BY <1>1, <1>4 DEF Timely, Place
    <2>2. InTime /\ InOrder
      BY <1>1, <1>2, <1>4, <2>1 DEF InTime, InOrder, Timely
    <2> QED BY <1>4, <2>2 DEF TimeInv, Bounded, Busy, IdleHand
  <1> QED BY <1>3, <1>4

LEMMA TimeKept ==
  ASSUME TypeOK, TimeInv, [Next]_vars
  PROVE  TimeInv'
  <1>1. CASE UNCHANGED <<now, up, queue, hand, busySince, connectedAt>>
    BY <1>1 DEF TimeInv, InTime, InOrder, Bounded, Busy, IdleHand, Timely, Place, Since, From
  <1>2. CASE Restart
    BY <1>2, StartInTime DEF TypeOK, Restart
  <1> QED BY <1>1, <1>2, PlannersKeepTime, NextActionKeepsTime, PollKeepsTime, BeginKeepsTime,
             FinishKeepsTime, EndKeepsTime, ConnectKeepsTime, TickKeepsTime
          DEF Next, PassOver, vars, handVars

\* However many actions are planned, and whenever the worker comes and goes,
\* an action begins no later than the longest delay and the work before it.
THEOREM PunctualHolds == Spec => []Punctual
  <1>1. ASSUME Init PROVE TypeOK /\ TimeInv
    BY <1>1, InitTypes, StartInTime DEF Init
  <1>2. ASSUME TypeOK, TimeInv, [Next]_vars PROVE TypeOK' /\ TimeInv'
    BY <1>2, TypesKept, TimeKept
  <1>3. ASSUME TypeOK, TimeInv PROVE Punctual
    <2>1. ASSUME Busy
          PROVE  busySince <= From(hand) + Work * hand.ahead
      <3>1. Timely(hand, 0) /\ hand \in Action /\ up /\ Since = busySince
        BY <1>3, <2>1, PlaceTypes DEF TimeInv, InTime, Busy, Since
      <3>2. Load(0) = 0 /\ busySince \in Nat
        BY <1>3, <2>1, Loads, PlaceTypes
      <3> QED BY <3>1, <3>2 DEF Timely, Load
    <2> QED BY <2>1 DEF Punctual, From
  <1> QED BY <1>1, <1>2, <1>3, PTL DEF Spec

-----------------------------------------------------------------------------
(* The cap when reads happen late.                                         *)

\* n hours, and the reads the cap allows in n hours.
Hours(n) == n * Hour
Reads(n) == MaxCap * n

\* The dialog reads planned for the n hours after from.
Span(from, n) == {a \in planned : from < a.start /\ a.start <= from + Hours(n)}

\* The cap over any number of hours.
SpanInv == \A from \in Int, n \in Nat : Cardinality(Span(from, n)) <= Reads(n)

\* A round later than all before it is the next one.
RoundsApart == \A a \in planned : a.planned < nextRound

IsRead(a) == \E r \in read : r.action = a

\* A dialog read that waits has been planned and not been carried out; no two
\* of them are the same.
Waiting ==
  /\ \A n \in 1 .. Len(queue) :
       queue[n].kind = "dialog" => queue[n] \in planned /\ ~ IsRead(queue[n])
  /\ \A m, n \in 1 .. Len(queue) :
       queue[n].kind = "dialog" /\ queue[m] = queue[n] => m = n
  /\ hand.kind = "dialog" =>
       /\ hand \in planned
       /\ Asleep => ~ IsRead(hand)
       /\ \A n \in 1 .. Len(queue) : queue[n] # hand

\* A dialog read is carried out once, and not before its start.
ReadOnce ==
  /\ \A r \in read : r.action \in planned /\ r.action.start <= r.at
  /\ \A r, q \in read : r.action = q.action => r = q

ReadInv == SpanInv /\ RoundsApart /\ Waiting /\ ReadOnce

LEMMA HoursTypes ==
  /\ Hours(0) = 0 /\ Reads(0) = 0
  /\ \A n \in Nat : /\ Hours(n) \in Nat /\ Hours(n + 1) = Hours(n) + Hour
                    /\ Reads(n) \in Nat /\ Reads(n + 1) = Reads(n) + MaxCap
  <1>1. Hour \in Nat /\ MaxCap \in Nat
    BY TimeAssumption, CapAssumption
  <1>2. Hours(0) = 0 /\ Reads(0) = 0
    BY <1>1 DEF Hours, Reads
  <1>3. ASSUME NEW n \in Nat
        PROVE  /\ Hours(n) \in Nat /\ Hours(n + 1) = Hours(n) + Hour
               /\ Reads(n) \in Nat /\ Reads(n + 1) = Reads(n) + MaxCap
    BY <1>1 DEF Hours, Reads
  <1> QED BY <1>2, <1>3

LEMMA SpanFinite ==
  ASSUME TypeOK, NEW from \in Int, NEW n \in Nat
  PROVE  /\ Span(from, n) \subseteq planned /\ IsFiniteSet(Span(from, n))
         /\ Cardinality(Span(from, n)) \in Nat
  <1>1. Span(from, n) \in SUBSET planned
    BY DEF Span
  <1> QED BY <1>1, FS_Subset, FS_CardinalityType DEF TypeOK

\* Of a span with the new read, what the history no longer has is in a span an
\* hour shorter.
LEMMA PlanKeepsSpan ==
  ASSUME TypeOK, CapInv, SpanInv, PlanWarmup
  PROVE  SpanInv'
  <1>1. PICK useBot \in BOOLEAN, d \in Nat :
          /\ useBot => Cardinality(Recent) < MaxCap
          /\ planned' = planned \cup DialogIn(useBot, d)
    BY PlanStep
  <1>2. now \in Nat /\ now' = now
    BY DEF TypeOK, PlanWarmup
  <1> DEFINE dialog == Planned("dialog", d, Before + 1)
  <1>3. dialog.start = now + d
    BY DEF Planned
  <1>4. ASSUME NEW from \in Int, NEW n \in Nat
        PROVE  Cardinality(Span(from, n)') <= Reads(n)
    <2>1. CASE useBot /\ from < dialog.start /\ dialog.start <= from + Hours(n)
      <3>1. n # 0
        BY <1>2, <1>3, <2>1, HoursTypes
      <3>2. PICK m \in Nat : n = m + 1
        <4>1. n - 1 \in Nat /\ n = (n - 1) + 1
          BY <3>1
        <4> QED BY <4>1
      <3>3. /\ Hours(n) = Hours(m) + Hour /\ Reads(n) = Reads(m) + MaxCap
            /\ Hours(m) \in Nat /\ Reads(m) \in Nat
        BY <3>2, HoursTypes
      <3>4. ASSUME NEW a \in Span(from, n), a \notin Recent
            PROVE  a \in Span(from, m)
        <4>1. a \in planned /\ a.start \in Nat /\ from < a.start
          BY DEF Span, TypeOK, Action
        <4>2. ~ (now - a.start < Hour)
          BY <3>4, <4>1 DEF CapInv, Recent
        <4>3. a.start <= from + Hours(m)
          BY <1>2, <1>3, <2>1, <3>3, <4>1, <4>2, TimeAssumption
        <4> QED BY <4>1, <4>3 DEF Span
      <3>5. Span(from, n)' \in SUBSET ((Recent \cup Span(from, m)) \cup {dialog})
        BY <1>1, <3>4 DEF Span, DialogIn
      <3>6. /\ IsFiniteSet(Recent) /\ Cardinality(Recent) \in Nat
            /\ IsFiniteSet(Span(from, m)) /\ Cardinality(Span(from, m)) \in Nat
        BY <3>2, RecentFinite, SpanFinite, FS_CardinalityType
      <3>7. /\ IsFiniteSet(Recent \cup Span(from, m))
            /\ Cardinality(Recent \cup Span(from, m)) \in Nat
            /\ Cardinality(Recent \cup Span(from, m))
                 <= Cardinality(Recent) + Cardinality(Span(from, m))
        BY <3>6, UnionBound
      <3>8. /\ Cardinality(Span(from, n)') \in Nat
            /\ Cardinality(Span(from, n)') <= Cardinality(Recent \cup Span(from, m)) + 1
        BY <3>5, <3>7, OneMoreBound
      <3>9. Cardinality(Span(from, m)) <= Reads(m)
        BY <3>2 DEF SpanInv
      <3> QED BY <1>1, <2>1, <3>3, <3>6, <3>7, <3>8, <3>9, CapAssumption
    <2>2. CASE ~ (useBot /\ from < dialog.start /\ dialog.start <= from + Hours(n))
      <3>1. Span(from, n)' = Span(from, n)
        BY <1>1, <2>2 DEF Span, DialogIn
      <3> QED BY <3>1 DEF SpanInv
    <2> QED BY <2>1, <2>2
  <1> QED BY <1>4 DEF SpanInv

LEMMA NoSpan ==
  /\ planned = {} => SpanInv
  /\ planned' = {} => SpanInv'
  <1>1. Cardinality({}) = 0
    BY FS_EmptySet
  <1>2. \A n \in Nat : Reads(n) \in Nat
    BY HoursTypes
  <1>3. ASSUME planned = {}, NEW from \in Int, NEW n \in Nat
        PROVE  Cardinality(Span(from, n)) <= Reads(n)
    <2>1. Span(from, n) = {}
      BY <1>3 DEF Span
    <2> QED BY <1>1, <1>2, <2>1
  <1>4. ASSUME planned' = {}, NEW from \in Int, NEW n \in Nat
        PROVE  Cardinality(Span(from, n)') <= Reads(n)
    <2>1. Span(from, n)' = {}
      BY <1>4 DEF Span
    <2> QED BY <1>1, <1>2, <2>1
  <1> QED BY <1>3, <1>4 DEF SpanInv

LEMMA SpanKept ==
  ASSUME TypeOK, CapInv, SpanInv, [Next]_vars
  PROVE  SpanInv'
  <1>1. CASE UNCHANGED planned
    BY <1>1 DEF SpanInv, Span
  <1>2. CASE Restart
    BY <1>2, NoSpan DEF Restart
  <1> QED BY <1>1, <1>2, PlanKeepsSpan
          DEF Next, PassOver, ColdPlanned, NextAction, Poll, Begin, Finish, WorkerEnds, Connect,
              Tick, vars, plannerVars

\* A round has one dialog read at most: the one that is added to the history.
LEMMA RoundDialogs ==
  ASSUME TypeOK, NEW useBot \in BOOLEAN, NEW c \in Nat, NEW d \in Nat, NEW i \in Nat
  PROVE  /\ \A n \in 1 .. Len(Round(useBot, c, d, i)) :
              Round(useBot, c, d, i)[n].kind = "dialog"
                => n = 2 /\ Round(useBot, c, d, i)[n] \in DialogIn(useBot, d)
         /\ \A a \in DialogIn(useBot, d) : a.planned = now
  <1> DEFINE ch == Planned("channel", c, Before)
             dialog == Planned("dialog", d, Before + 1)
             idle(n) == Planned("idle", i, Before + n)
             round == Round(useBot, c, d, i)
  <1>1. /\ ch \in Action /\ ch.kind = "channel"
        /\ dialog \in Action /\ dialog.planned = now
        /\ \A n \in {1, 2} : idle(n) \in Action /\ idle(n).kind = "idle"
    BY BeforeTypes DEF TypeOK, Planned, Action, Kind
  <1>2. \A a \in DialogIn(useBot, d) : a = dialog
    BY DEF DialogIn
  <1>3. CASE useBot
    <2>1. round = <<ch, dialog, idle(2)>> /\ DialogIn(useBot, d) = {dialog}
      BY <1>3 DEF Round, DialogIn
    <2> HIDE DEF ch, dialog, idle, round
    <2>2. Len(round) = 3 /\ round[1] = ch /\ round[2] = dialog /\ round[3] = idle(2)
      BY <1>1, <2>1
    <2>3. ASSUME NEW n \in 1 .. Len(round), round[n].kind = "dialog"
          PROVE  n = 2 /\ round[n] = dialog
      <3>1. n = 1 \/ n = 2 \/ n = 3
        BY <2>2
      <3> QED BY <1>1, <2>2, <2>3, <3>1
    <2> QED BY <1>1, <1>2, <2>1, <2>3 DEF round
  <1>4. CASE ~ useBot
    <2>1. round = <<ch, idle(1)>> /\ DialogIn(useBot, d) = {}
      BY <1>4 DEF Round, DialogIn
    <2> HIDE DEF ch, dialog, idle, round
    <2>2. Len(round) = 2 /\ round[1] = ch /\ round[2] = idle(1)
      BY <1>1, <2>1
    <2>3. \A n \in 1 .. Len(round) : n = 1 \/ n = 2
      BY <2>2
    <2> QED BY <1>1, <1>2, <2>2, <2>3 DEF round
  <1> QED BY <1>3, <1>4

\* Dialog reads that were never planned join the queue.
LEMMA AddKeepsWaiting ==
  ASSUME TypeOK, Waiting, ReadOnce, UNCHANGED <<hand, busySince, read>>,
         planned \subseteq planned',
         NEW new \in Seq(Action), queue' = queue \o new,
         \A n \in 1 .. Len(new) :
           new[n].kind = "dialog" => n = 2 /\ new[n] \in planned' /\ new[n] \notin planned
  PROVE  Waiting' /\ ReadOnce'
  <1>1. /\ Len(queue') = Len(queue) + Len(new) /\ Len(queue) \in Nat /\ Len(new) \in Nat
        /\ \A n \in 1 .. Len(queue) : queue'[n] = queue[n]
        /\ \A n \in 1 .. Len(new) : queue'[Len(queue) + n] = new[n] /\ new[n] \in Action
    BY DEF TypeOK
  <1>2. ASSUME NEW n \in 1 .. Len(queue'), queue'[n].kind = "dialog"
        PROVE  \/ n \in 1 .. Len(queue) /\ queue'[n] = queue[n] /\ queue'[n] \in planned
               \/ n = Len(queue) + 2 /\ queue'[n] \in planned' /\ queue'[n] \notin planned
    <2>1. CASE n <= Len(queue)
      BY <1>1, <1>2, <2>1 DEF Waiting
    <2>2. CASE n > Len(queue)
      <3>1. PICK k \in 1 .. Len(new) : n = Len(queue) + k
        <4>1. n - Len(queue) \in 1 .. Len(new) /\ n = Len(queue) + (n - Len(queue))
          BY <1>1, <2>2
        <4> QED BY <4>1
      <3> QED BY <1>1, <1>2, <3>1
    <2> QED BY <1>1, <2>1, <2>2
  <1>3. ASSUME NEW a, a \notin planned PROVE ~ IsRead(a)' /\ (hand.kind = "dialog" => a # hand)
    BY <1>3 DEF Waiting, ReadOnce, IsRead
  <1>4. \A n \in 1 .. Len(queue') :
          queue'[n].kind = "dialog" => queue'[n] \in planned' /\ ~ IsRead(queue[n])'
    BY <1>2, <1>3 DEF Waiting, IsRead
  <1>5. ASSUME NEW m \in 1 .. Len(queue'), NEW n \in 1 .. Len(queue'),
               queue'[n].kind = "dialog", queue'[m] = queue'[n]
        PROVE  m = n
    BY <1>2, <1>5 DEF Waiting
  <1>6. hand'.kind = "dialog" => \A n \in 1 .. Len(queue') : queue'[n] # hand'
    BY <1>2, <1>3 DEF Waiting
  <1>7. hand'.kind = "dialog" => hand' \in planned' /\ (Asleep' => ~ IsRead(hand)')
    BY DEF Waiting, IsRead, Asleep
  <1> QED BY <1>4, <1>5, <1>6, <1>7 DEF Waiting, ReadOnce

\* The read of a new round is not one of those planned before.
LEMMA PlanKeepsReads ==
  ASSUME TypeOK, RoundsApart, Waiting, ReadOnce, PlanWarmup
  PROVE  RoundsApart' /\ Waiting' /\ ReadOnce'
  <1>1. PICK useBot \in BOOLEAN, c \in Jitter, d \in Nat, i \in Nat :
          /\ c \in Nat /\ queue' = queue \o Round(useBot, c, d, i)
          /\ planned' = planned \cup DialogIn(useBot, d)
    BY PlanStep
  <1>2. /\ now >= nextRound /\ now \in Nat /\ nextRound \in Nat /\ UNCHANGED <<hand, busySince, read>>
        /\ \A a \in planned : a.planned \in Nat
    BY DEF TypeOK, Action, PlanWarmup, handVars
  <1>3. nextRound' \in Nat /\ nextRound' > now
    <2>1. \A gap \in DayGaps \cup NightGaps : gap \in Nat /\ gap > 0
      BY TimeAssumption
    <2> QED BY <1>2, <2>1 DEF PlanWarmup, SleepUntilNext
  <1>4. \A a \in DialogIn(useBot, d) : a.planned = now /\ a \notin planned
    BY <1>1, <1>2, RoundDialogs DEF RoundsApart
  <1>5. RoundsApart'
    BY <1>1, <1>2, <1>3, <1>4 DEF RoundsApart
  <1>6. PICK new \in Seq(Action) : new = Round(useBot, c, d, i)
    BY <1>1, RoundTypes
  <1>7. \A n \in 1 .. Len(new) :
          new[n].kind = "dialog" => n = 2 /\ new[n] \in planned' /\ new[n] \notin planned
    <2>1. \A n \in 1 .. Len(new) :
            new[n].kind = "dialog" => n = 2 /\ new[n] \in DialogIn(useBot, d)
      BY <1>1, <1>6, RoundDialogs
    <2> QED BY <1>1, <1>4, <2>1
  <1>8. queue' = queue \o new /\ planned \subseteq planned'
    BY <1>1, <1>6
  <1> QED BY <1>2, <1>5, <1>7, <1>8, AddKeepsWaiting

LEMMA ColdKeepsReads ==
  ASSUME TypeOK, RoundsApart, Waiting, ReadOnce, ColdPlanned
  PROVE  RoundsApart' /\ Waiting' /\ ReadOnce'
  <1>1. PICK delay \in ColdDelays : queue' = Append(queue, Planned("cold", delay, Before))
    BY DEF ColdPlanned
  <1>2. PICK a \in Action : a = Planned("cold", delay, Before) /\ a.kind = "cold"
    <2>1. Planned("cold", delay, Before) \in Action /\ Planned("cold", delay, Before).kind = "cold"
      BY BeforeTypes, TimeAssumption DEF TypeOK, Planned, Action, Kind
    <2> QED BY <2>1
  <1>3. PICK new \in Seq(Action) : new = <<a>>
    <2>1. <<a>> \in Seq(Action)
      OBVIOUS
    <2> QED BY <2>1
  <1>4. queue' = queue \o new /\ Len(new) = 1 /\ new[1] = a
    BY <1>1, <1>2, <1>3 DEF TypeOK
  <1>5. UNCHANGED <<hand, busySince, read, planned, nextRound>>
    BY DEF ColdPlanned, handVars, plannerVars
  <1>6. \A n \in 1 .. Len(new) : new[n].kind # "dialog"
    BY <1>2, <1>4
  <1>7. Waiting' /\ ReadOnce'
    BY <1>4, <1>5, <1>6, AddKeepsWaiting
  <1> QED BY <1>5, <1>7 DEF RoundsApart

\* The head of the queue was like no other action in it.
LEMMA NextActionKeepsReads ==
  ASSUME TypeOK, RoundsApart, Waiting, ReadOnce, NextAction
  PROVE  RoundsApart' /\ Waiting' /\ ReadOnce'
  <1>1. /\ queue # <<>> /\ hand' = queue[1] /\ UNCHANGED <<busySince, read, planned, nextRound>>
        /\ Len(queue') = Len(queue) - 1 /\ Len(queue) \in Nat /\ Len(queue) >= 1
        /\ \A n \in 1 .. Len(queue') : queue'[n] = queue[n + 1] /\ n + 1 \in 1 .. Len(queue)
    BY DEF TypeOK, NextAction, plannerVars
  <1>2. 1 \in 1 .. Len(queue) /\ \A n \in 1 .. Len(queue') : n \in Nat /\ n + 1 # 1
    BY <1>1
  <1>3. hand'.kind = "dialog" =>
          hand' \in planned' /\ ~ IsRead(hand)' /\ \A n \in 1 .. Len(queue') : queue'[n] # hand'
    BY <1>1, <1>2 DEF Waiting, IsRead
  <1>4. \A n \in 1 .. Len(queue') :
          queue'[n].kind = "dialog" => queue'[n] \in planned' /\ ~ IsRead(queue[n])'
    BY <1>1 DEF Waiting, IsRead
  <1>5. ASSUME NEW m \in 1 .. Len(queue'), NEW n \in 1 .. Len(queue'),
               queue'[n].kind = "dialog", queue'[m] = queue'[n]
        PROVE  m = n
    <2>1. m + 1 = n + 1
      BY <1>1, <1>5 DEF Waiting
    <2> QED BY <2>1
  <1> QED BY <1>1, <1>3, <1>4, <1>5 DEF RoundsApart, Waiting, ReadOnce

\* A read that begins has not been carried out, and waits no more.
LEMMA BeginKeepsReads ==
  ASSUME TypeOK, RoundsApart, Waiting, ReadOnce, Begin
  PROVE  RoundsApart' /\ Waiting' /\ ReadOnce'
  <1> DEFINE new == [action |-> hand, at |-> now]
  <1>1. /\ Asleep /\ now >= hand.start /\ UNCHANGED <<hand, queue, planned, nextRound>>
        /\ read' = IF hand.kind = "dialog" THEN read \cup {new} ELSE read
        /\ ~ Asleep'
    BY DEF TypeOK, Begin, Asleep, plannerVars, Never
  <1>2. \A a : IsRead(a)' => IsRead(a) \/ (hand.kind = "dialog" /\ a = hand)
    BY <1>1 DEF IsRead
  <1>3. Waiting'
    BY <1>1, <1>2 DEF Waiting
  <1>4. hand.start \in Nat /\ now \in Nat
    BY <1>1, PlaceTypes, ActionTypes DEF Asleep
  <1>5. ReadOnce'
    <2>1. CASE hand.kind = "dialog"
      <3>1. new.action = hand /\ new.at = now /\ hand \in planned /\ ~ IsRead(hand)
        BY <1>1, <2>1 DEF Waiting
      <3>2. \A r \in read : r.action # hand
        BY <3>1 DEF IsRead
      <3>3. \A r \in read' : r \in read \/ r = new
        BY <1>1
      <3>4. new.action.start <= new.at
        BY <1>1, <1>4, <3>1
      <3> QED BY <1>1, <3>1, <3>2, <3>3, <3>4 DEF ReadOnce
    <2>2. CASE hand.kind # "dialog"
      BY <1>1, <2>2 DEF ReadOnce
    <2> QED BY <2>1, <2>2
  <1> QED BY <1>1, <1>3, <1>5 DEF RoundsApart

LEMMA StartUnread ==
  ASSUME NEW time \in Nat, NEW q \in InitialQueues(time)
  PROVE  /\ queue = q /\ hand = Nothing /\ planned = {} /\ read = {} =>
              RoundsApart /\ Waiting /\ ReadOnce
         /\ queue' = q /\ hand' = Nothing /\ planned' = {} /\ read' = {} =>
              RoundsApart' /\ Waiting' /\ ReadOnce'
  <1>1. /\ Len(q) = 1 /\ q[1].kind = "idle"
    <2>1. PICK j \in Jitter :
            q = <<[kind |-> "idle", start |-> time + j, planned |-> time, ahead |-> 0]>>
      BY DEF InitialQueues
    <2> QED BY <2>1
  <1>2. \A n \in 1 .. Len(q) : q[n].kind # "dialog"
    BY <1>1
  <1>3. Nothing.kind = "nothing"
    BY DEF Nothing
  <1> QED BY <1>2, <1>3 DEF RoundsApart, Waiting, ReadOnce

\* The worker's hand is emptied, or holds something that is no dialog read.
LEMMA OthersKeepReads ==
  ASSUME TypeOK, RoundsApart, Waiting, ReadOnce,
         PassOver \/ Poll \/ Finish \/ WorkerEnds \/ Connect \/ Tick \/ UNCHANGED vars
  PROVE  RoundsApart' /\ Waiting' /\ ReadOnce'
  <1>1. UNCHANGED <<queue, planned, read>>
    BY DEF PassOver, Poll, Finish, WorkerEnds, Connect, Tick, vars, plannerVars, handVars
  <1>2. \A a \in planned : a.planned \in Nat
    BY DEF TypeOK, Action
  <1>3. RoundsApart'
    <2>1. CASE PassOver
      <3>1. \A gap \in DayGaps \cup NightGaps : gap \in Nat
        BY TimeAssumption
      <3>2. now \in Nat /\ nextRound \in Nat /\ now >= nextRound
        BY <2>1 DEF TypeOK, PassOver
      <3>3. nextRound' \in Nat /\ nextRound' >= nextRound
        BY <2>1, <3>1, <3>2 DEF PassOver, SleepUntilNext
      <3> QED BY <1>1, <1>2, <3>2, <3>3 DEF RoundsApart
    <2>2. CASE UNCHANGED nextRound
      BY <1>1, <2>2 DEF RoundsApart
    <2> QED BY <2>1, <2>2 DEF Poll, Finish, WorkerEnds, Connect, Tick, vars, plannerVars
  <1>4. \/ UNCHANGED <<hand, busySince>>
        \/ hand'.kind \in {"nothing", "poll"}
    BY DEF PassOver, Poll, Finish, WorkerEnds, Connect, Tick, vars, plannerVars, handVars,
           Planned, Nothing
  <1>5. Waiting'
    BY <1>1, <1>4 DEF Waiting, Asleep, IsRead
  <1> QED BY <1>1, <1>3, <1>5 DEF ReadOnce

LEMMA ReadsKept ==
  ASSUME TypeOK, CapInv, ReadInv, [Next]_vars
  PROVE  ReadInv'
  <1>1. SpanInv'
    BY SpanKept DEF ReadInv
  <1>2. RoundsApart' /\ Waiting' /\ ReadOnce'
    <2>1. CASE Restart
      BY <2>1, StartUnread DEF TypeOK, Restart
    <2> QED BY <2>1, PlanKeepsReads, ColdKeepsReads, NextActionKeepsReads, BeginKeepsReads,
               OthersKeepReads DEF Next, ReadInv
  <1> QED BY <1>1, <1>2 DEF ReadInv

\* Reads up to n hours late were all planned for the same n + 1 hours.
LEMMA LateReads ==
  ASSUME TypeOK, ReadInv, NEW from \in Int, NEW n \in Nat
  PROVE  Cardinality({r \in ReadIn(from) : Lateness(r) <= Hours(n)}) <= Reads(n + 1)
  <1> DEFINE L == {r \in ReadIn(from) : Lateness(r) <= Hours(n)}
             f == [r \in L |-> r.action]
             S == Span(from - Hours(n), n + 1)
  <1>1. Hours(n) \in Nat /\ Hours(n + 1) = Hours(n) + Hour /\ n + 1 \in Nat /\ Hour \in Nat
    BY HoursTypes, TimeAssumption
  <1>2. from - Hours(n) \in Int
    BY <1>1
  <1>3. IsFiniteSet(S) /\ Cardinality(S) \in Nat /\ Cardinality(S) <= Reads(n + 1)
    BY <1>1, <1>2, SpanFinite DEF ReadInv, SpanInv
  <1>4. ASSUME NEW r \in L
        PROVE  r.action \in S
    <2>1. r \in read /\ r.at \in Nat /\ r.action \in Action /\ r.action.start \in Nat
      BY DEF ReadIn, TypeOK, DialogRead, Action
    <2>2. /\ r.action \in planned /\ r.action.start <= r.at
          /\ from < r.at /\ r.at <= from + Hour /\ r.at - r.action.start <= Hours(n)
      BY <2>1 DEF ReadInv, ReadOnce, ReadIn, Lateness
    <2>3. /\ from - Hours(n) < r.action.start
          /\ r.action.start <= (from - Hours(n)) + Hours(n + 1)
      BY <1>1, <2>1, <2>2
    <2> QED BY <2>2, <2>3 DEF Span
  <1>5. L \in SUBSET read /\ IsFiniteSet(L)
    <2>1. L \in SUBSET read
      BY DEF ReadIn
    <2> QED BY <2>1, FS_Subset DEF TypeOK
  <1>6. Cardinality(L) <= Cardinality(S)
    <2>1. \A r, q \in L : f[r] = f[q] => r = q
      BY DEF ReadInv, ReadOnce, ReadIn
    <2>2. f \in [L -> S]
      BY <1>4
    <2> HIDE DEF f, L, S
    <2> QED BY <1>3, <1>5, <2>1, <2>2, InjectionBound
  <1> HIDE DEF f, L, S
  <1>7. Cardinality(L) \in Nat /\ Reads(n + 1) \in Nat
    BY <1>1, <1>5, FS_CardinalityType, HoursTypes
  <1> QED BY <1>3, <1>6, <1>7 DEF L

LEMMA ReadsInvariant == Spec => [](TypeOK /\ ReadInv)
  <1>1. ASSUME Init PROVE TypeOK /\ CapInv /\ ReadInv
    <2>1. planned = {} /\ TypeOK /\ SpanInv
      BY <1>1, InitTypes, NoSpan DEF Init
    <2>2. CapInv
      BY <1>1, InitCap
    <2>3. RoundsApart /\ Waiting /\ ReadOnce
      BY <1>1, StartUnread DEF Init
    <2> QED BY <2>1, <2>2, <2>3 DEF ReadInv
  <1>2. ASSUME TypeOK, CapInv, ReadInv, [Next]_vars PROVE TypeOK' /\ CapInv' /\ ReadInv'
    BY <1>2, TypesKept, CapKept, ReadsKept
  <1> QED BY <1>1, <1>2, PTL DEF Spec

\* Of one process, no planned dialog read is carried out twice or before its
\* start, whatever is queued, interrupted or resumed meanwhile.
THEOREM ReadOnceHolds == Spec => []ReadOnce
  <1>1. ASSUME ReadInv PROVE ReadOnce
    BY <1>1 DEF ReadInv
  <1> QED BY <1>1, ReadsInvariant, PTL

\* However late reads are carried out, those of an hour that are up to n hours
\* late are no more than n + 1 hours may plan.
THEOREM HourlyReadsHolds == Spec => []HourlyReads
  <1>1. ASSUME TypeOK, ReadInv PROVE HourlyReads
    <2>1. ASSUME NEW from \in -Hour .. now, NEW n \in 0 .. (now \div Hour) + 1
          PROVE  Cardinality({r \in ReadIn(from) : Lateness(r) <= n * Hour}) <= MaxCap * (n + 1)
      <3>1. from \in Int /\ n \in Nat
        OBVIOUS
      <3> QED BY <1>1, <3>1, LateReads DEF Hours, Reads
    <2> QED BY <2>1 DEF HourlyReads
  <1> QED BY <1>1, ReadsInvariant, PTL

-----------------------------------------------------------------------------
(* The refinement of ActionQueues.                                         *)

Only == {"account"}
Held == IF hand.kind = "poll" THEN Nothing ELSE hand

Scheduler == INSTANCE ActionQueues WITH
  Accounts <- Only,
  queue <- [a \in Only |-> queue],
  hand <- [a \in Only |-> Held],
  Initially <- 1

\* The account's warmup actions and cold sends reach its worker in the order
\* in which they were planned, each once, whatever else the worker is doing
\* when they are planned and however often it ends and is resumed.
KeepsQueue == Scheduler!Spec

\* Polls are not queued.
NoPolls == \A n \in 1 .. Len(queue) : queue[n].kind # "poll"

LEMMA RoundKinds ==
  ASSUME TypeOK, NEW useBot \in BOOLEAN, NEW c \in Nat, NEW d \in Nat, NEW i \in Nat,
         NEW n \in 1 .. Len(Round(useBot, c, d, i))
  PROVE  Round(useBot, c, d, i)[n].kind # "poll"
  <1> DEFINE ch == Planned("channel", c, Before)
             dialog == Planned("dialog", d, Before + 1)
             idle(k) == Planned("idle", i, Before + k)
             round == Round(useBot, c, d, i)
  <1>1. ch.kind = "channel" /\ dialog.kind = "dialog" /\ \A k \in {1, 2} : idle(k).kind = "idle"
    BY DEF Planned
  <1>2. round = <<ch, dialog, idle(2)>> \/ round = <<ch, idle(1)>>
    BY DEF Round
  <1> HIDE DEF ch, dialog, idle
  <1> QED BY <1>1, <1>2

\* A round, or a cold send, goes behind what is queued.
LEMMA PlanIsAdd ==
  ASSUME TypeOK, NoPolls, UNCHANGED hand,
         NEW new \in Seq(Action), queue' = queue \o new,
         \A n \in 1 .. Len(new) : new[n].kind # "poll"
  PROVE  Scheduler!Add("account") /\ NoPolls'
  <1> DEFINE all == [a \in Only |-> queue]
  <1>1. /\ Len(queue') = Len(queue) + Len(new) /\ Len(queue) \in Nat /\ Len(new) \in Nat
        /\ \A n \in 1 .. Len(queue) : queue'[n] = queue[n]
        /\ \A n \in 1 .. Len(new) : queue'[Len(queue) + n] = new[n]
    BY DEF TypeOK
  <1>2. all["account"] = queue /\ all'["account"] = queue'
        /\ all' = [all EXCEPT !["account"] = queue']
    BY DEF Only
  <1>3. Scheduler!Add("account")
    <2>1. Scheduler!OnlyFor("account")
      BY <1>2 DEF Scheduler!OnlyFor
    <2>2. [a \in Only |-> Held]' = [a \in Only |-> Held]
      BY DEF Held
    <2>3. /\ Len(all["account"]) <= Len(all'["account"])
          /\ \A n \in 1 .. Len(all["account"]) : all'["account"][n] = all["account"][n]
      <3>1. all["account"] = queue /\ all'["account"] = queue'
        BY <1>2
      <3> HIDE DEF all
      <3>2. Len(queue) <= Len(queue') /\ \A n \in 1 .. Len(queue) : queue'[n] = queue[n]
        BY <1>1
      <3> QED BY <3>1, <3>2, Zenon
    <2> QED BY <2>1, <2>2, <2>3 DEF Scheduler!Add
  <1>4. ASSUME NEW n \in 1 .. Len(queue') PROVE queue'[n].kind # "poll"
    <2>1. CASE n <= Len(queue)
      BY <1>1, <2>1 DEF NoPolls
    <2>2. CASE n > Len(queue)
      <3>1. n - Len(queue) \in 1 .. Len(new) /\ n = Len(queue) + (n - Len(queue))
        BY <1>1, <2>2
      <3> QED BY <1>1, <3>1
    <2> QED BY <1>1, <2>1, <2>2
  <1> QED BY <1>3, <1>4 DEF NoPolls

\* The worker takes the oldest action, with none in its hand.
LEMMA PopIsTake ==
  ASSUME TypeOK, NoPolls, NextAction
  PROVE  Scheduler!Take("account") /\ NoPolls'
  <1>1. /\ hand = Nothing /\ hand' = Head(queue) /\ queue' = Tail(queue)
        /\ queue \in Seq(Action) /\ queue # <<>>
    BY DEF NextAction, TypeOK
  <1>2. /\ Len(queue) \in Nat \ {0} /\ hand' = queue[1] /\ Len(queue') = Len(queue) - 1
        /\ \A n \in 1 .. Len(queue') : queue'[n] = queue[n + 1]
    BY <1>1
  <1>3. Held = Nothing /\ Held' = Head(queue)
    BY <1>1, <1>2 DEF Held, NoPolls, Nothing
  <1>4. NoPolls'
    <2>1. \A n \in 1 .. Len(queue') : n + 1 \in 1 .. Len(queue)
      BY <1>2
    <2> QED BY <1>2, <2>1 DEF NoPolls
  <1> DEFINE all == [a \in Only |-> queue]
             held == [a \in Only |-> Held]
  <1>5. /\ all["account"] = queue /\ held["account"] = Nothing
        /\ all' = [all EXCEPT !["account"] = Tail(@)]
        /\ held' = [held EXCEPT !["account"] = Head(queue)]
    BY <1>1, <1>3 DEF Only
  <1> QED BY <1>1, <1>4, <1>5 DEF Scheduler!Take

\* Carried out or lost, an action is no longer in hand.
LEMMA EndIsDone ==
  ASSUME hand' = Nothing, UNCHANGED queue
  PROVE  Scheduler!Done("account")
  <1> DEFINE held == [a \in Only |-> Held]
  <1>1. held' = [held EXCEPT !["account"] = Nothing]
    BY DEF Held, Nothing, Only
  <1> QED BY <1>1 DEF Scheduler!Done

\* What a process starts with: an idle gap.
LEMMA StartQueued ==
  ASSUME NEW time \in Nat
  PROVE  /\ queue \in InitialQueues(time) /\ hand = Nothing => Scheduler!Started /\ NoPolls
         /\ queue' \in InitialQueues(time) /\ hand' = Nothing => Scheduler!Restart /\ NoPolls'
  <1>1. \A q \in InitialQueues(time) : Len(q) = 1 /\ q[1].kind = "idle"
    BY InitialTypes
  <1>2. ASSUME queue \in InitialQueues(time), hand = Nothing
        PROVE  Scheduler!Started /\ NoPolls
    <2>1. Held = Nothing /\ Len(queue) = 1 /\ queue[1].kind = "idle"
      BY <1>1, <1>2 DEF Held, Nothing
    <2>2. NoPolls
      BY <2>1 DEF NoPolls
    <2>3. \A a \in Only : Len([b \in Only |-> queue][a]) <= 1
      <3>1. \A a \in Only : [b \in Only |-> queue][a] = queue
        OBVIOUS
      <3>2. Len(queue) <= 1
        BY <2>1
      <3> QED BY <3>1, <3>2, Zenon
    <2>4. [a \in Only |-> Held] = [a \in Only |-> Nothing]
      BY <2>1, Zenon
    <2> QED BY <2>2, <2>3, <2>4 DEF Scheduler!Started
  <1>3. ASSUME queue' \in InitialQueues(time), hand' = Nothing
        PROVE  Scheduler!Restart /\ NoPolls'
    <2>1. Held' = Nothing /\ Len(queue') = 1 /\ queue'[1].kind = "idle"
      BY <1>1, <1>3 DEF Held, Nothing
    <2>2. NoPolls'
      BY <2>1 DEF NoPolls
    <2>3. \A a \in Only : Len([b \in Only |-> queue'][a]) <= 1
      <3>1. \A a \in Only : [b \in Only |-> queue'][a] = queue'
        OBVIOUS
      <3>2. Len(queue') <= 1
        BY <2>1
      <3> QED BY <3>1, <3>2, Zenon
    <2>4. [a \in Only |-> Held'] = [a \in Only |-> Nothing]
      BY <2>1, Zenon
    <2>5. Scheduler!Started'
      BY <2>3, <2>4 DEF Scheduler!Started
    <2> QED BY <2>2, <2>5 DEF Scheduler!Restart
  <1> QED BY <1>2, <1>3

\* Every step is one of the queue, or none.
LEMMA QueueStep ==
  ASSUME TypeOK, NoPolls, [Next]_vars
  PROVE  [Scheduler!Next]_Scheduler!vars /\ NoPolls'
  <1> DEFINE Step == [Scheduler!Next]_Scheduler!vars /\ NoPolls'
  <1> "account" \in Only
    BY DEF Only
  <1>1. CASE PlanWarmup
    <2>1. PICK useBot \in BOOLEAN, c \in Jitter, d \in Nat, i \in Nat :
            c \in Nat /\ queue' = queue \o Round(useBot, c, d, i)
      BY <1>1, PlanStep
    <2>2. PICK new \in Seq(Action) : new = Round(useBot, c, d, i)
      BY <2>1, RoundTypes
    <2>3. \A n \in 1 .. Len(new) : new[n].kind # "poll"
      BY <2>1, <2>2, RoundKinds
    <2>4. UNCHANGED hand
      BY <1>1 DEF PlanWarmup, handVars
    <2> QED BY <2>1, <2>2, <2>3, <2>4, PlanIsAdd DEF Scheduler!Next
  <1>2. CASE ColdPlanned
    <2>1. PICK delay \in ColdDelays : queue' = Append(queue, Planned("cold", delay, Before))
      BY <1>2 DEF ColdPlanned
    <2> DEFINE cold == Planned("cold", delay, Before)
    <2>2. cold \in Action /\ cold.kind = "cold"
      BY BeforeTypes, TimeAssumption DEF TypeOK, Planned, Action, Kind
    <2> HIDE DEF cold
    <2>3. /\ <<cold>> \in Seq(Action) /\ queue' = queue \o <<cold>>
          /\ \A n \in 1 .. Len(<<cold>>) : <<cold>>[n].kind # "poll"
      BY <2>1, <2>2 DEF cold, TypeOK
    <2> QED BY <1>2, <2>3, PlanIsAdd DEF ColdPlanned, handVars, Scheduler!Next
  <1>3. CASE NextAction
    BY <1>3, PopIsTake DEF Scheduler!Next
  <1>4. CASE Finish \/ WorkerEnds
    <2>1. hand' = Nothing /\ UNCHANGED queue
      BY <1>4 DEF Finish, WorkerEnds
    <2> QED BY <2>1, EndIsDone DEF Scheduler!Next, NoPolls
  <1>5. CASE Poll
    <2>1. UNCHANGED <<queue, Held>>
      BY <1>5 DEF Poll, Held, Planned, Nothing
    <2> QED BY <2>1 DEF Scheduler!vars, NoPolls
  <1>6. CASE Restart
    BY <1>6, StartQueued DEF TypeOK, Restart, Scheduler!Next
  <1>7. CASE PassOver \/ Begin \/ Connect \/ Tick \/ UNCHANGED vars
    <2>1. UNCHANGED <<queue, hand>>
      BY <1>7 DEF PassOver, Begin, Connect, Tick, vars, handVars
    <2> QED BY <2>1 DEF Scheduler!vars, NoPolls, Held
  <1> QED BY <1>1, <1>2, <1>3, <1>4, <1>5, <1>6, <1>7 DEF Next

\* The account's queue implements ActionQueues: warmup actions and cold sends
\* reach the worker in the order in which they were planned, each once.
THEOREM QueueKept == Spec => KeepsQueue
  <1>1. Init => Scheduler!Started /\ NoPolls
    BY StartQueued DEF Init
  <1> QED BY <1>1, QueueStep, TypeCorrect, PTL DEF Spec, KeepsQueue, Scheduler!Spec

-----------------------------------------------------------------------------
(* Quiet hours.                                                            *)

\* Quiet hours are those from start round the clock to end, for a day of any
\* length.
THEOREM QuietHoursHolds == Spec => []QuietHours
  <1>1. ASSUME NEW hour \in 0 .. DayLength - 1,
               NEW start \in 0 .. DayLength - 1, NEW end \in 0 .. DayLength - 1
        PROVE  InQuiet(hour, start, end)
                 <=> start = end \/ (hour - start) % DayLength < (end - start) % DayLength
    <2>1. \A n \in 0 .. DayLength - 1 : n % DayLength = n
      BY TimeAssumption
    <2>2. \A n \in 1 .. DayLength - 1 : (- n) % DayLength = DayLength - n
      BY TimeAssumption
    <2>3. ASSUME NEW a \in 0 .. DayLength - 1
          PROVE  (a - start) % DayLength = IF a < start THEN DayLength - (start - a) ELSE a - start
      <3>1. CASE a < start
        <4>1. start - a \in 1 .. DayLength - 1 /\ a - start = - (start - a)
          BY <3>1, TimeAssumption
        <4> QED BY <2>2, <3>1, <4>1
      <3>2. CASE ~ (a < start)
        <4>1. a - start \in 0 .. DayLength - 1
          BY <3>2, TimeAssumption
        <4> QED BY <2>1, <3>2, <4>1
      <3> QED BY <3>1, <3>2
    <2> QED BY <2>3, TimeAssumption DEF InQuiet
  <1>2. ASSUME TypeOK PROVE QuietHours
    <2>1. HourOfDay \in 0 .. DayLength - 1
      BY <1>2, TimeAssumption DEF TypeOK, HourOfDay
    <2> QED BY <1>1, <2>1 DEF QuietHours
  <1> QED BY <1>2, TypeCorrect, PTL

=============================================================================
