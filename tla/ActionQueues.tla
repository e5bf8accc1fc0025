---------------------------- MODULE ActionQueues ----------------------------
(***************************************************************************)
(* What the in-memory queues of behavior/scheduler.py promise to planners  *)
(* and workers, whatever an action does: an action that is queued is taken *)
(* by its account's worker, after those queued before it and once.  A      *)
(* worker that ends loses the action in its hand at most; a restart of the *)
(* process loses everything.  ColdOutreach implements it for all accounts, *)
(* and WarmupTimeline for its one.                                         *)
(***************************************************************************)
EXTENDS Naturals, Sequences

CONSTANTS
  Accounts,
  Nothing,      \* "no action in hand"
  Initially     \* at most this many actions are queued in a new process

VARIABLES
  queue,        \* the actions queued, by account
  hand          \* the action its worker has taken, or Nothing

vars == <<queue, hand>>

Started ==
  /\ hand = [a \in Accounts |-> Nothing]
  /\ DOMAIN queue = Accounts
  /\ \A a \in Accounts : Len(queue[a]) <= Initially

\* The other accounts' queues are as they were.
OnlyFor(a) == queue' = [queue EXCEPT ![a] = queue'[a]]

\* A planner queues actions behind the ones that are there.
Add(a) ==
  /\ OnlyFor(a) /\ UNCHANGED hand
  /\ Len(queue[a]) <= Len(queue'[a])
  /\ \A i \in 1 .. Len(queue[a]) : queue'[a][i] = queue[a][i]

Take(a) ==
  /\ hand[a] = Nothing /\ queue[a] # <<>>
  /\ hand' = [hand EXCEPT ![a] = Head(queue[a])]
  /\ queue' = [queue EXCEPT ![a] = Tail(@)]

\* Carried out, dropped, or lost with its worker.
Done(a) ==
  /\ hand' = [hand EXCEPT ![a] = Nothing]
  /\ UNCHANGED queue

Restart == Started'

Next == (\E a \in Accounts : Add(a) \/ Take(a) \/ Done(a)) \/ Restart

Spec == Started /\ [][Next]_vars

=============================================================================
