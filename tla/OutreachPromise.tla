--------------------------- MODULE OutreachPromise ---------------------------
(***************************************************************************)
(* What cold outreach promises to the people it writes to and to the       *)
(* operator, with no queue, worker, limiter or restart in sight: a lead is *)
(* written to at most once each time it is made 'new', and the sends       *)
(* recorded for a day only ever grow, one at a time, up to a daily cap.    *)
(* ColdOutreach implements it.                                             *)
(***************************************************************************)
EXTENDS Naturals

CONSTANTS Leads, DailyCap

VARIABLES
  admissions,   \* how often each lead has been made 'new'
  dms,          \* how many cold messages each lead has received
  sentToday     \* the sends recorded for today

vars == <<admissions, dms, sentToday>>

Init ==
  /\ admissions = [l \in Leads |-> 1]
  /\ dms = [l \in Leads |-> 0]
  /\ sentToday = 0

Readmit(l) ==
  /\ admissions' = [admissions EXCEPT ![l] = @ + 1]
  /\ UNCHANGED <<dms, sentToday>>

Contact(l) ==
  /\ dms[l] < admissions[l]
  /\ dms' = [dms EXCEPT ![l] = @ + 1]
  /\ UNCHANGED <<admissions, sentToday>>

Record ==
  /\ sentToday < DailyCap
  /\ sentToday' = sentToday + 1
  /\ UNCHANGED <<admissions, dms>>

NewDay == sentToday' = 0 /\ UNCHANGED <<admissions, dms>>

Next == (\E l \in Leads : Readmit(l) \/ Contact(l)) \/ Record \/ NewDay

Spec == Init /\ [][Next]_vars

=============================================================================
