----------------------------- MODULE AccountView -----------------------------
(***************************************************************************)
(* What cold outreach relies on of one account: whether its status in the  *)
(* worker process is ACTIVE, and whether it has a worker.  ColdOutreach    *)
(* takes exactly these steps for granted; AccountLifecycle implements them.*)
(***************************************************************************)
VARIABLES
  active,   \* the status in the worker process is ACTIVE
  worker    \* "wired", "bare" (resumed, without its stores) or "down"

vars == <<active, worker>>

Init == active \in BOOLEAN /\ worker = "wired"

\* A worker that ends never leaves behind an account made active by that.
Exit == worker # "down" /\ worker' = "down" /\ (active' => active)

Resume == active /\ worker = "down" /\ worker' = "bare" /\ active' = active

\* Nobody makes an account active that has no worker.
StatusChanges ==
  active' # active /\ (worker = "down" => active) /\ worker' = worker

Restart == worker' = "wired" /\ active' \in BOOLEAN

Next == Exit \/ Resume \/ StatusChanges \/ Restart

Spec == Init /\ [][Next]_vars

=============================================================================
