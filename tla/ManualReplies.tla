---------------------------- MODULE ManualReplies ----------------------------
(***************************************************************************)
(* Replies to leads, by the operator and by the machine: the endpoint      *)
(* manual_reply of app/api.py, the pending_outbox of storage/              *)
(* outbox_store.py with the flush of telegram/accounts.py, the handler of  *)
(* behavior/reply_engine.py, and the dialog row of storage/                *)
(* dialogs_store.py over which they keep out of each other's way.          *)
(*                                                                         *)
(* The API and the worker are two processes on one SQLite database.  An    *)
(* action is the code of one of them between two suspension points, or     *)
(* between two commits where the other may look: the endpoint commits the  *)
(* dialog, the outbox row and the lead in turn, the flush commits the row  *)
(* and the lead in turn.  Rows, reply handlers and cold sends of the       *)
(* worker process share its event loop.                                    *)
(*                                                                         *)
(* The outbox is that of one account (list_pending selects by account).    *)
(* Incoming messages and cold sends may belong to any account: they meet   *)
(* the replies only at the rows of a lead.                                 *)
(***************************************************************************)
EXTENDS Naturals, Sequences

CONSTANTS
  Leads,        \* the leads with a dialog, or that may get one
  Handlers,     \* handle_incoming calls that may run at once
  Ttl,          \* ticks until a queued reply expires (24 hours)
  Grace,        \* ticks a manual reply keeps the machine quiet (3 hours)
  MaxReplies,   \* bound: manual replies queued
  MaxCrashes    \* bound: crashes, per reply, that lose its delivery

ASSUME TimesAssumption == Ttl \in Nat \ {0} /\ Grace \in Nat \ {0}
ASSUME BoundsAssumption == MaxReplies \in Nat /\ MaxCrashes \in Nat

\* "open" stands for every status but two: nothing here tells them apart.
LeadStatus == {"open", "contacted", "failed"}

Row == [lead : Leads, status : {"pending", "sent", "failed"}, left : 0 .. Ttl]

\* A message being answered; overtaken is history: the operator has replied
\* to the lead since.
Free == [stage |-> "free"]
Handling == [stage : {"drafting", "sending", "delivered"}, lead : Leads,
             overtaken : BOOLEAN]

NoRequest == [stage |-> "none"]
Request == [stage : {"marked", "queued"}, lead : Leads]

VARIABLES
  outbox,       \* pending_outbox, by id; left runs down to expires_at
  known,        \* the leads with a row in dialogs
  grace,        \* what dialogs.manual_replied_at leaves of the grace time
  leadStatus,   \* leads.status, by lead
  online,       \* the API's copy of the account's status is ACTIVE
  request,      \* the manual_reply call between two of its commits
  stage,        \* of the worker: "down", "starting", "idle" or in a flush
  batch,        \* the rows the flush has listed and not yet dealt with
  late,         \* those of them that had expired when it listed them
  wired,        \* the worker has its stores (init_workers)
  listening,    \* a reply handler is attached to the client
  alive,        \* Telegram accepts the client's session
  handling      \* the incoming messages being answered

\* History variables.
VARIABLES
  manual,       \* what is left of the grace time of the last manual reply
  overwritten,  \* the leads written to by a cold send since
  delivered,    \* how often Telegram delivered a queued reply
  lost,         \* crashes after a delivery and before it was recorded
  excused       \* the failed leads that no reply in the outbox accounts for

dialogVars == <<known, grace, manual, overwritten>>
flushVars == <<outbox, stage, batch, late, delivered, lost>>
workerVars == <<wired, listening, alive>>
leadVars == <<leadStatus, excused>>
vars == <<dialogVars, flushVars, workerVars, leadVars, online, request, handling>>

Rows == 1 .. Len(outbox)
Up == stage \notin {"down", "starting"}

Init ==
  /\ outbox = <<>>
  /\ known = {} /\ grace = [l \in Leads |-> 0]
  /\ leadStatus = [l \in Leads |-> "open"]
  /\ online \in BOOLEAN /\ request = NoRequest
  /\ stage = "starting" /\ batch = {} /\ late = {}
  /\ wired = TRUE /\ listening = FALSE /\ alive \in BOOLEAN
  /\ handling = [h \in Handlers |-> Free]
  /\ manual = [l \in Leads |-> 0] /\ overwritten = {}
  /\ delivered = [r \in 1 .. MaxReplies |-> 0]
  /\ lost = [r \in 1 .. MaxReplies |-> 0]
  /\ excused = {}

\* leads_store.update_status
Mark(l, status, excuse) ==
  /\ leadStatus' = [leadStatus EXCEPT ![l] = status]
  /\ excused' = IF excuse THEN excused \cup {l} ELSE excused \ {l}

SetLead(l, status) == Mark(l, status, FALSE)

\* Nobody takes the failure of these leads back now.
LeaveFailed(leads) ==
  /\ UNCHANGED leadStatus
  /\ excused' = excused \cup {l \in leads : leadStatus[l] = "failed"}

-----------------------------------------------------------------------------
(* The endpoint manual_reply.                                              *)

\* Mutant: an existing row keeps its timestamp.
MarkOnlyNew(l) ==
  /\ known' = known \cup {l}
  /\ grace' = IF l \in known THEN grace ELSE [grace EXCEPT ![l] = Grace]

\* dialogs_store.mark_manual_reply
MarkManualReply(l) ==
  /\ known' = known \cup {l}
  /\ grace' = [grace EXCEPT ![l] = Grace]

\* The reply is dated, and either only stored (the account is ACTIVE) or to
\* be queued.
ManualReply(l) ==
  /\ request = NoRequest /\ (online \/ Len(outbox) < MaxReplies)
  /\ MarkManualReply(l)
  /\ request' = IF online THEN NoRequest ELSE [stage |-> "marked", lead |-> l]
  /\ manual' = [manual EXCEPT ![l] = Grace]
  /\ overwritten' = overwritten \ {l}
  /\ handling' = [h \in Handlers |->
       IF handling[h] # Free /\ handling[h].lead = l
       THEN [handling[h] EXCEPT !.overtaken = TRUE] ELSE handling[h]]
  /\ UNCHANGED <<flushVars, workerVars, leadVars, online>>

\* outbox_store.add_pending
QueueReply ==
  /\ request.stage = "marked"
  /\ outbox' = Append(outbox,
       [lead |-> request.lead, status |-> "pending", left |-> Ttl])
  /\ request' = [request EXCEPT !.stage = "queued"]
  /\ UNCHANGED <<dialogVars, workerVars, leadVars, online, handling,
                 stage, batch, late, delivered, lost>>

\* "Account status ...": the lead is marked failed, even if the flush has sent
\* the reply meanwhile.
FailLead ==
  /\ request.stage = "queued"
  /\ Mark(request.lead, "failed", outbox[Len(outbox)].status = "sent")
  /\ request' = NoRequest
  /\ UNCHANGED <<dialogVars, flushVars, workerVars, online, handling>>

\* The API's copy of the status changes, or the API process restarts.
ApiChanges ==
  /\ request' = NoRequest /\ online' \in BOOLEAN
  /\ request = NoRequest => online' # online
  /\ UNCHANGED <<dialogVars, flushVars, workerVars, leadVars, handling>>

\* update_lead_status; and, of a cold send, the failure.
AdminSetsStatus(l, status) ==
  /\ Mark(l, status, status = "failed") /\ leadStatus' # leadStatus
  /\ UNCHANGED <<dialogVars, flushVars, workerVars, online, request, handling>>

Api ==
  \/ QueueReply \/ FailLead \/ ApiChanges
  \/ \E l \in Leads : ManualReply(l) \/ \E s \in LeadStatus : AdminSetsStatus(l, s)

-----------------------------------------------------------------------------
(* AccountWorker: _flush_pending_outbox, and the task around it.           *)

\* Mutant: what failed is tried again.
Unsent == {r \in Rows : outbox[r].status # "sent"}

\* outbox_store.list_pending
Pending == {r \in Rows : outbox[r].status = "pending"}

\* Mutant: the newest reply goes first.
NewestInBatch(r) == r \in batch /\ \A s \in batch : s <= r

\* ORDER BY created_at ASC: ids are given in that order.
NextInBatch(r) == r \in batch /\ \A s \in batch : r <= s

\* The row that is marked sent and whose lead is yet to be updated.
Marked == {r \in batch : stage = "marked" /\ NextInBatch(r)}

Settle(r, status) == outbox' = [outbox EXCEPT ![r].status = status]

\* The flush goes from one stage to another, and is done with row r when it
\* comes back to "flushing".
Flushing(r, from, to) ==
  /\ stage = from /\ stage' = to /\ NextInBatch(r)
  /\ batch' = IF to = "flushing" THEN batch \ {r} ELSE batch
  /\ late' = late \cap batch'
  /\ UNCHANGED <<dialogVars, workerVars, online, request, handling, lost>>

\* The flush lists the pending rows, and reads the clock once.
FlushStarts ==
  /\ stage = "idle" /\ Pending # {}
  /\ stage' = "flushing"
  /\ batch' = Pending
  /\ late' = {r \in Pending : outbox[r].left = 0}
  /\ UNCHANGED <<dialogVars, workerVars, leadVars, online, request, handling,
                 outbox, delivered, lost>>

\* Mutant: an expired row is passed over and stays pending.
ExpiredIsSkipped(r) ==
  r \in late /\ Flushing(r, "flushing", "flushing")
  /\ UNCHANGED <<outbox, leadVars, delivered>>

\* Mutant: "expired" is written as the row's status, not as its error.
ExpiredIsStatus(r) ==
  r \in late /\ Flushing(r, "flushing", "flushing") /\ Settle(r, "expired")
  /\ UNCHANGED <<leadVars, delivered>>

\* mark_failed(id, "expired")
Expire(r) ==
  r \in late /\ Flushing(r, "flushing", "flushing") /\ Settle(r, "failed")
  /\ UNCHANGED <<leadVars, delivered>>

\* Mutant: the row is settled before the send.
SettledFirst(r) ==
  r \notin late /\ Flushing(r, "flushing", "sending") /\ Settle(r, "sent")
  /\ UNCHANGED <<leadVars, delivered>>

SendReply(r) ==
  r \notin late /\ Flushing(r, "flushing", "sending")
  /\ UNCHANGED <<outbox, leadVars, delivered>>

\* Telegram accepts the message; send_message has yet to return.
DeliverReply(r) ==
  alive /\ Flushing(r, "sending", "delivered")
  /\ delivered' = [delivered EXCEPT ![r] = @ + 1]
  /\ UNCHANGED <<outbox, leadVars>>

\* outbox_store.mark_sent
MarkSent(r) ==
  Flushing(r, "delivered", "marked") /\ Settle(r, "sent")
  /\ UNCHANGED <<leadVars, delivered>>

\* Mutant: the lead is not updated.
LeadLeftFailed(r) ==
  Flushing(r, "marked", "flushing") /\ UNCHANGED <<leadVars, outbox, delivered>>

\* The message and the event are stored; a wired worker updates the lead.
ClearFailure(r) ==
  /\ Flushing(r, "marked", "flushing")
  /\ IF wired
     THEN SetLead(outbox[r].lead, "contacted")
     ELSE LeaveFailed({outbox[r].lead})
  /\ UNCHANGED <<outbox, delivered>>

\* Something raises, the send itself or what follows it: mark_failed.
ReplyFails(r) ==
  /\ \E from \in {"sending", "delivered", "marked"} : Flushing(r, from, "flushing")
  /\ Settle(r, "failed")
  /\ UNCHANGED <<leadVars, delivered>>

FlushEnds ==
  /\ stage = "flushing" /\ batch = {} /\ stage' = "idle"
  /\ UNCHANGED <<dialogVars, workerVars, leadVars, online, request, handling,
                 outbox, batch, late, delivered, lost>>

FlushStep ==
  \/ FlushStarts \/ FlushEnds
  \/ \E r \in Rows : \/ Expire(r) \/ SendReply(r) \/ DeliverReply(r)
                     \/ MarkSent(r) \/ ClearFailure(r) \/ ReplyFails(r)

\* run: connect, check the session, attach the reply handler if there is one.
Connect ==
  /\ stage = "starting"
  /\ stage' = IF alive THEN "idle" ELSE "down"
  /\ listening' = (listening \/ (alive /\ wired))
  /\ UNCHANGED <<dialogVars, leadVars, online, request, handling, wired, alive,
                 outbox, batch, late, delivered, lost>>

\* The flush is cut short; a reply delivered and not yet marked is lost, and
\* the lead of one that is marked stays as it is.
FlushLost ==
  /\ batch' = {} /\ late' = {}
  /\ lost' = [r \in 1 .. MaxReplies |->
       lost[r] + (IF stage = "delivered" /\ NextInBatch(r) THEN 1 ELSE 0)]
  /\ \A r \in 1 .. MaxReplies : lost'[r] <= MaxCrashes
  /\ LeaveFailed({outbox[r].lead : r \in Marked})
  /\ UNCHANGED <<outbox, delivered>>

\* The worker task ends: an exception nobody handles, or no connection.
WorkerExits ==
  /\ stage # "down" /\ stage' = "down" /\ FlushLost
  /\ UNCHANGED <<dialogVars, workerVars, online, request, handling>>

\* auto_resume_loop, resume_account: a new worker, without its stores.
AutoResume ==
  /\ stage = "down" /\ stage' = "starting" /\ wired' = FALSE
  /\ UNCHANGED <<dialogVars, leadVars, online, request, handling, listening,
                 alive, outbox, batch, late, delivered, lost>>

\* The session is revoked; the client does not get another one.
SessionDies ==
  /\ alive /\ alive' = FALSE
  /\ UNCHANGED <<dialogVars, flushVars, wired, listening, leadVars, online,
                 request, handling>>

\* The worker process dies and starts again, perhaps with a new session.
Restart ==
  /\ stage' = "starting" /\ FlushLost
  /\ wired' = TRUE /\ listening' = FALSE /\ alive' \in BOOLEAN
  /\ handling' = [h \in Handlers |-> Free]
  /\ UNCHANGED <<dialogVars, online, request>>

Process == Connect \/ WorkerExits \/ AutoResume \/ SessionDies \/ Restart

-----------------------------------------------------------------------------
(* ReplyEngine.handle_incoming, and the cold send that shares its row.     *)

Handles(h, from, to) ==
  /\ handling[h].stage = from
  /\ handling' = [handling EXCEPT ![h] = IF to = "free" THEN Free
                                         ELSE [@ EXCEPT !.stage = to]]
  /\ UNCHANGED <<dialogVars, flushVars, workerVars, online, request>>

\* An incoming message of a known lead, outside the grace time.
TakeUp(h, l) ==
  /\ listening /\ alive /\ handling[h] = Free
  /\ l \in known /\ grace[l] = 0
  /\ handling' = [handling EXCEPT ![h] =
       [stage |-> "drafting", lead |-> l, overtaken |-> FALSE]]
  /\ UNCHANGED <<dialogVars, flushVars, workerVars, leadVars, online, request>>

\* History and AI answered, or one of them did not.
DraftEnds(h) ==
  /\ Handles(h, "drafting", "sending") \/ Handles(h, "drafting", "free")
  /\ UNCHANGED leadVars

AnswerDelivered(h) ==
  alive /\ Handles(h, "sending", "delivered") /\ UNCHANGED leadVars

AnswerFails(h) == Handles(h, "sending", "free") /\ UNCHANGED leadVars

\* send_message has returned, or raised too late.  The status the AI gave the
\* lead (hot, warm, cold, deal), if any, is written in the first case.
AnswerRecorded(h) ==
  /\ Handles(h, "delivered", "free")
  /\ SetLead(handling[h].lead, "open") \/ UNCHANGED leadVars

\* _handle_send_cold_dm after the send: mark_contacted, and an upsert of the
\* dialog that has no manual_replied_at.
ColdSent(l) ==
  /\ SetLead(l, "contacted")
  /\ known' = known \cup {l} /\ grace' = [grace EXCEPT ![l] = 0]
  /\ overwritten' = overwritten \cup {l}
  /\ UNCHANGED <<manual, flushVars, workerVars, online, request, handling>>

Replies ==
  \/ \E h \in Handlers : \/ DraftEnds(h) \/ AnswerDelivered(h)
                         \/ AnswerFails(h) \/ AnswerRecorded(h)
                         \/ \E l \in Leads : TakeUp(h, l)
  \/ \E l \in Leads : ColdSent(l)

-----------------------------------------------------------------------------
CountDown(n) == IF n = 0 THEN 0 ELSE n - 1

Tick ==
  /\ outbox' = [r \in Rows |-> [outbox[r] EXCEPT !.left = CountDown(@)]]
  /\ grace' = [l \in Leads |-> CountDown(grace[l])]
  /\ manual' = [l \in Leads |-> CountDown(manual[l])]
  /\ UNCHANGED <<known, overwritten, leadVars, online, request, stage, batch, late,
                 workerVars, handling, delivered, lost>>

Next == Api \/ FlushStep \/ Process \/ Replies \/ Tick

Spec == Init /\ [][Next]_vars

\* The worker's loop comes round to the flush, and its sends return or raise.
FairSpec == Spec /\ WF_vars(FlushStep)

-----------------------------------------------------------------------------
TypeOK ==
  /\ outbox \in Seq(Row) /\ Len(outbox) <= MaxReplies
  /\ known \subseteq Leads /\ overwritten \subseteq Leads
  /\ grace \in [Leads -> 0 .. Grace] /\ manual \in [Leads -> 0 .. Grace]
  /\ leadStatus \in [Leads -> LeadStatus] /\ excused \subseteq Leads
  /\ online \in BOOLEAN /\ wired \in BOOLEAN
  /\ listening \in BOOLEAN /\ alive \in BOOLEAN
  /\ request \in Request \cup {NoRequest}
  /\ request # NoRequest /\ request.stage = "marked" => Len(outbox) < MaxReplies
  /\ stage \in {"down", "starting", "idle",
                "flushing", "sending", "delivered", "marked"}
  /\ batch \subseteq Rows /\ late \subseteq batch
  /\ stage \in {"down", "starting", "idle"} => batch = {}
  /\ stage \in {"sending", "delivered", "marked"} => batch # {}
  /\ handling \in [Handlers -> Handling \cup {Free}]
  /\ delivered \in [1 .. MaxReplies -> Nat]
  /\ lost \in [1 .. MaxReplies -> 0 .. MaxCrashes]

\* A queued reply reaches the lead once, and once more for each crash that
\* fell between Telegram's acceptance and mark_sent: neither overlapping
\* flushes nor an error after the send repeat it.
DeliveredOnce == \A r \in Rows : delivered[r] <= 1 + lost[r]

\* What the outbox calls sent was accepted by Telegram, whatever was
\* interrupted in between.
SentWasDelivered == \A r \in Rows : outbox[r].status = "sent" => delivered[r] > 0

\* The replies to a lead reach it in the order they were written: one that was
\* delivered has no older one waiting, crashes and repeated flushes included.
WrittenOrder ==
  \A r, s \in Rows :
    r < s /\ outbox[r].lead = outbox[s].lead /\ delivered[s] > 0
      => outbox[r].status # "pending"

\* The machine answers a lead within the grace time of a manual reply only if
\* the operator wrote after it had begun, or a cold send has since overwritten
\* the dialog row: no other interleaving defeats the grace time.
GraceExplained ==
  \A h \in Handlers :
    handling[h] # Free /\ manual[handling[h].lead] > 0
      => handling[h].overtaken \/ handling[h].lead \in overwritten

\* "lead marked failed until sent": a lead all of whose replies were sent is
\* failed no more, unless an admin or a cold send failed it, a resumed worker
\* without its stores sent the last of them, the worker stopped between the row
\* and the lead, or the flush was done before the endpoint marked the lead.
FailedUntilSent ==
  \A l \in Leads :
    leadStatus[l] = "failed" /\ l \notin excused
      => \E r \in Rows : outbox[r].lead = l /\ (outbox[r].status # "sent" \/ r \in Marked)

\* Once the worker stays connected, every queued reply is sent or marked
\* failed: rows behind a failing or expired one are not starved.
RepliesAreSettled ==
  <>[]Up => \A r \in 1 .. MaxReplies : r \in Pending ~> r \notin Pending

-----------------------------------------------------------------------------
(* What the documents say and the code does not do.                        *)

\* "if a session is dead, messages remain queued": only expiry takes a reply
\* out of the queue while Telegram refuses the session.
DeadSessionKeepsQueue ==
  [][~alive /\ ~alive' =>
       \A r \in Rows : outbox[r].status = "pending" /\ outbox'[r].status = "failed"
                         => r \in late]_vars

=============================================================================
