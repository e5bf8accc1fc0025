-------------------------- MODULE ManualRepliesProofs --------------------------
(***************************************************************************)
(* Proofs about ManualReplies, for all sets of leads and handlers, all     *)
(* times and all bounds: the type invariant, delivery and order of the     *)
(* queued replies, and what may defeat the grace time.                     *)
(***************************************************************************)
EXTENDS ManualReplies, SequenceTheorems, TLAPS

-----------------------------------------------------------------------------
(* The outbox: three ways to change it.                                    *)

Outbox == outbox \in Seq(Row) /\ Len(outbox) <= MaxReplies

LEMMA OutboxRows ==
  ASSUME Outbox
  PROVE  /\ Len(outbox) \in Nat
         /\ \A r \in Rows : /\ outbox[r] \in Row
                            /\ r \in 1 .. MaxReplies
  BY BoundsAssumption DEF Outbox, Rows

LEMMA Settled ==
  ASSUME Outbox, NEW r \in Rows, NEW status \in {"pending", "sent", "failed"},
         Settle(r, status)
  PROVE  /\ Outbox' /\ Rows' = Rows
         /\ \A q \in Rows : q # r => outbox'[q] = outbox[q]
         /\ outbox'[r].status = status /\ outbox'[r].lead = outbox[r].lead
  <1> DEFINE e == [outbox[r] EXCEPT !.status = status]
  <1>1. outbox[r] \in Row
    BY OutboxRows
  <1>2. e \in Row /\ e.status = status /\ e.lead = outbox[r].lead
    BY <1>1 DEF Row
  <1>3. outbox' = [outbox EXCEPT ![r] = e]
    BY DEF Settle
  <1> HIDE DEF e
  <1>4. /\ outbox' \in Seq(Row) /\ Len(outbox') = Len(outbox)
        /\ \A q \in 1 .. Len(outbox) : outbox'[q] = IF q = r THEN e ELSE outbox[q]
    BY <1>2, <1>3, ExceptSeq DEF Outbox, Rows
  <1> QED BY <1>2, <1>4 DEF Outbox, Rows

LEMMA Queued ==
  ASSUME Outbox, NEW l \in Leads, Len(outbox) < MaxReplies,
         outbox' = Append(outbox, [lead |-> l, status |-> "pending", left |-> Ttl])
  PROVE  /\ Outbox' /\ Len(outbox') = Len(outbox) + 1
         /\ \A q \in Rows : outbox'[q] = outbox[q]
  <1> DEFINE e == [lead |-> l, status |-> "pending", left |-> Ttl]
  <1>1. e \in Row
    BY TimesAssumption DEF Row
  <1> HIDE DEF e
  <1>2. outbox' = Append(outbox, e)
    BY DEF e
  <1> QED BY <1>1, <1>2, BoundsAssumption DEF Outbox, Rows

LEMMA Ticked ==
  ASSUME Outbox,
         outbox' = [r \in Rows |-> [outbox[r] EXCEPT !.left = CountDown(@)]]
  PROVE  /\ Outbox' /\ Rows' = Rows
         /\ \A q \in Rows : /\ outbox'[q].status = outbox[q].status
                            /\ outbox'[q].lead = outbox[q].lead
  <1>1. \A q \in Rows : outbox'[q] = [outbox[q] EXCEPT !.left = CountDown(outbox[q].left)]
    OBVIOUS
  <1>2. ASSUME NEW q \in Rows
        PROVE  /\ outbox'[q] \in Row
               /\ outbox'[q].status = outbox[q].status
               /\ outbox'[q].lead = outbox[q].lead
    <2>1. outbox[q] \in Row
      BY OutboxRows
    <2>2. outbox[q].left \in 0 .. Ttl
      BY <2>1 DEF Row
    <2>3. CountDown(outbox[q].left) \in 0 .. Ttl
      BY <2>2, TimesAssumption DEF CountDown
    <2> QED BY <1>1, <2>1, <2>3 DEF Row
  <1>3. outbox' \in [1 .. Len(outbox) -> Row]
    BY <1>2 DEF Rows
  <1>4. Len(outbox) \in Nat
    BY OutboxRows
  <1>5. outbox' \in Seq(Row)
    BY <1>3, <1>4, SeqDef
  <1>6. Len(outbox') = Len(outbox)
    BY <1>3, <1>4, <1>5
  <1> QED BY <1>2, <1>5, <1>6 DEF Outbox, Rows

-----------------------------------------------------------------------------
(* The lead's status: two ways to change it.                               *)

LeadsOK == leadStatus \in [Leads -> LeadStatus] /\ excused \subseteq Leads

LEMMA Marking ==
  ASSUME LeadsOK, NEW l \in Leads, NEW status \in LeadStatus, NEW excuse \in BOOLEAN,
         Mark(l, status, excuse)
  PROVE  LeadsOK'
  BY DEF LeadsOK, Mark

LEMMA Leaving ==
  ASSUME LeadsOK, NEW leads \in SUBSET Leads, LeaveFailed(leads)
  PROVE  /\ LeadsOK' /\ leadStatus' = leadStatus
         /\ excused \subseteq excused'
         /\ \A l \in leads : leadStatus[l] = "failed" => l \in excused'
  BY DEF LeadsOK, LeaveFailed

LEMMA MarkedLeads ==
  ASSUME Outbox, batch \subseteq Rows
  PROVE  {outbox[r].lead : r \in Marked} \subseteq Leads
  BY OutboxRows DEF Marked, Row

-----------------------------------------------------------------------------
(* Types, one part of the state after the other.                           *)

QueueOK ==
  /\ Outbox
  /\ delivered \in [1 .. MaxReplies -> Nat]
  /\ lost \in [1 .. MaxReplies -> 0 .. MaxCrashes]
  /\ request \in Request \cup {NoRequest}
  /\ request # NoRequest /\ request.stage = "marked" => Len(outbox) < MaxReplies

FlushOK ==
  /\ stage \in {"down", "starting", "idle",
                "flushing", "sending", "delivered", "marked"}
  /\ batch \subseteq Rows /\ late \subseteq batch
  /\ stage \in {"down", "starting", "idle"} => batch = {}
  /\ stage \in {"sending", "delivered", "marked"} => batch # {}

DialogOK ==
  /\ known \subseteq Leads /\ overwritten \subseteq Leads
  /\ grace \in [Leads -> 0 .. Grace] /\ manual \in [Leads -> 0 .. Grace]
  /\ leadStatus \in [Leads -> LeadStatus] /\ excused \subseteq Leads
  /\ handling \in [Handlers -> Handling \cup {Free}]

FlagsOK ==
  online \in BOOLEAN /\ wired \in BOOLEAN /\ listening \in BOOLEAN /\ alive \in BOOLEAN

LEMMA TypeParts == TypeOK <=> QueueOK /\ FlushOK /\ DialogOK /\ FlagsOK
  BY DEF TypeOK, QueueOK, FlushOK, DialogOK, FlagsOK, Outbox

\* A batch that loses its first row, or loses nothing, is still a batch.
LEMMA FlushingTypes ==
  ASSUME FlushOK, NEW r \in Rows, NEW from, NEW to, Flushing(r, from, to),
         to \in {"flushing", "sending", "delivered", "marked"}, Rows' = Rows
  PROVE  FlushOK'
  BY DEF FlushOK, Flushing, NextInBatch

LEMMA LostTypes ==
  ASSUME QueueOK, FlushLost, request' = request
  PROVE  /\ QueueOK' /\ Rows' = Rows
         /\ \A r \in 1 .. MaxReplies :
              lost'[r] = lost[r] + (IF stage = "delivered" /\ NextInBatch(r) THEN 1 ELSE 0)
  <1>1. \A r \in 1 .. MaxReplies : lost'[r] \in 0 .. MaxCrashes
    BY BoundsAssumption DEF QueueOK, FlushLost
  <1>2. lost' \in [1 .. MaxReplies -> 0 .. MaxCrashes]
    BY <1>1 DEF FlushLost
  <1> QED BY <1>2 DEF QueueOK, FlushLost, Outbox, Rows

LEMMA HandlesTypes ==
  ASSUME DialogOK, NEW h \in Handlers,
         NEW from \in {"drafting", "sending", "delivered"},
         NEW to \in {"sending", "delivered", "free"}, Handles(h, from, to)
  PROVE  /\ handling' \in [Handlers -> Handling \cup {Free}]
         /\ handling[h] \in Handling
         /\ handling[h].lead \in Leads
         /\ handling'[h] = IF to = "free" THEN Free ELSE [handling[h] EXCEPT !.stage = to]
         /\ \A i \in Handlers : i # h => handling'[i] = handling[i]
  <1>1. handling[h] \in Handling
    BY DEF DialogOK, Handles, Free
  <1>2. [handling[h] EXCEPT !.stage = to] \in Handling \/ to = "free"
    BY <1>1 DEF Handling
  <1> QED BY <1>1, <1>2 DEF DialogOK, Handles, Handling

\* mark_manual_reply and the clock keep the times of the dialogs within bounds.
LEMMA TimesCountDown ==
  ASSUME DialogOK, Tick
  PROVE  /\ DialogOK'
         /\ \A l \in Leads : /\ grace'[l] = CountDown(grace[l])
                             /\ manual'[l] = CountDown(manual[l])
  <1>1. \A n \in 0 .. Grace : CountDown(n) \in 0 .. Grace
    BY TimesAssumption DEF CountDown
  <1>2. \A l \in Leads : grace[l] \in 0 .. Grace /\ manual[l] \in 0 .. Grace
    BY DEF DialogOK
  <1>3. grace' \in [Leads -> 0 .. Grace] /\ manual' \in [Leads -> 0 .. Grace]
    BY <1>1, <1>2 DEF Tick
  <1> QED BY <1>3 DEF DialogOK, Tick, workerVars, leadVars

\* The endpoint, one commit after the other.
LEMMA ApiTypes ==
  ASSUME TypeOK, Api
  PROVE  TypeOK'
  <1> USE DEF dialogVars, flushVars, workerVars, leadVars
  <1>0. QueueOK /\ FlushOK /\ DialogOK /\ FlagsOK
    BY TypeParts
  <1>1. CASE QueueReply
    <2>1. request \in Request /\ request.lead \in Leads
      BY <1>0, <1>1 DEF QueueReply, QueueOK, NoRequest, Request
    <2>2. Outbox' /\ Len(outbox') = Len(outbox) + 1
      BY <1>0, <1>1, <2>1, Queued DEF QueueReply, QueueOK, NoRequest
    <2>3. request' \in Request /\ request'.stage = "queued"
      BY <1>1, <2>1 DEF QueueReply, Request
    <2>4. QueueOK'
      BY <1>0, <1>1, <2>2, <2>3 DEF QueueReply, QueueOK
    <2>5. Rows \subseteq Rows'
      BY <1>0, <2>2, OutboxRows DEF QueueOK, Rows
    <2>6. FlushOK'
      BY <1>0, <1>1, <2>5 DEF QueueReply, FlushOK
    <2>7. DialogOK' /\ FlagsOK'
      BY <1>0, <1>1 DEF QueueReply, DialogOK, FlagsOK
    <2> QED BY <2>4, <2>6, <2>7 DEF TypeOK, QueueOK, FlushOK, DialogOK, FlagsOK, Outbox
  <1>2. ASSUME NEW l \in Leads, ManualReply(l)
        PROVE  TypeOK'
    <2>1. request' = NoRequest \/ (request' \in Request /\ request'.stage = "marked"
                                   /\ Len(outbox) < MaxReplies)
      BY <1>2 DEF ManualReply, Request
    <2>2. QueueOK'
      BY <1>0, <1>2, <2>1 DEF ManualReply, QueueOK, Outbox
    <2>3. Grace \in 0 .. Grace
      BY TimesAssumption
    <2>4. grace' \in [Leads -> 0 .. Grace] /\ manual' \in [Leads -> 0 .. Grace]
      BY <1>0, <1>2, <2>3 DEF ManualReply, MarkManualReply, DialogOK
    <2>5. \A h \in Handlers : handling[h] # Free =>
            [handling[h] EXCEPT !.overtaken = TRUE] \in Handling
      BY <1>0 DEF DialogOK, Handling
    <2>6. handling' \in [Handlers -> Handling \cup {Free}]
      BY <1>0, <1>2, <2>5 DEF ManualReply, DialogOK
    <2>7. DialogOK'
      BY <1>0, <1>2, <2>4, <2>6 DEF ManualReply, MarkManualReply, DialogOK
    <2>8. FlushOK' /\ FlagsOK'
      BY <1>0, <1>2 DEF ManualReply, FlushOK, FlagsOK, Rows
    <2> QED BY <2>2, <2>7, <2>8 DEF TypeOK, QueueOK, FlushOK, DialogOK, FlagsOK, Outbox
  <1>3. CASE \/ FailLead \/ ApiChanges
             \/ \E l \in Leads, s \in LeadStatus : AdminSetsStatus(l, s)
    <2>1. LeadsOK'
      <3>1. LeadsOK
        BY <1>0 DEF DialogOK, LeadsOK
      <3>2. CASE FailLead
        <4>1. request.lead \in Leads
          BY <1>0, <3>2 DEF FailLead, QueueOK, NoRequest, Request
        <4> QED BY <3>1, <3>2, <4>1, Marking DEF FailLead, LeadStatus
      <3>3. CASE ApiChanges
        BY <3>1, <3>3 DEF ApiChanges, LeadsOK
      <3>4. ASSUME NEW l \in Leads, NEW status \in LeadStatus, AdminSetsStatus(l, status)
            PROVE  LeadsOK'
        BY <3>1, <3>4, Marking DEF AdminSetsStatus
      <3> QED BY <1>3, <3>2, <3>3, <3>4
    <2>2. request' = request \/ request' = NoRequest
      BY <1>3 DEF FailLead, ApiChanges, AdminSetsStatus
    <2>3. QueueOK'
      BY <1>0, <1>3, <2>2 DEF FailLead, ApiChanges, AdminSetsStatus, QueueOK, Outbox
    <2>4. DialogOK'
      BY <1>0, <1>3, <2>1 DEF FailLead, ApiChanges, AdminSetsStatus, DialogOK, LeadsOK
    <2>5. FlushOK' /\ FlagsOK'
      BY <1>0, <1>3 DEF FailLead, ApiChanges, AdminSetsStatus, FlushOK, FlagsOK, Rows
    <2> QED BY <2>3, <2>4, <2>5 DEF TypeOK, QueueOK, FlushOK, DialogOK, FlagsOK, Outbox
  <1> QED BY <1>1, <1>2, <1>3 DEF Api

\* The flush, one row after the other.
LEMMA FlushTypes ==
  ASSUME TypeOK, FlushStep
  PROVE  TypeOK'
  <1> USE DEF dialogVars, flushVars, workerVars, leadVars
  <1>0. QueueOK /\ FlushOK /\ DialogOK /\ FlagsOK
    BY TypeParts
  <1>1. FlagsOK' /\ request' = request /\ lost' = lost
    BY <1>0 DEF FlushStep, FlushStarts, FlushEnds, Expire, SendReply, DeliverReply,
         MarkSent, ClearFailure, ReplyFails, Flushing, FlagsOK
  <1>2. CASE FlushStarts \/ FlushEnds
    <2>1. FlushOK'
      BY <1>0, <1>2 DEF FlushStarts, FlushEnds, FlushOK, Pending, Rows
    <2>2. QueueOK' /\ DialogOK'
      BY <1>0, <1>1, <1>2 DEF FlushStarts, FlushEnds, QueueOK, DialogOK, Outbox
    <2> QED BY <1>1, <2>1, <2>2 DEF TypeOK, QueueOK, FlushOK, DialogOK, FlagsOK, Outbox
  <1>3. ASSUME NEW r \in Rows,
               \/ Expire(r) \/ SendReply(r) \/ DeliverReply(r)
               \/ MarkSent(r) \/ ClearFailure(r) \/ ReplyFails(r)
        PROVE  TypeOK'
    <2>1. Outbox' /\ Rows' = Rows
      BY <1>0, <1>3, Settled DEF Expire, SendReply, DeliverReply, MarkSent,
         ClearFailure, ReplyFails, QueueOK, Outbox, Rows
    <2>2. r \in 1 .. MaxReplies
      BY <1>0, OutboxRows DEF QueueOK
    <2>3. delivered' \in [1 .. MaxReplies -> Nat]
      BY <1>0, <1>3, <2>2 DEF Expire, SendReply, DeliverReply, MarkSent,
         ClearFailure, ReplyFails, QueueOK
    <2>4. QueueOK'
      <3>1. Len(outbox') = Len(outbox)
        BY <1>0, <1>3, ExceptSeq DEF Expire, SendReply, DeliverReply, MarkSent,
           ClearFailure, ReplyFails, Settle, QueueOK, Outbox, Rows
      <3> QED BY <1>0, <1>1, <2>1, <2>3, <3>1 DEF QueueOK
    <2>5. FlushOK'
      BY <1>0, <1>3, <2>1, FlushingTypes DEF Expire, SendReply, DeliverReply,
         MarkSent, ClearFailure, ReplyFails
    <2>6. LeadsOK'
      <3>1. LeadsOK
        BY <1>0 DEF DialogOK, LeadsOK
      <3>2. CASE ClearFailure(r)
        <4>1. outbox[r].lead \in Leads
          BY <1>0, OutboxRows DEF QueueOK, Row
        <4>2. CASE wired
          BY <3>1, <3>2, <4>1, <4>2, Marking DEF ClearFailure, SetLead, LeadStatus
        <4>3. CASE ~wired
          <5>1. LeaveFailed({outbox[r].lead}) /\ {outbox[r].lead} \in SUBSET Leads
            BY <3>2, <4>1, <4>3 DEF ClearFailure
          <5> QED BY <3>1, <5>1, Leaving
        <4> QED BY <4>2, <4>3
      <3>3. ~ClearFailure(r) => UNCHANGED leadVars
        BY <1>3 DEF Expire, SendReply, DeliverReply, MarkSent, ReplyFails
      <3> QED BY <3>1, <3>2, <3>3 DEF LeadsOK
    <2>7. DialogOK'
      BY <1>0, <1>3, <2>6 DEF Expire, SendReply, DeliverReply, MarkSent, ClearFailure,
         ReplyFails, Flushing, DialogOK, LeadsOK
    <2> QED BY <1>1, <2>4, <2>5, <2>7 DEF TypeOK, QueueOK, FlushOK, DialogOK, FlagsOK, Outbox
  <1> QED BY <1>2, <1>3 DEF FlushStep

\* The worker's task, its session, and the process.
LEMMA ProcessTypes ==
  ASSUME TypeOK, Process
  PROVE  TypeOK'
  <1> USE DEF dialogVars, flushVars, workerVars, leadVars
  <1>0. QueueOK /\ FlushOK /\ DialogOK /\ FlagsOK
    BY TypeParts
  <1>1. FlagsOK' /\ request' = request
    BY <1>0 DEF Process, Connect, WorkerExits, AutoResume, SessionDies, Restart, FlagsOK
  <1>2. DialogOK'
    <2>1. CASE FlushLost
      <3>1. LeadsOK /\ {outbox[r].lead : r \in Marked} \in SUBSET Leads
        BY <1>0, MarkedLeads DEF DialogOK, LeadsOK, QueueOK, FlushOK
      <3>2. LeadsOK'
        BY <2>1, <3>1, Leaving DEF FlushLost
      <3> QED BY <1>0, <3>2 DEF Process, Connect, WorkerExits, AutoResume, SessionDies,
                 Restart, DialogOK, LeadsOK, Free
    <2>2. CASE Connect \/ AutoResume \/ SessionDies
      BY <1>0, <2>2 DEF Connect, AutoResume, SessionDies, DialogOK
    <2> QED BY <2>1, <2>2 DEF Process, WorkerExits, Restart
  <1>3. CASE WorkerExits \/ Restart
    <2>1. QueueOK' /\ Rows' = Rows
      BY <1>0, <1>1, <1>3, LostTypes DEF WorkerExits, Restart
    <2>2. FlushOK'
      BY <1>3, <2>1 DEF WorkerExits, Restart, FlushLost, FlushOK
    <2> QED BY <1>1, <1>2, <2>1, <2>2 DEF TypeOK, QueueOK, FlushOK, DialogOK, FlagsOK, Outbox
  <1>4. CASE Connect \/ AutoResume \/ SessionDies
    <2>1. QueueOK' /\ FlushOK'
      BY <1>0, <1>4 DEF Connect, AutoResume, SessionDies, QueueOK, FlushOK, Outbox, Rows
    <2> QED BY <1>1, <1>2, <2>1 DEF TypeOK, QueueOK, FlushOK, DialogOK, FlagsOK, Outbox
  <1> QED BY <1>3, <1>4 DEF Process

\* The reply handlers and the cold send.
LEMMA ReplyTypes ==
  ASSUME TypeOK, Replies
  PROVE  TypeOK'
  <1> USE DEF dialogVars, flushVars, workerVars, leadVars
  <1>0. QueueOK /\ FlushOK /\ DialogOK /\ FlagsOK
    BY TypeParts
  <1>1. QueueOK' /\ FlushOK' /\ FlagsOK'
    BY <1>0 DEF Replies, DraftEnds, AnswerDelivered, AnswerFails, AnswerRecorded,
       TakeUp, ColdSent, Handles, QueueOK, FlushOK, FlagsOK, Outbox, Rows
  <1>2. ASSUME NEW h \in Handlers,
               DraftEnds(h) \/ AnswerDelivered(h) \/ AnswerFails(h) \/ AnswerRecorded(h)
        PROVE  DialogOK'
    <2>1. PICK from \in {"drafting", "sending", "delivered"},
               to \in {"sending", "delivered", "free"} : Handles(h, from, to)
      BY <1>2 DEF DraftEnds, AnswerDelivered, AnswerFails, AnswerRecorded
    <2>2. /\ handling' \in [Handlers -> Handling \cup {Free}]
          /\ handling[h].lead \in Leads
      BY <1>0, <2>1, HandlesTypes
    <2>3. LeadsOK'
      <3>1. LeadsOK
        BY <1>0 DEF DialogOK, LeadsOK
      <3>2. SetLead(handling[h].lead, "open") \/ UNCHANGED leadVars
        BY <1>2 DEF DraftEnds, AnswerDelivered, AnswerFails, AnswerRecorded
      <3> QED BY <2>2, <3>1, <3>2, Marking DEF SetLead, LeadStatus, LeadsOK
    <2> QED BY <1>0, <2>1, <2>2, <2>3 DEF Handles, DialogOK, LeadsOK
  <1>3. ASSUME NEW h \in Handlers, NEW l \in Leads, TakeUp(h, l)
        PROVE  DialogOK'
    <2>1. [stage |-> "drafting", lead |-> l, overtaken |-> FALSE] \in Handling
      BY DEF Handling
    <2> QED BY <1>0, <1>3, <2>1 DEF TakeUp, DialogOK
  <1>4. ASSUME NEW l \in Leads, ColdSent(l)
        PROVE  DialogOK'
    <2>1. 0 \in 0 .. Grace
      BY TimesAssumption
    <2>2. LeadsOK'
      BY <1>0, <1>4, Marking DEF ColdSent, SetLead, DialogOK, LeadStatus, LeadsOK
    <2> QED BY <1>0, <1>4, <2>1, <2>2 DEF ColdSent, DialogOK, LeadsOK
  <1> QED BY <1>1, <1>2, <1>3, <1>4
          DEF Replies, TypeOK, QueueOK, FlushOK, DialogOK, FlagsOK, Outbox

LEMMA TickTypes ==
  ASSUME TypeOK, Tick
  PROVE  TypeOK' /\ Rows' = Rows
  <1>0. QueueOK /\ FlushOK /\ DialogOK /\ FlagsOK
    BY TypeParts
  <1>1. Outbox' /\ Rows' = Rows
    BY <1>0, Ticked DEF QueueOK, Tick
  <1>2. Len(outbox') = Len(outbox)
    BY <1>0, <1>1 DEF QueueOK, Outbox, Rows
  <1>3. QueueOK' /\ FlushOK' /\ FlagsOK'
    BY <1>0, <1>1, <1>2 DEF Tick, QueueOK, FlushOK, FlagsOK, workerVars
  <1>4. DialogOK'
    BY <1>0, TimesCountDown
  <1> QED BY <1>1, <1>3, <1>4 DEF TypeOK, QueueOK, FlushOK, DialogOK, FlagsOK, Outbox

LEMMA TypeStep ==
  ASSUME TypeOK, [Next]_vars
  PROVE  TypeOK'
  <1>1. CASE UNCHANGED vars
    BY <1>1 DEF vars, dialogVars, flushVars, workerVars, leadVars, TypeOK, Rows
  <1> QED BY <1>1, ApiTypes, FlushTypes, ProcessTypes, ReplyTypes, TickTypes DEF Next

\* Every reachable state is well typed; a batch holds rows of the outbox, and
\* exists only while the flush runs.
THEOREM TypeCorrect == Spec => []TypeOK
  <1>1. Init => TypeOK
    <2> SUFFICES ASSUME Init PROVE TypeOK OBVIOUS
    <2>1. outbox \in Seq(Row) /\ Len(outbox) = 0 /\ Len(outbox) <= MaxReplies
      BY BoundsAssumption DEF Init
    <2>2. grace \in [Leads -> 0 .. Grace] /\ manual \in [Leads -> 0 .. Grace]
      BY TimesAssumption DEF Init
    <2>3. lost \in [1 .. MaxReplies -> 0 .. MaxCrashes]
      BY BoundsAssumption DEF Init
    <2>4. delivered \in [1 .. MaxReplies -> Nat]
      BY DEF Init
    <2> QED BY <2>1, <2>2, <2>3, <2>4 DEF Init, TypeOK, LeadStatus, NoRequest
  <1>2. TypeOK /\ [Next]_vars => TypeOK'
    BY TypeStep
  <1> QED BY <1>1, <1>2, PTL DEF Spec

-----------------------------------------------------------------------------
(* Delivery.  A reply is delivered only out of a pending row in hand, so   *)
(* one that is pending and not in hand has been delivered only as often as *)
(* a crash lost the news.  The flush works on its batch from the front,    *)
(* and every older pending row is in the batch too.                        *)

InHand(r) == stage \in {"delivered", "marked"} /\ NextInBatch(r)

Counted(r) ==
  IF r \in Rows
  THEN /\ delivered[r] <= 1 + lost[r]
       /\ outbox[r].status = "pending" /\ ~InHand(r) => delivered[r] <= lost[r]
       /\ outbox[r].status = "sent" \/ InHand(r) => delivered[r] > 0
  ELSE delivered[r] = 0

CountInv == \A r \in 1 .. MaxReplies : Counted(r)

BatchInv ==
  /\ \A r \in batch :
       outbox[r].status = "pending" <=> ~(stage = "marked" /\ NextInBatch(r))
  /\ \A r \in Pending, s \in batch : r < s => r \in batch

OrderInv ==
  \A r, s \in Rows : r < s /\ delivered[s] > 0 => outbox[r].status # "pending"

DeliveryInv == CountInv /\ BatchInv /\ OrderInv

LEMMA OneFirst ==
  ASSUME FlushOK, NEW r, NEW s, NextInBatch(r), NextInBatch(s)
  PROVE  r = s
  BY DEF NextInBatch, FlushOK, Rows

\* Nothing that the invariant speaks of changes.
LEMMA DeliveryFrame ==
  ASSUME DeliveryInv, UNCHANGED <<outbox, stage, batch, delivered, lost>>
  PROVE  DeliveryInv'
  BY DEF DeliveryInv, CountInv, Counted, BatchInv, OrderInv, InHand, NextInBatch,
         Pending, Rows

LEMMA DeliveryQueue ==
  ASSUME TypeOK, DeliveryInv, QueueReply
  PROVE  DeliveryInv'
  <1> DEFINE n == Len(outbox) + 1
  <1>0. QueueOK /\ FlushOK
    BY TypeParts
  <1>1. request.lead \in Leads /\ Len(outbox) < MaxReplies
    BY <1>0 DEF QueueReply, QueueOK, NoRequest, Request
  <1>2. /\ Outbox' /\ Len(outbox') = n
        /\ \A q \in Rows : outbox'[q] = outbox[q]
    BY <1>0, <1>1, Queued DEF QueueReply, QueueOK
  <1>3. Len(outbox) \in Nat /\ n \in 1 .. MaxReplies
    BY <1>0, <1>1, OutboxRows, BoundsAssumption DEF QueueOK
  <1>4. Rows' = Rows \cup {n} /\ \A q \in Rows : q < n
    BY <1>2, <1>3 DEF Rows
  <1>5. /\ UNCHANGED <<stage, batch, delivered, lost>>
        /\ \A r : InHand(r)' <=> InHand(r)
        /\ \A r : NextInBatch(r)' <=> NextInBatch(r)
    BY DEF QueueReply, InHand, NextInBatch
  <1>6. n \notin Rows /\ n \notin batch
    BY <1>0, <1>4 DEF FlushOK
  <1>7. delivered[n] = 0 /\ ~InHand(n) /\ lost[n] \in Nat
    BY <1>0, <1>3, <1>6 DEF DeliveryInv, CountInv, Counted, InHand, NextInBatch, QueueOK
  <1>8. outbox'[n].status = "pending"
    BY <1>0, <1>3 DEF QueueReply, QueueOK, Outbox
  <1> HIDE DEF n
  <1>9. CountInv'
    <2> SUFFICES ASSUME NEW r \in 1 .. MaxReplies
                 PROVE  Counted(r)'
      BY DEF CountInv
    <2>1. CASE r = n
      BY <2>1, <1>4, <1>5, <1>7, <1>8 DEF Counted
    <2>2. CASE r # n
      <3>1. Counted(r)
        BY DEF DeliveryInv, CountInv
      <3>2. r \in Rows => outbox'[r] = outbox[r]
        BY <1>2
      <3>3. r \in Rows' <=> r \in Rows
        BY <1>4, <2>2
      <3>4. InHand(r)' <=> InHand(r)
        BY <1>5
      <3>5. delivered'[r] = delivered[r] /\ lost'[r] = lost[r]
        BY <1>5
      <3> QED BY <3>1, <3>2, <3>3, <3>4, <3>5 DEF Counted
    <2> QED BY <2>1, <2>2
  <1>10. BatchInv'
    <2>1. \A r \in batch : r \in Rows /\ r # n
      BY <1>0, <1>6 DEF FlushOK
    <2>2. Pending' = Pending \cup {n}
      BY <1>2, <1>4, <1>8 DEF Pending
    <2>3. \A s \in batch : s < n
      BY <2>1, <1>4
    <2>4. \A s \in batch : ~(n < s)
      BY <2>3, <2>1, <1>3 DEF Rows
    <2> QED BY <2>1, <2>2, <2>4, <1>2, <1>5 DEF DeliveryInv, BatchInv
  <1>11. OrderInv'
    <2> SUFFICES ASSUME NEW r \in Rows', NEW s \in Rows', r < s, delivered'[s] > 0
                 PROVE  outbox'[r].status # "pending"
      BY DEF OrderInv
    <2>1. s # n /\ s \in Rows
      BY <1>4, <1>5, <1>7
    <2>2. r # n
      BY <2>1, <1>4, <1>3 DEF Rows
    <2> QED BY <2>1, <2>2, <1>2, <1>4, <1>5 DEF DeliveryInv, OrderInv
  <1> QED BY <1>9, <1>10, <1>11 DEF DeliveryInv

\* What every step of the flush with a row has in common.
LEMMA RowStep ==
  ASSUME TypeOK, DeliveryInv, NEW r \in Rows,
         \/ Expire(r) \/ SendReply(r) \/ DeliverReply(r)
         \/ MarkSent(r) \/ ClearFailure(r) \/ ReplyFails(r)
  PROVE  /\ NextInBatch(r) /\ r \in 1 .. MaxReplies
         /\ Rows' = Rows /\ lost' = lost
         /\ \A q \in Rows : q # r => outbox'[q] = outbox[q]
         /\ \A q \in Rows : q # r => ~InHand(q) /\ ~InHand(q)'
         /\ \A q \in 1 .. MaxReplies : q # r => delivered'[q] = delivered[q]
         /\ batch' = IF stage' = "flushing" THEN batch \ {r} ELSE batch
         /\ stage \in {"flushing", "sending", "delivered", "marked"}
         /\ stage' \in {"flushing", "sending", "delivered", "marked"}
  <1>0. QueueOK /\ FlushOK
    BY TypeParts
  <1>1. NextInBatch(r) /\ r \in 1 .. MaxReplies
    BY <1>0, OutboxRows DEF QueueOK, Expire, SendReply, DeliverReply, MarkSent,
       ClearFailure, ReplyFails, Flushing
  <1>2. /\ lost' = lost
        /\ batch' = IF stage' = "flushing" THEN batch \ {r} ELSE batch
        /\ stage \in {"flushing", "sending", "delivered", "marked"}
        /\ stage' \in {"flushing", "sending", "delivered", "marked"}
    BY DEF Expire, SendReply, DeliverReply, MarkSent, ClearFailure, ReplyFails, Flushing
  <1>3. Rows' = Rows /\ \A q \in Rows : q # r => outbox'[q] = outbox[q]
    BY <1>0, Settled DEF QueueOK, Expire, SendReply, DeliverReply, MarkSent,
       ClearFailure, ReplyFails, Rows
  <1>4. \A q \in 1 .. MaxReplies : q # r => delivered'[q] = delivered[q]
    BY <1>0 DEF QueueOK, Expire, SendReply, DeliverReply, MarkSent, ClearFailure, ReplyFails
  <1>5. \A q \in Rows : q # r => ~NextInBatch(q)
    BY <1>0, <1>1, OneFirst
  <1>6. \A q \in Rows : q # r => ~InHand(q) /\ ~InHand(q)'
    BY <1>2, <1>5 DEF InHand, NextInBatch
  <1> QED BY <1>1, <1>2, <1>3, <1>4, <1>6

\* Each step of the flush, told by what becomes of its row.
LEMMA RowOutcome ==
  ASSUME TypeOK, DeliveryInv, NEW r \in Rows,
         \/ Expire(r) \/ SendReply(r) \/ DeliverReply(r)
         \/ MarkSent(r) \/ ClearFailure(r) \/ ReplyFails(r)
  PROVE  \/ /\ stage' = "flushing" /\ delivered' = delivered
            /\ outbox'[r].status = "failed"
         \/ /\ stage = "flushing" /\ stage' = "sending" /\ delivered' = delivered
            /\ outbox'[r].status = outbox[r].status
         \/ /\ stage = "sending" /\ stage' = "delivered"
            /\ delivered'[r] = delivered[r] + 1
            /\ outbox'[r].status = outbox[r].status
         \/ /\ stage = "delivered" /\ stage' = "marked" /\ delivered' = delivered
            /\ outbox'[r].status = "sent"
         \/ /\ stage = "marked" /\ stage' = "flushing" /\ delivered' = delivered
            /\ outbox'[r].status = outbox[r].status
  <1>0. Outbox /\ QueueOK
    BY TypeParts DEF QueueOK
  <1>1. r \in 1 .. MaxReplies
    BY <1>0, OutboxRows
  <1>2. CASE Expire(r) \/ ReplyFails(r)
    <2>1. outbox'[r].status = "failed"
      BY <1>0, <1>2, Settled DEF Expire, ReplyFails
    <2> QED BY <1>2, <2>1 DEF Expire, ReplyFails, Flushing
  <1>3. CASE SendReply(r) \/ ClearFailure(r)
    BY <1>3 DEF SendReply, ClearFailure, Flushing
  <1>4. CASE DeliverReply(r)
    BY <1>0, <1>1, <1>4 DEF DeliverReply, Flushing, QueueOK
  <1>5. CASE MarkSent(r)
    <2>1. outbox'[r].status = "sent"
      BY <1>0, <1>5, Settled DEF MarkSent
    <2> QED BY <1>5, <2>1 DEF MarkSent, Flushing
  <1> QED BY <1>2, <1>3, <1>4, <1>5

LEMMA DeliveryRow ==
  ASSUME TypeOK, DeliveryInv, NEW r \in Rows,
         \/ Expire(r) \/ SendReply(r) \/ DeliverReply(r)
         \/ MarkSent(r) \/ ClearFailure(r) \/ ReplyFails(r)
  PROVE  DeliveryInv'
  <1>0. FlushOK /\ QueueOK
    BY TypeParts
  <1> DEFINE
    Common == /\ NextInBatch(r) /\ r \in 1 .. MaxReplies
              /\ Rows' = Rows /\ lost' = lost
              /\ batch' = IF stage' = "flushing" THEN batch \ {r} ELSE batch
              /\ stage \in {"flushing", "sending", "delivered", "marked"}
              /\ stage' \in {"flushing", "sending", "delivered", "marked"}
  <1>1. Common
    BY RowStep
  <1>2. /\ \A q \in Rows : q # r => outbox'[q] = outbox[q]
        /\ \A q \in Rows : q # r => ~InHand(q) /\ ~InHand(q)'
        /\ \A q \in 1 .. MaxReplies : q # r => delivered'[q] = delivered[q]
    BY RowStep
  <1>3. /\ r \in batch
        /\ NextInBatch(r)' <=> stage' # "flushing"
        /\ InHand(r) <=> stage \in {"delivered", "marked"}
        /\ InHand(r)' <=> stage' \in {"delivered", "marked"}
    BY <1>1 DEF NextInBatch, InHand
  <1>4. outbox[r].status = "pending" <=> stage # "marked"
    BY <1>1, <1>3 DEF DeliveryInv, BatchInv
  <1>5. delivered[r] \in Nat /\ lost[r] \in Nat
    BY <1>0, <1>1 DEF QueueOK
  <1>6. Counted(r)
    BY <1>1 DEF DeliveryInv, CountInv
  <1> HIDE DEF Common
  <1>7. Counted(r)'
    <2> USE <1>1, <1>3, <1>4, <1>5, <1>6 DEF Common, Counted
    <2>1. CASE stage' = "flushing" /\ delivered' = delivered /\ outbox'[r].status = "failed"
      BY <2>1
    <2>2. CASE /\ stage = "flushing" /\ stage' = "sending" /\ delivered' = delivered
               /\ outbox'[r].status = outbox[r].status
      BY <2>2
    <2>3. CASE /\ stage = "sending" /\ stage' = "delivered"
               /\ delivered'[r] = delivered[r] + 1
               /\ outbox'[r].status = outbox[r].status
      BY <2>3
    <2>4. CASE /\ stage = "delivered" /\ stage' = "marked" /\ delivered' = delivered
               /\ outbox'[r].status = "sent"
      BY <2>4
    <2>5. CASE /\ stage = "marked" /\ stage' = "flushing" /\ delivered' = delivered
               /\ outbox'[r].status = outbox[r].status
      BY <2>5
    <2> QED BY <2>1, <2>2, <2>3, <2>4, <2>5, RowOutcome
  <1>8. CountInv'
    <2> SUFFICES ASSUME NEW q \in 1 .. MaxReplies, q # r
                 PROVE  Counted(q)'
      BY <1>7 DEF CountInv
    <2>1. Counted(q)
      BY DEF DeliveryInv, CountInv
    <2> QED BY <2>1, <1>1, <1>2 DEF Common, Counted
  <1>9. outbox'[r].status = "pending" =>
          outbox[r].status = "pending" /\ stage' \in {"sending", "delivered"}
    BY <1>4, RowOutcome
  <1>10. Pending' \subseteq Pending /\ (r \in Pending' => r \in batch')
    BY <1>1, <1>2, <1>3, <1>9 DEF Common, Pending
  <1>11. BatchInv'
    <2>1. batch' \subseteq batch /\ batch' \subseteq Rows /\ batch \subseteq Rows
      BY <1>0, <1>1 DEF Common, FlushOK
    <2>2. ASSUME NEW q \in batch'
          PROVE  (outbox[q].status = "pending" <=> ~(stage = "marked" /\ NextInBatch(q)))'
      <3>1. CASE q = r
        BY <3>1, <1>1, <1>3, <1>4, RowOutcome DEF Common
      <3>2. CASE q # r
        <4>1. ~NextInBatch(q) /\ outbox[q].status = "pending"
          BY <1>0, <1>1, <2>1, <3>2, OneFirst DEF Common, DeliveryInv, BatchInv
        <4>2. ~(stage' = "marked" /\ NextInBatch(q)')
          BY <1>2, <2>1, <3>2 DEF InHand
        <4> QED BY <4>1, <4>2, <1>2, <2>1, <3>2
      <3> QED BY <3>1, <3>2
    <2>3. ASSUME NEW p \in Pending', NEW q \in batch', p < q
          PROVE  p \in batch'
      BY <1>1, <1>10, <2>1, <2>3 DEF Common, DeliveryInv, BatchInv
    <2> QED BY <2>2, <2>3 DEF BatchInv
  <1>12. OrderInv'
    <2> SUFFICES ASSUME NEW p \in Rows, NEW q \in Rows, p < q, delivered'[q] > 0,
                        outbox'[p].status = "pending"
                 PROVE  FALSE
      BY <1>1 DEF Common, OrderInv
    <2>1. p \in Pending /\ outbox[p].status = "pending"
      BY <1>1, <1>10 DEF Common, Pending
    <2>2. ~(delivered[q] > 0)
      BY <2>1 DEF DeliveryInv, OrderInv, Pending
    <2>3. q = r
      BY <2>2, <1>0, <1>2, OutboxRows DEF QueueOK
    <2>4. p \in batch
      BY <2>1, <2>3, <1>3 DEF DeliveryInv, BatchInv
    <2>5. r <= p
      BY <2>4, <1>1 DEF Common, NextInBatch
    <2> QED BY <2>3, <2>5 DEF Rows
  <1> QED BY <1>8, <1>11, <1>12 DEF DeliveryInv

LEMMA DeliveryList ==
  ASSUME TypeOK, DeliveryInv, FlushStarts \/ FlushEnds
  PROVE  DeliveryInv'
  <1>0. FlushOK
    BY TypeParts
  <1>1. /\ UNCHANGED <<outbox, delivered, lost>> /\ Rows' = Rows
        /\ stage \in {"idle", "flushing"} /\ stage' \in {"idle", "flushing"}
    BY DEF FlushStarts, FlushEnds, Rows
  <1>2. batch' = Pending \/ (batch = {} /\ batch' = {})
    BY DEF FlushStarts, FlushEnds
  <1>3. CountInv' /\ OrderInv'
    BY <1>1 DEF DeliveryInv, CountInv, Counted, OrderInv, InHand
  <1>4. Pending' = Pending
    BY <1>1 DEF Pending
  <1>5. BatchInv'
    BY <1>1, <1>2, <1>4 DEF BatchInv, Pending
  <1> QED BY <1>3, <1>5 DEF DeliveryInv

\* A crash counts a delivery that nobody recorded.
LEMMA DeliveryLost ==
  ASSUME TypeOK, DeliveryInv, WorkerExits \/ Restart
  PROVE  DeliveryInv'
  <1>0. QueueOK /\ FlushOK
    BY TypeParts
  <1>1. /\ FlushLost /\ stage' \in {"down", "starting"} /\ request' = request
    BY DEF WorkerExits, Restart
  <1>2. /\ outbox' = outbox /\ delivered' = delivered /\ batch' = {} /\ Rows' = Rows
        /\ \A r \in 1 .. MaxReplies :
             lost'[r] = lost[r] + (IF stage = "delivered" /\ NextInBatch(r) THEN 1 ELSE 0)
    BY <1>0, <1>1, LostTypes DEF FlushLost
  <1>3. ASSUME NEW r \in 1 .. MaxReplies PROVE Counted(r)'
    <2>1. Counted(r) /\ delivered[r] \in Nat /\ lost[r] \in Nat
      BY <1>0 DEF DeliveryInv, CountInv, QueueOK
    <2>2. ~InHand(r)'
      BY <1>1 DEF InHand
    <2>3. r \in Rows /\ outbox[r].status = "pending" /\ InHand(r)
            => stage = "delivered" /\ NextInBatch(r)
      BY DEF DeliveryInv, BatchInv, InHand, NextInBatch
    <2>4. CASE stage = "delivered" /\ NextInBatch(r)
      <3>1. lost'[r] = lost[r] + 1
        BY <1>2, <2>4
      <3> QED BY <3>1, <1>2, <2>1, <2>2 DEF Counted
    <2>5. CASE ~(stage = "delivered" /\ NextInBatch(r))
      <3>1. lost'[r] = lost[r]
        BY <1>2, <2>1, <2>5
      <3> QED BY <3>1, <1>2, <2>1, <2>2, <2>3, <2>5 DEF Counted
    <2> QED BY <2>4, <2>5
  <1>4. BatchInv' /\ OrderInv'
    BY <1>2 DEF DeliveryInv, BatchInv, OrderInv
  <1> QED BY <1>3, <1>4 DEF DeliveryInv, CountInv

LEMMA DeliveryIdle ==
  ASSUME TypeOK, DeliveryInv, Connect \/ AutoResume
  PROVE  DeliveryInv'
  <1>1. batch = {}
    BY TypeParts DEF FlushOK, Connect, AutoResume
  <1>2. UNCHANGED <<outbox, delivered, lost, batch>> /\ Rows' = Rows
    BY DEF Connect, AutoResume, Rows
  <1>3. ~(stage \in {"delivered", "marked"}) /\ ~(stage' \in {"delivered", "marked"})
    BY DEF Connect, AutoResume
  <1> QED BY <1>1, <1>2, <1>3
          DEF DeliveryInv, CountInv, Counted, BatchInv, OrderInv, InHand

LEMMA DeliveryTick ==
  ASSUME TypeOK, DeliveryInv, Tick
  PROVE  DeliveryInv'
  <1>0. QueueOK /\ FlushOK
    BY TypeParts
  <1>1. /\ Rows' = Rows /\ UNCHANGED <<delivered, lost, stage, batch>>
        /\ \A q \in Rows : outbox'[q].status = outbox[q].status
    BY <1>0, Ticked DEF Tick, QueueOK
  <1>2. Pending' = Pending
    BY <1>1 DEF Pending
  <1>3. \A r : /\ InHand(r)' <=> InHand(r)
               /\ NextInBatch(r)' <=> NextInBatch(r)
    BY <1>1 DEF InHand, NextInBatch
  <1>4. \A r \in 1 .. MaxReplies : Counted(r)'
    BY <1>1, <1>3 DEF DeliveryInv, CountInv, Counted
  <1>5. \A r \in batch : r \in Rows
    BY <1>0 DEF FlushOK
  <1>6. BatchInv'
    BY <1>1, <1>2, <1>3, <1>5 DEF DeliveryInv, BatchInv
  <1>7. OrderInv'
    BY <1>1 DEF DeliveryInv, OrderInv
  <1> QED BY <1>4, <1>6, <1>7 DEF DeliveryInv, CountInv

LEMMA DeliveryStep ==
  ASSUME TypeOK, DeliveryInv, [Next]_vars
  PROVE  DeliveryInv'
  <1>1. CASE UNCHANGED <<outbox, stage, batch, delivered, lost>>
    BY <1>1, DeliveryFrame
  <1>2. CASE Api
    <2>1. ~QueueReply => UNCHANGED <<outbox, stage, batch, delivered, lost>>
      BY <1>2 DEF Api, FailLead, ApiChanges, ManualReply, AdminSetsStatus, flushVars
    <2> QED BY <1>1, <2>1, DeliveryQueue
  <1>3. CASE FlushStep
    BY <1>3, DeliveryRow, DeliveryList DEF FlushStep
  <1>4. CASE Process
    <2>1. SessionDies => UNCHANGED <<outbox, stage, batch, delivered, lost>>
      BY DEF SessionDies, flushVars
    <2> QED BY <1>1, <1>4, <2>1, DeliveryLost, DeliveryIdle DEF Process
  <1>5. CASE Replies
    <2>1. UNCHANGED flushVars
      BY <1>5 DEF Replies, DraftEnds, AnswerDelivered, AnswerFails, AnswerRecorded,
         TakeUp, ColdSent, Handles
    <2> QED BY <1>1, <2>1 DEF flushVars
  <1>6. CASE UNCHANGED vars
    BY <1>1, <1>6 DEF vars, flushVars
  <1> QED BY <1>2, <1>3, <1>4, <1>5, <1>6, DeliveryTick DEF Next

\* The inductive invariant of the queue.
THEOREM DeliveryInvariant == Spec => [](TypeOK /\ DeliveryInv)
  <1>1. Init => DeliveryInv
    <2> SUFFICES ASSUME Init PROVE DeliveryInv OBVIOUS
    <2>1. Rows = {} /\ batch = {} /\ delivered = [r \in 1 .. MaxReplies |-> 0]
      BY DEF Init, Rows
    <2> QED BY <2>1 DEF DeliveryInv, CountInv, Counted, BatchInv, OrderInv, Pending
  <1>2. TypeOK /\ DeliveryInv /\ [Next]_vars => DeliveryInv'
    BY DeliveryStep
  <1> QED BY <1>1, <1>2, TypeCorrect, PTL DEF Spec

\* A queued reply is delivered once, and once more for each crash that lost
\* the news of a delivery.
THEOREM DeliveredOnceHolds == Spec => []DeliveredOnce
  <1>1. TypeOK /\ DeliveryInv => DeliveredOnce
    BY TypeParts, OutboxRows DEF QueueOK, DeliveryInv, CountInv, Counted, DeliveredOnce
  <1> QED BY <1>1, DeliveryInvariant, PTL

\* What the outbox calls sent has been accepted by Telegram.
THEOREM SentWasDeliveredHolds == Spec => []SentWasDelivered
  <1>1. TypeOK /\ DeliveryInv => SentWasDelivered
    BY TypeParts, OutboxRows DEF QueueOK, DeliveryInv, CountInv, Counted, SentWasDelivered
  <1> QED BY <1>1, DeliveryInvariant, PTL

\* Replies reach their lead in the order they were written.
THEOREM WrittenOrderHolds == Spec => []WrittenOrder
  <1>1. DeliveryInv => WrittenOrder
    BY DEF DeliveryInv, OrderInv, WrittenOrder
  <1> QED BY <1>1, DeliveryInvariant, PTL

-----------------------------------------------------------------------------
(* The grace time.  Unless a cold send has overwritten it, the dialog row  *)
(* of a lead holds the grace time of the last manual reply: a message is   *)
(* taken up within it only of a lead whose row was overwritten.            *)

GraceInv ==
  /\ \A l \in Leads : l \notin overwritten => grace[l] = manual[l]
  /\ GraceExplained

LEMMA GraceStep ==
  ASSUME TypeOK, GraceInv, [Next]_vars
  PROVE  GraceInv'
  <1> USE DEF dialogVars, flushVars, workerVars, leadVars
  <1>0. DialogOK
    BY TypeParts
  <1> DEFINE Same == UNCHANGED <<grace, manual, overwritten, handling>>
  <1>1. CASE Same
    BY <1>1 DEF GraceInv, GraceExplained
  <1>2. ASSUME NEW l \in Leads, ManualReply(l)
        PROVE  GraceInv'
    <2>1. grace'[l] = Grace /\ manual'[l] = Grace /\ overwritten' = overwritten \ {l}
      BY <1>0, <1>2 DEF ManualReply, MarkManualReply, DialogOK
    <2>2. \A k \in Leads : k # l => grace'[k] = grace[k] /\ manual'[k] = manual[k]
      BY <1>0, <1>2 DEF ManualReply, MarkManualReply, DialogOK
    <2>3. ASSUME NEW h \in Handlers, handling'[h] # Free,
                 manual'[handling'[h].lead] > 0
          PROVE  handling'[h].overtaken \/ handling'[h].lead \in overwritten'
      <3>1. CASE handling[h] # Free /\ handling[h].lead = l
        <4>1. handling'[h] = [handling[h] EXCEPT !.overtaken = TRUE]
          BY <1>2, <3>1 DEF ManualReply
        <4>2. handling[h] \in Handling
          BY <1>0, <3>1 DEF DialogOK
        <4> QED BY <4>1, <4>2 DEF Handling
      <3>2. CASE ~(handling[h] # Free /\ handling[h].lead = l)
        <4>1. handling'[h] = handling[h] /\ handling[h] # Free /\ handling[h].lead # l
          BY <1>2, <2>3, <3>2 DEF ManualReply
        <4>2. handling[h].lead \in Leads
          BY <1>0, <4>1 DEF DialogOK, Handling
        <4>3. manual[handling[h].lead] > 0
          BY <2>2, <2>3, <4>1, <4>2
        <4>4. handling[h].overtaken \/ handling[h].lead \in overwritten
          BY <4>1, <4>3 DEF GraceInv, GraceExplained
        <4> QED BY <2>1, <4>1, <4>4
      <3> QED BY <3>1, <3>2
    <2> QED BY <2>1, <2>2, <2>3 DEF GraceInv, GraceExplained
  <1>3. CASE Tick
    <2>1. \A l \in Leads : /\ grace'[l] = CountDown(grace[l])
                           /\ manual'[l] = CountDown(manual[l])
      BY <1>0, <1>3, TimesCountDown
    <2>2. handling' = handling /\ overwritten' = overwritten
      BY <1>3 DEF Tick
    <2>3. \A l \in Leads : manual[l] \in 0 .. Grace
      BY <1>0 DEF DialogOK
    <2>4. \A l \in Leads : manual'[l] > 0 => manual[l] > 0
      BY <2>1, <2>3, TimesAssumption DEF CountDown
    <2>5. \A h \in Handlers : handling[h] # Free => handling[h].lead \in Leads
      BY <1>0 DEF DialogOK, Handling
    <2> QED BY <2>1, <2>2, <2>4, <2>5 DEF GraceInv, GraceExplained
  <1>4. ASSUME NEW h \in Handlers, NEW l \in Leads, TakeUp(h, l)
        PROVE  GraceInv'
    <2>1. /\ UNCHANGED <<grace, manual, overwritten>>
          /\ handling'[h] = [stage |-> "drafting", lead |-> l, overtaken |-> FALSE]
          /\ \A i \in Handlers : i # h => handling'[i] = handling[i]
      BY <1>0, <1>4 DEF TakeUp, DialogOK
    <2>2. ~(manual[l] > 0) \/ l \in overwritten
      BY <1>0, <1>4 DEF TakeUp, GraceInv, DialogOK
    <2> QED BY <2>1, <2>2 DEF GraceInv, GraceExplained
  <1>5. ASSUME NEW h \in Handlers,
               DraftEnds(h) \/ AnswerDelivered(h) \/ AnswerFails(h) \/ AnswerRecorded(h)
        PROVE  GraceInv'
    <2>1. PICK from \in {"drafting", "sending", "delivered"},
               to \in {"sending", "delivered", "free"} : Handles(h, from, to)
      BY <1>5 DEF DraftEnds, AnswerDelivered, AnswerFails, AnswerRecorded
    <2>2. /\ handling[h] \in Handling
          /\ handling'[h] = IF to = "free" THEN Free ELSE [handling[h] EXCEPT !.stage = to]
          /\ \A i \in Handlers : i # h => handling'[i] = handling[i]
      BY <1>0, <2>1, HandlesTypes
    <2>3. handling[h] # Free
      BY <2>1 DEF Handles, Free
    <2>4. handling'[h] # Free => /\ handling'[h].lead = handling[h].lead
                                 /\ handling'[h].overtaken = handling[h].overtaken
      BY <2>2 DEF Handling
    <2>5. UNCHANGED <<grace, manual, overwritten>>
      BY <2>1 DEF Handles
    <2> QED BY <2>2, <2>3, <2>4, <2>5 DEF GraceInv, GraceExplained
  <1>6. ASSUME NEW l \in Leads, ColdSent(l)
        PROVE  GraceInv'
    <2>1. /\ manual' = manual /\ handling' = handling
          /\ overwritten' = overwritten \cup {l}
          /\ \A k \in Leads : k # l => grace'[k] = grace[k]
      BY <1>0, <1>6 DEF ColdSent, DialogOK
    <2> QED BY <2>1 DEF GraceInv, GraceExplained
  <1>7. CASE Restart
    <2>1. \A h \in Handlers : handling'[h] = Free
      BY <1>7 DEF Restart
    <2> QED BY <1>7, <2>1 DEF Restart, GraceInv, GraceExplained
  <1>8. CASE \/ FlushStep \/ Connect \/ WorkerExits \/ AutoResume \/ SessionDies
             \/ QueueReply \/ FailLead \/ ApiChanges \/ UNCHANGED vars
             \/ \E l \in Leads, status \in LeadStatus : AdminSetsStatus(l, status)
    <2>1. Same
      BY <1>8 DEF FlushStep, FlushStarts, FlushEnds, Expire, SendReply, DeliverReply,
         MarkSent, ClearFailure, ReplyFails, Flushing, Connect, WorkerExits, AutoResume,
         SessionDies, QueueReply, FailLead, ApiChanges, AdminSetsStatus, vars
    <2> QED BY <1>1, <2>1
  <1> QED BY <1>2, <1>3, <1>4, <1>5, <1>6, <1>7, <1>8 DEF Next, Api, Process, Replies

\* Only a reply written after the machine had begun its answer, or a cold send
\* that overwrote the dialog row, lets the machine answer in the grace time.
THEOREM GraceExplainedHolds == Spec => []GraceExplained
  <1>1. Init => GraceInv
    BY DEF Init, GraceInv, GraceExplained
  <1>2. TypeOK /\ GraceInv /\ [Next]_vars => GraceInv'
    BY GraceStep
  <1>3. GraceInv => GraceExplained
    BY DEF GraceInv
  <1> QED BY <1>1, <1>2, <1>3, TypeCorrect, PTL DEF Spec

-----------------------------------------------------------------------------
(* Failed leads.  A failed lead that is not excused has a reply that is    *)
(* not sent, or is in hand with the lead still to be updated; and the row  *)
(* that the endpoint has just queued is the last one.                      *)

Accounts(r, l) == outbox[r].lead = l /\ (outbox[r].status # "sent" \/ r \in Marked)

LastQueued ==
  request # NoRequest /\ request.stage = "queued"
    => Len(outbox) \in Rows /\ outbox[Len(outbox)].lead = request.lead

FailedInv == FailedUntilSent /\ LastQueued

LEMMA FailedAccounted ==
  FailedUntilSent <=>
    \A l \in Leads : leadStatus[l] = "failed" /\ l \notin excused => \E r \in Rows : Accounts(r, l)
  BY DEF FailedUntilSent, Accounts

\* No lead becomes failed, and what accounted for a failure still does.
LEMMA FailedFrame ==
  ASSUME FailedUntilSent,
         \A l \in Leads : leadStatus'[l] = "failed" /\ l \notin excused'
                         => leadStatus[l] = "failed" /\ l \notin excused,
         \A l \in Leads, r \in Rows :
           Accounts(r, l) /\ leadStatus'[l] = "failed" /\ l \notin excused'
             => \E q \in Rows' : Accounts(q, l)'
  PROVE  FailedUntilSent'
  BY DEF FailedUntilSent, Accounts

\* The rows, and which of them is marked, are as before.
LEMMA SameRows ==
  ASSUME UNCHANGED <<outbox, stage, batch>>
  PROVE  /\ Rows' = Rows
         /\ \A r, l : Accounts(r, l)' <=> Accounts(r, l)
  BY DEF Rows, Accounts, Marked, NextInBatch

LEMMA FailedApi ==
  ASSUME TypeOK, FailedInv, Api
  PROVE  FailedInv'
  <1> USE DEF flushVars
  <1>0. QueueOK /\ FlushOK /\ DialogOK /\ LeadsOK
    BY TypeParts DEF DialogOK, LeadsOK
  <1>1. CASE QueueReply
    <2>1. request \in Request /\ request.lead \in Leads
      BY <1>0, <1>1 DEF QueueReply, QueueOK, NoRequest, Request
    <2> DEFINE row == [lead |-> request.lead, status |-> "pending", left |-> Ttl]
    <2>2. /\ Outbox' /\ Len(outbox') = Len(outbox) + 1
          /\ \A q \in Rows : outbox'[q] = outbox[q]
      <3>1. Outbox /\ Len(outbox) < MaxReplies /\ outbox' = Append(outbox, row)
        BY <1>0, <1>1 DEF QueueReply, QueueOK, NoRequest
      <3> QED BY <2>1, <3>1, Queued
    <2>8. outbox'[Len(outbox')] = row
      <3>1. outbox' = Append(outbox, row) /\ outbox \in Seq(Row)
        BY <1>0, <1>1 DEF QueueReply, QueueOK, Outbox
      <3> HIDE DEF row
      <3> QED BY <2>2, <3>1
    <2>3. Rows \subseteq Rows' /\ Len(outbox') \in Rows'
      BY <1>0, <2>2, OutboxRows DEF QueueOK, Rows
    <2>4. Marked' = Marked
      BY <1>1 DEF QueueReply, Marked, NextInBatch
    <2>5. \A q \in Rows, l \in Leads : Accounts(q, l) => Accounts(q, l)'
      BY <2>2, <2>4 DEF Accounts
    <2>6. FailedUntilSent'
      BY <1>1, <2>3, <2>5, FailedFrame DEF QueueReply, leadVars, FailedInv
    <2>7. outbox'[Len(outbox')].lead = request.lead /\ request'.lead = request.lead
      BY <1>1, <2>1, <2>8 DEF QueueReply, Request
    <2> QED BY <2>3, <2>6, <2>7 DEF FailedInv, LastQueued
  <1>2. ASSUME NEW l \in Leads, ManualReply(l)
        PROVE  FailedInv'
    <2>1. FailedUntilSent'
      BY <1>2, SameRows, FailedFrame DEF ManualReply, leadVars, FailedInv
    <2>2. request' # NoRequest => request'.stage # "queued"
      BY <1>2 DEF ManualReply
    <2> QED BY <2>1, <2>2 DEF FailedInv, LastQueued
  <1>3. CASE ApiChanges
    <2>1. FailedUntilSent'
      BY <1>3, SameRows, FailedFrame DEF ApiChanges, leadVars, FailedInv
    <2> QED BY <1>3, <2>1 DEF ApiChanges, FailedInv, LastQueued
  <1>4. CASE FailLead
    <2>1. /\ request.lead \in Leads /\ Len(outbox) \in Rows
          /\ outbox[Len(outbox)].lead = request.lead
      BY <1>0, <1>4 DEF FailLead, FailedInv, LastQueued, QueueOK, NoRequest, Request
    <2>2. /\ request.lead \notin excused' => Accounts(Len(outbox), request.lead)
          /\ \A k \in Leads : k # request.lead =>
               leadStatus'[k] = leadStatus[k] /\ (k \in excused' <=> k \in excused)
      <3> DEFINE excuse == outbox[Len(outbox)].status = "sent"
      <3>1. Mark(request.lead, "failed", excuse) /\ excuse \in BOOLEAN
        BY <1>4 DEF FailLead
      <3> HIDE DEF excuse
      <3>2. /\ request.lead \in excused' <=> excuse
            /\ \A k \in Leads : k # request.lead =>
                 leadStatus'[k] = leadStatus[k] /\ (k \in excused' <=> k \in excused)
        BY <1>0, <2>1, <3>1 DEF Mark, LeadsOK
      <3> QED BY <2>1, <3>2 DEF excuse, Accounts
    <2>3. UNCHANGED <<outbox, stage, batch>> /\ request' = NoRequest
      BY <1>4 DEF FailLead
    <2>4. FailedUntilSent'
      BY <2>1, <2>2, <2>3, SameRows, FailedAccounted DEF FailedInv, FailedUntilSent, Accounts
    <2> QED BY <2>3, <2>4 DEF FailedInv, LastQueued
  <1>5. ASSUME NEW l \in Leads, NEW status \in LeadStatus, AdminSetsStatus(l, status)
        PROVE  FailedInv'
    <2>1. /\ leadStatus'[l] = "failed" => l \in excused'
          /\ \A k \in Leads : k # l =>
               leadStatus'[k] = leadStatus[k] /\ (k \in excused' <=> k \in excused)
      <3> DEFINE excuse == status = "failed"
      <3>1. Mark(l, status, excuse) /\ excuse \in BOOLEAN
        BY <1>5 DEF AdminSetsStatus
      <3> HIDE DEF excuse
      <3>2. /\ leadStatus'[l] = status /\ (l \in excused' <=> excuse)
            /\ \A k \in Leads : k # l =>
                 leadStatus'[k] = leadStatus[k] /\ (k \in excused' <=> k \in excused)
        BY <1>0, <3>1 DEF Mark, LeadsOK
      <3> QED BY <3>2 DEF excuse
    <2>2. UNCHANGED <<outbox, stage, batch, request>>
      BY <1>5 DEF AdminSetsStatus
    <2>3. FailedUntilSent'
      BY <2>1, <2>2, SameRows, FailedFrame DEF FailedInv
    <2> QED BY <2>2, <2>3 DEF FailedInv, LastQueued, Rows
  <1> QED BY <1>1, <1>2, <1>3, <1>4, <1>5 DEF Api

\* One row of the flush.  What is marked is the first of the batch, so another
\* row accounts for its lead only by not being sent.
LEMMA FailedRow ==
  ASSUME TypeOK, DeliveryInv, FailedInv, NEW r \in Rows,
         \/ Expire(r) \/ SendReply(r) \/ DeliverReply(r)
         \/ MarkSent(r) \/ ClearFailure(r) \/ ReplyFails(r)
  PROVE  FailedInv'
  <1>0. QueueOK /\ FlushOK /\ LeadsOK /\ outbox[r].lead \in Leads
    BY TypeParts, OutboxRows DEF QueueOK, DialogOK, LeadsOK, Row
  <1>1. /\ NextInBatch(r) /\ r \in batch
        /\ batch' = IF stage' = "flushing" THEN batch \ {r} ELSE batch
        /\ request' = request
    BY DEF Expire, SendReply, DeliverReply, MarkSent, ClearFailure, ReplyFails, Flushing,
           NextInBatch
  <1>2. /\ Rows' = Rows /\ Len(outbox') = Len(outbox)
        /\ outbox'[r].lead = outbox[r].lead
        /\ \A q \in Rows : q # r => outbox'[q] = outbox[q]
    <2>1. CASE outbox' = outbox
      BY <2>1 DEF Rows
    <2>2. ASSUME NEW status \in {"sent", "failed"}, Settle(r, status)
          PROVE  /\ Rows' = Rows /\ Len(outbox') = Len(outbox)
                 /\ outbox'[r].lead = outbox[r].lead
                 /\ \A q \in Rows : q # r => outbox'[q] = outbox[q]
      BY <1>0, <2>2, Settled, ExceptSeq DEF QueueOK, Outbox, Settle, Rows
    <2> QED BY <2>1, <2>2
            DEF Expire, SendReply, DeliverReply, MarkSent, ClearFailure, ReplyFails
  <1>3. LastQueued'
    BY <1>0, <1>1, <1>2 DEF FailedInv, LastQueued, QueueOK
  <1>4. \A q \in Rows, l \in Leads : q # r /\ Accounts(q, l) => Accounts(q, l)'
    BY <1>0, <1>1, <1>2, OneFirst DEF Accounts, Marked
  <1>5. CASE ClearFailure(r)
    <2>1. /\ leadStatus'[outbox[r].lead] = "failed" => outbox[r].lead \in excused'
          /\ \A k \in Leads : k # outbox[r].lead =>
               leadStatus'[k] = leadStatus[k] /\ (k \in excused => k \in excused')
      <3>1. CASE wired
        <4>1. Mark(outbox[r].lead, "contacted", FALSE)
          BY <1>5, <3>1 DEF ClearFailure, SetLead
        <4>2. /\ leadStatus'[outbox[r].lead] = "contacted"
              /\ \A k \in Leads : k # outbox[r].lead =>
                   leadStatus'[k] = leadStatus[k] /\ (k \in excused' <=> k \in excused)
          BY <1>0, <4>1 DEF Mark, LeadsOK
        <4> QED BY <4>2
      <3>2. CASE ~wired
        <4>1. LeaveFailed({outbox[r].lead}) /\ {outbox[r].lead} \in SUBSET Leads
          BY <1>0, <1>5, <3>2 DEF ClearFailure
        <4> QED BY <1>0, <4>1, Leaving
      <3> QED BY <3>1, <3>2
    <2>2. \A l \in Leads : Accounts(r, l) => l = outbox[r].lead
      BY DEF Accounts
    <2>3. FailedUntilSent'
      BY <1>2, <1>4, <2>1, <2>2, FailedFrame DEF FailedInv
    <2> QED BY <1>3, <2>3 DEF FailedInv
  <1>6. CASE ~ClearFailure(r)
    <2>1. UNCHANGED <<leadStatus, excused>>
      BY <1>6 DEF Expire, SendReply, DeliverReply, MarkSent, ReplyFails, leadVars
    <2>2. CASE outbox'[r].status # "sent"
      <3>1. \A l \in Leads : Accounts(r, l) => Accounts(r, l)'
        BY <1>2, <2>2 DEF Accounts
      <3>2. FailedUntilSent'
        BY <1>2, <1>4, <2>1, <3>1, FailedFrame DEF FailedInv
      <3> QED BY <1>3, <3>2 DEF FailedInv
    <2>3. CASE MarkSent(r)
      <3>1. r \in Marked'
        BY <1>1, <2>3 DEF MarkSent, Flushing, Marked, NextInBatch
      <3>2. \A l \in Leads : Accounts(r, l) => Accounts(r, l)'
        BY <1>2, <3>1 DEF Accounts
      <3>3. FailedUntilSent'
        BY <1>2, <1>4, <2>1, <3>2, FailedFrame DEF FailedInv
      <3> QED BY <1>3, <3>3 DEF FailedInv
    <2>4. ~MarkSent(r) => outbox'[r].status # "sent"
      <3>1. Expire(r) \/ ReplyFails(r) => outbox'[r].status = "failed"
        BY <1>0, Settled DEF QueueOK, Expire, ReplyFails
      <3>2. SendReply(r) \/ DeliverReply(r) => outbox' = outbox /\ stage # "marked"
        BY DEF SendReply, DeliverReply, Flushing
      <3>3. stage # "marked" => outbox[r].status # "sent"
        BY <1>0, <1>1 DEF DeliveryInv, BatchInv, FlushOK
      <3> QED BY <1>6, <3>1, <3>2, <3>3
    <2> QED BY <2>2, <2>3, <2>4
  <1> QED BY <1>5, <1>6

\* The flush as a whole, the worker's task, the handlers and the clock.
LEMMA FailedStep ==
  ASSUME TypeOK, DeliveryInv, FailedInv, [Next]_vars
  PROVE  FailedInv'
  <1> USE DEF flushVars, leadVars
  <1>0. QueueOK /\ FlushOK /\ DialogOK /\ LeadsOK
    BY TypeParts DEF DialogOK, LeadsOK
  <1> DEFINE SameFlush == UNCHANGED <<outbox, stage, batch, request>>
  <1>1. CASE SameFlush /\ UNCHANGED leadVars
    <2>1. FailedUntilSent'
      BY <1>1, SameRows, FailedFrame DEF FailedInv
    <2> QED BY <1>1, <2>1 DEF FailedInv, LastQueued, Rows
  <1>2. ASSUME outbox' = outbox, request' = request, UNCHANGED leadVars, Marked = {}
        PROVE  FailedInv'
    <2>1. Rows' = Rows /\ \A l \in Leads, r \in Rows : Accounts(r, l) => Accounts(r, l)'
      BY <1>2 DEF Accounts, Rows
    <2>2. FailedUntilSent'
      BY <1>2, <2>1, FailedFrame DEF FailedInv
    <2> QED BY <1>2, <2>1, <2>2 DEF FailedInv, LastQueued
  <1>3. CASE FlushStarts \/ FlushEnds \/ Connect \/ AutoResume
    <2>1. Marked = {}
      BY <1>3 DEF Marked, FlushStarts, FlushEnds, Connect, AutoResume
    <2> QED BY <1>2, <1>3, <2>1 DEF FlushStarts, FlushEnds, Connect, AutoResume
  <1>4. CASE WorkerExits \/ Restart
    <2>1. /\ FlushLost /\ outbox' = outbox /\ request' = request /\ Rows' = Rows
      BY <1>4 DEF WorkerExits, Restart, FlushLost, Rows
    <2>2. {outbox[r].lead : r \in Marked} \in SUBSET Leads
      BY <1>0, MarkedLeads DEF QueueOK, FlushOK
    <2>3. /\ leadStatus' = leadStatus /\ excused \subseteq excused'
          /\ \A r \in Marked : leadStatus[outbox[r].lead] = "failed"
                              => outbox[r].lead \in excused'
      BY <1>0, <2>1, <2>2, Leaving DEF FlushLost
    <2>4. \A l \in Leads, r \in Rows :
            Accounts(r, l) /\ leadStatus'[l] = "failed" /\ l \notin excused' => Accounts(r, l)'
      BY <2>1, <2>3 DEF Accounts
    <2>5. FailedUntilSent'
      BY <2>1, <2>3, <2>4, FailedFrame DEF FailedInv
    <2> QED BY <2>1, <2>5 DEF FailedInv, LastQueued
  <1>5. CASE Replies
    <2>1. SameFlush
      BY <1>5 DEF Replies, DraftEnds, AnswerDelivered, AnswerFails, AnswerRecorded, TakeUp,
         ColdSent, Handles
    <2>2. \/ UNCHANGED leadVars
          \/ \E l \in Leads, status \in {"open", "contacted"} : SetLead(l, status)
      <3>1. ASSUME NEW h \in Handlers, AnswerRecorded(h)
            PROVE  handling[h].lead \in Leads
        BY <1>0, <3>1, HandlesTypes DEF AnswerRecorded
      <3> QED BY <1>5, <3>1 DEF Replies, DraftEnds, AnswerDelivered, AnswerFails,
                 AnswerRecorded, TakeUp, ColdSent
    <2>3. ASSUME NEW l \in Leads, NEW status \in {"open", "contacted"}, SetLead(l, status)
          PROVE  FailedInv'
      <3>1. /\ leadStatus'[l] # "failed"
            /\ \A k \in Leads : k # l =>
                 leadStatus'[k] = leadStatus[k] /\ (k \in excused' <=> k \in excused)
        <4>1. Mark(l, status, FALSE) /\ status \in LeadStatus
          BY <2>3 DEF SetLead, LeadStatus
        <4>2. /\ leadStatus'[l] = status
              /\ \A k \in Leads : k # l =>
                   leadStatus'[k] = leadStatus[k] /\ (k \in excused' <=> k \in excused)
          BY <1>0, <4>1 DEF Mark, LeadsOK
        <4> QED BY <4>2
      <3>2. FailedUntilSent'
        BY <2>1, <3>1, SameRows, FailedFrame DEF FailedInv
      <3> QED BY <2>1, <3>2 DEF FailedInv, LastQueued, Rows
    <2> QED BY <1>1, <2>1, <2>2, <2>3
  <1>6. CASE Tick
    <2>1. /\ Rows' = Rows /\ UNCHANGED <<stage, batch, leadStatus, excused, request>>
          /\ \A q \in Rows : /\ outbox'[q].status = outbox[q].status
                             /\ outbox'[q].lead = outbox[q].lead
      BY <1>0, <1>6, Ticked DEF Tick, QueueOK
    <2>2. \A l \in Leads, r \in Rows : Accounts(r, l) => Accounts(r, l)'
      BY <2>1 DEF Accounts, Marked, NextInBatch
    <2>3. FailedUntilSent'
      BY <2>1, <2>2, FailedFrame DEF FailedInv
    <2>4. Len(outbox') = Len(outbox)
      BY <1>0, <1>6, <2>1, Ticked DEF Tick, QueueOK, Outbox, Rows
    <2> QED BY <2>1, <2>3, <2>4 DEF FailedInv, LastQueued
  <1>7. CASE SessionDies \/ UNCHANGED vars
    BY <1>1, <1>7 DEF SessionDies, vars
  <1> QED BY <1>3, <1>4, <1>5, <1>6, <1>7, FailedApi, FailedRow
          DEF Next, FlushStep, Process

\* A failed lead has a reply that was not sent, or one of the named exceptions
\* left it failed.
THEOREM FailedUntilSentHolds == Spec => []FailedUntilSent
  <1>1. Init => FailedInv
    BY DEF Init, FailedInv, FailedUntilSent, LastQueued
  <1>2. TypeOK /\ DeliveryInv /\ FailedInv /\ [Next]_vars => FailedInv'
    BY FailedStep
  <1>3. FailedInv => FailedUntilSent
    BY DEF FailedInv
  <1> QED BY <1>1, <1>2, <1>3, DeliveryInvariant, PTL DEF Spec

=============================================================================
