--------------------------- MODULE ChangeRequests ---------------------------
(***************************************************************************)
(* Change requests: creation, approval, rejection and cancellation by HTTP *)
(* handlers, and the scheduler job that applies approved requests when     *)
(* they are due.                                                           *)
(*                                                                         *)
(* A handler reads the row of the request in a dependency, checks what it  *)
(* read, and writes at its commit; no row is locked in between, so the     *)
(* check can be stale.  The scheduler reads a batch and commits request by *)
(* request.                                                                *)
(***************************************************************************)
EXTENDS Integers

CONSTANTS
  Requests,         \* rows of change_request
  Users,            \* members of the organisation
  Admins,           \* those with role ADMIN or OWNER
  Nobody,           \* no user: a NULL column
  Sessions,         \* HTTP handlers that run at the same time
  MaxTime,          \* bound on the clock
  MaxCrashes,       \* bound on restarts of the API process
  Payloads          \* the kinds of payload that occur, see PayloadKinds

Statuses == {"DRAFT", "PENDING", "APPROVED", "REJECTED", "APPLIED", "CANCELLED"}
Open     == {"DRAFT", "PENDING"}
Absent   == "absent"   \* no such row yet

\* Applied without error; an exception in _execute_payload_mutations (a missing
\* setting, a missing key); a constraint violated by the flush at the commit.
PayloadKinds == {"good", "failing", "clashing"}

ASSUME ChangeRequestAssumption ==
  /\ Admins \subseteq Users /\ Nobody \notin Users
  /\ MaxTime \in Nat /\ MaxCrashes \in Nat
  /\ Payloads \subseteq PayloadKinds

VARIABLES
  now,          \* the clock
  status, requestedBy, reviewedBy, scheduledAt, payload,  \* columns of the rows
  session,      \* handlers between their read and their commit
  batch,        \* requests the running scheduler job still has to apply
  crashes,      \* restarts so far
  createdAs,    \* history: the status it was created with
  approvers,    \* history: who has approved the request
  effects       \* history: how many times its payload was committed

rows == <<status, requestedBy, reviewedBy, scheduledAt, payload>>
vars == <<now, status, requestedBy, reviewedBy, scheduledAt, payload, session,
          batch, crashes, createdAs, approvers, effects>>

None  == -1
Times == 0..MaxTime

Idle == [pc |-> "idle"]

Init ==
  /\ now = 0
  /\ status = [r \in Requests |-> Absent]
  /\ requestedBy = [r \in Requests |-> Nobody]
  /\ reviewedBy = [r \in Requests |-> Nobody]
  /\ scheduledAt = [r \in Requests |-> None]
  /\ payload = [r \in Requests |-> "good"]
  /\ session = [s \in Sessions |-> Idle]
  /\ batch = {}
  /\ crashes = 0
  /\ createdAs = [r \in Requests |-> Absent]
  /\ approvers = [r \in Requests |-> {}]
  /\ effects = [r \in Requests |-> 0]

Tick ==
  /\ now < MaxTime
  /\ now' = now + 1
  /\ UNCHANGED <<rows, session, batch, crashes, createdAs, approvers, effects>>

-----------------------------------------------------------------------------
(* HTTP handlers.                                                           *)

\* create_change_request, also called for an edit in a production environment.
\* The status is the caller's: any of them is stored.
Create(r, u, t, p, st) ==
  /\ status[r] = Absent
  /\ status' = [status EXCEPT ![r] = st]
  /\ requestedBy' = [requestedBy EXCEPT ![r] = u]
  /\ scheduledAt' = [scheduledAt EXCEPT ![r] = t]
  /\ payload' = [payload EXCEPT ![r] = p]
  /\ createdAs' = [createdAs EXCEPT ![r] = st]
  /\ UNCHANGED <<now, reviewedBy, session, batch, crashes, approvers, effects>>

\* Mutant of MayApprove: any administrator will do.
MayApproveOwn(u, r) == u \in Admins

\* Who a handler lets through, and in which status it must have read the row.
MayApprove(u, r) == u \in Admins /\ u # requestedBy[r]
MayReject(u) == u \in Admins
MayCancel(u, r) == u \in Admins \/ u = requestedBy[r]

\* Mutant of Permitted: approving one's own request is not refused.
PermittedOwn(op, u, r) ==
  \/ op = "approve" /\ u \in Admins /\ status[r] \in Open
  \/ op = "reject" /\ MayReject(u) /\ status[r] \in Open
  \/ op = "cancel" /\ MayCancel(u, r) /\ status[r] # "APPLIED"

Permitted(op, u, r) ==
  \/ op = "approve" /\ MayApprove(u, r) /\ status[r] \in Open
  \/ op = "reject" /\ MayReject(u) /\ status[r] \in Open
  \/ op = "cancel" /\ MayCancel(u, r) /\ status[r] # "APPLIED"

\* require_change_request_role reads the row; the handler checks what was read.
Read(s, op, u, r) ==
  /\ session[s] = Idle
  /\ status[r] # Absent
  /\ Permitted(op, u, r)
  /\ session' = [session EXCEPT ![s] = [pc |-> op, user |-> u, cr |-> r, seen |-> status[r]]]
  /\ UNCHANGED <<now, rows, batch, crashes, approvers, effects, createdAs>>

\* approve_change_request compares scheduled_at with the clock.
Decide(s) ==
  /\ session[s].pc = "approve"
  /\ session' = [session EXCEPT ![s].pc =
       IF scheduledAt[session[s].cr] > now THEN "schedule" ELSE "apply"]
  /\ UNCHANGED <<now, rows, batch, crashes, approvers, effects, createdAs>>

\* A commit writes the columns the handler changed, whatever they hold by now.
Schedule(s) ==
  LET r == session[s].cr IN
  /\ session[s].pc = "schedule"
  /\ status' = [status EXCEPT ![r] = "APPROVED"]
  /\ reviewedBy' = [reviewedBy EXCEPT ![r] = session[s].user]
  /\ approvers' = [approvers EXCEPT ![r] = @ \cup {session[s].user}]
  /\ session' = [session EXCEPT ![s] = Idle]
  /\ UNCHANGED <<now, requestedBy, scheduledAt, payload, batch, crashes, effects, createdAs>>

\* apply_payload and the commit of the approval.
ApplyNow(s) ==
  LET r == session[s].cr IN
  /\ session[s].pc = "apply"
  /\ payload[r] = "good"
  /\ status' = [status EXCEPT ![r] = "APPLIED"]
  /\ reviewedBy' = [reviewedBy EXCEPT ![r] = session[s].user]
  /\ approvers' = [approvers EXCEPT ![r] = @ \cup {session[s].user}]
  /\ effects' = [effects EXCEPT ![r] = @ + 1]
  /\ session' = [session EXCEPT ![s] = Idle]
  /\ UNCHANGED <<now, requestedBy, scheduledAt, payload, batch, crashes, createdAs>>

\* apply_payload catches the exception, rolls back (reviewed_by is lost) and
\* commits status APPROVED.
ApplyNowFails(s) ==
  LET r == session[s].cr IN
  /\ session[s].pc = "apply"
  /\ payload[r] = "failing"
  /\ status' = [status EXCEPT ![r] = "APPROVED"]
  /\ approvers' = [approvers EXCEPT ![r] = @ \cup {session[s].user}]
  /\ session' = [session EXCEPT ![s] = Idle]
  /\ UNCHANGED <<now, requestedBy, reviewedBy, scheduledAt, payload, batch, crashes, effects, createdAs>>

\* The commit of the approval fails outside of apply_payload: nothing is kept.
ApplyNowAborts(s) ==
  /\ session[s].pc = "apply"
  /\ payload[session[s].cr] = "clashing"
  /\ session' = [session EXCEPT ![s] = Idle]
  /\ UNCHANGED <<now, rows, batch, crashes, approvers, effects, createdAs>>

Reject(s) ==
  LET r == session[s].cr IN
  /\ session[s].pc = "reject"
  /\ status' = [status EXCEPT ![r] = "REJECTED"]
  /\ reviewedBy' = [reviewedBy EXCEPT ![r] = session[s].user]
  /\ session' = [session EXCEPT ![s] = Idle]
  /\ UNCHANGED <<now, requestedBy, scheduledAt, payload, batch, crashes, approvers, effects, createdAs>>

\* The ORM writes no column when the row was read as CANCELLED already.
Cancel(s) ==
  LET r == session[s].cr IN
  /\ session[s].pc = "cancel"
  /\ status' = [status EXCEPT ![r] = IF session[s].seen = "CANCELLED" THEN @ ELSE "CANCELLED"]
  /\ session' = [session EXCEPT ![s] = Idle]
  /\ UNCHANGED <<now, requestedBy, reviewedBy, scheduledAt, payload, batch, crashes,
                 approvers, effects, createdAs>>

-----------------------------------------------------------------------------
(* The scheduler job.                                                       *)

\* Mutants of Due: the status filter, or the time filter, is wrong.
DueAgain ==
  {r \in Requests : /\ status[r] \in {"APPROVED", "APPLIED"}
                    /\ scheduledAt[r] # None /\ scheduledAt[r] <= now}
DueLate ==
  {r \in Requests : status[r] = "APPROVED" /\ scheduledAt[r] # None /\ scheduledAt[r] < now}
\* WHERE status = 'APPROVED' AND scheduled_at <= now: never a NULL schedule.
Due ==
  {r \in Requests : status[r] = "APPROVED" /\ scheduledAt[r] # None /\ scheduledAt[r] <= now}

\* process_scheduled_change_requests selects the batch (max_instances is 1).
Scan ==
  /\ batch = {} /\ Due # {}
  /\ batch' = Due
  /\ UNCHANGED <<now, rows, session, crashes, approvers, effects, createdAs>>

\* ORDER BY scheduled_at ASC; the order of equals is not determined.
Earliest(r) == r \in batch /\ \A o \in batch : scheduledAt[r] <= scheduledAt[o]

ApplyDue(r) ==
  /\ Earliest(r)
  /\ payload[r] = "good"
  /\ status' = [status EXCEPT ![r] = "APPLIED"]
  /\ effects' = [effects EXCEPT ![r] = @ + 1]
  /\ batch' = batch \ {r}
  /\ UNCHANGED <<now, requestedBy, reviewedBy, scheduledAt, payload, session, crashes, approvers, createdAs>>

\* The rollback expires the rows of the whole batch, and reading an expired
\* row outside of an awaited query raises: the job ends here.
ApplyDueFails(r) ==
  /\ Earliest(r)
  /\ payload[r] = "failing"
  /\ status' = [status EXCEPT ![r] = "APPROVED"]
  /\ batch' = {}
  /\ UNCHANGED <<now, requestedBy, reviewedBy, scheduledAt, payload, session, crashes,
                 approvers, effects, createdAs>>

ApplyDueAborts(r) ==
  /\ Earliest(r)
  /\ payload[r] = "clashing"
  /\ batch' = {}
  /\ UNCHANGED <<now, rows, session, crashes, approvers, effects, createdAs>>

\* The API process restarts: open transactions are rolled back.
Crash ==
  /\ crashes < MaxCrashes
  /\ crashes' = crashes + 1
  /\ session' = [s \in Sessions |-> Idle]
  /\ batch' = {}
  /\ UNCHANGED <<now, rows, approvers, effects, createdAs>>

-----------------------------------------------------------------------------
Finish(s) ==
  \/ Decide(s) \/ Schedule(s) \/ Reject(s) \/ Cancel(s)
  \/ ApplyNow(s) \/ ApplyNowFails(s) \/ ApplyNowAborts(s)

Handle(s) ==
  \/ \E op \in {"approve", "reject", "cancel"}, u \in Users, r \in Requests : Read(s, op, u, r)
  \/ Finish(s)

Scheduler ==
  \/ Scan
  \/ \E r \in Requests : ApplyDue(r) \/ ApplyDueFails(r) \/ ApplyDueAborts(r)

Next ==
  \/ Tick
  \/ \E r \in Requests, u \in Users, t \in Times \cup {None}, p \in Payloads,
        st \in Statuses : Create(r, u, t, p, st)
  \/ \E s \in Sessions : Handle(s)
  \/ Scheduler
  \/ Crash

Spec == Init /\ [][Next]_vars

\* Time passes, handlers that started end, the scheduler comes round every minute.
FairSpec ==
  Spec /\ WF_vars(Tick) /\ WF_vars(Scheduler) /\ \A s \in Sessions : WF_vars(Finish(s))

-----------------------------------------------------------------------------
(* Properties.                                                              *)

SessionStates == {"approve", "schedule", "apply", "reject", "cancel"}
Working == [pc : SessionStates, user : Users, cr : Requests, seen : Statuses]

\* Types of every variable.
TypeOK ==
  /\ now \in Times
  /\ status \in [Requests -> Statuses \cup {Absent}]
  /\ requestedBy \in [Requests -> Users \cup {Nobody}]
  /\ reviewedBy \in [Requests -> Users \cup {Nobody}]
  /\ scheduledAt \in [Requests -> Times \cup {None}]
  /\ payload \in [Requests -> PayloadKinds]
  /\ session \in [Sessions -> Working \cup {Idle}]
  /\ batch \in SUBSET Requests
  /\ crashes \in 0..MaxCrashes
  /\ createdAs \in [Requests -> Statuses \cup {Absent}]
  /\ approvers \in [Requests -> SUBSET Users]
  /\ effects \in [Requests -> Nat]

\* An administrator who is not the author approved the request.
Approved(r) == \E u \in approvers[r] : MayApprove(u, r)

\* Four eyes, as S16 and the docstring of approve_change_request state it: no
\* payload is committed unless an administrator who is not its author approved
\* the request.
FourEyes == \A r \in Requests : effects[r] > 0 => Approved(r)

\* What the code does keep of it: through every race, failed application and
\* restart, a payload is committed and a request becomes approved or applied
\* only after that approval, or because the request was created as approved;
\* one created as applied is never executed, and no other way leads around the
\* review.
ReviewedUnlessBornApproved ==
  \A r \in Requests :
    /\ status[r] = "APPROVED" \/ effects[r] > 0 =>
         Approved(r) \/ createdAs[r] = "APPROVED"
    /\ status[r] = "APPLIED" => Approved(r) \/ createdAs[r] \in {"APPROVED", "APPLIED"}

\* No payload is committed before scheduled_at, whoever applies it.
NotBeforeSchedule == \A r \in Requests : effects[r] > 0 => scheduledAt[r] <= now

\* A payload is committed at most once.
AppliedOnce == \A r \in Requests : effects[r] <= 1

\* An approved request with a schedule and a good payload does not stay approved:
\* the scheduler applies it unless somebody cancels it first.
DueApplied ==
  \A r \in Requests :
    (status[r] = "APPROVED" /\ scheduledAt[r] # None /\ payload[r] = "good")
      ~> status[r] # "APPROVED"

\* The workflow implements what ControlledChange promises; a request created
\* as approved is one that is exempt from the review there.
BornApproved == {r \in Requests : createdAs[r] = "APPROVED"}
Promise == INSTANCE ControlledChange WITH exempt <- BornApproved
KeepsPromise == Promise!Spec

-----------------------------------------------------------------------------
(* The inductive invariant behind ReviewedUnlessBornApproved,               *)
(* NotBeforeSchedule and KeepsPromise.                                      *)

\* The request may be applied: it was approved, or was stored as such.
Cleared(r) == Approved(r) \/ createdAs[r] = "APPROVED"

\* A row exists exactly when it has an author.
RowsInv ==
  \A r \in Requests :
    /\ status[r] = Absent <=> requestedBy[r] = Nobody
    /\ status[r] = Absent => effects[r] = 0 /\ createdAs[r] = Absent

\* A handler that approves has passed the four-eyes check on a row that exists,
\* and one that applies has seen the schedule reached.
SessionsInv ==
  \A s \in Sessions :
    /\ session[s].pc # "idle" => status[session[s].cr] # Absent
    /\ session[s].pc \in {"approve", "schedule", "apply"} =>
         MayApprove(session[s].user, session[s].cr)
    /\ session[s].pc = "apply" => scheduledAt[session[s].cr] <= now

\* Whatever the job still has to apply is cleared and due.
BatchInv ==
  \A r \in batch : status[r] # Absent /\ Cleared(r) /\ scheduledAt[r] <= now

ChangeInv ==
  RowsInv /\ SessionsInv /\ BatchInv /\ ReviewedUnlessBornApproved /\ NotBeforeSchedule
=============================================================================
