------------------------- MODULE ControlPlaneProofs -------------------------
(***************************************************************************)
(* Theorems about ChangeRequests for any number of requests, users,        *)
(* handlers, restarts and any mix of payloads; about RefreshTokens for any *)
(* addresses and any number of requests that overlap; and about the        *)
(* components behind the dashboard together, for which every theorem about *)
(* one of them holds.                                                      *)
(***************************************************************************)
EXTENDS MCControlPlane, DashboardProofs, TenancyProofs, TLAPS

-----------------------------------------------------------------------------
(* Types.                                                                   *)

LEMMA TypeInit == ASSUME Init PROVE TypeOK
BY ChangeRequestAssumption DEF Init, TypeOK, Times, None, PayloadKinds, Idle

\* What a handler that is not idle knows.
LEMMA WorkingSession ==
  ASSUME TypeOK, NEW s \in Sessions, session[s].pc # "idle"
  PROVE  /\ session[s] \in Working
         /\ session[s].user \in Users /\ session[s].cr \in Requests
         /\ session[s].pc \in SessionStates /\ session[s].seen \in Statuses
<1>1. session[s] \in Working \cup {Idle}
  BY DEF TypeOK
<1>2. Idle.pc = "idle"
  BY DEF Idle
<1>3. session[s] \in Working
  BY <1>1, <1>2
<1>4. QED
  BY <1>3 DEF Working

LEMMA FinishType == ASSUME TypeOK, NEW s \in Sessions, Finish(s) PROVE TypeOK'
<1> DEFINE r == session[s].cr
           u == session[s].user
<1>1. session[s].pc # "idle"
  BY DEF Finish, Decide, Schedule, Reject, Cancel, ApplyNow, ApplyNowFails, ApplyNowAborts
<1>2. session[s] \in Working /\ r \in Requests /\ u \in Users
  BY <1>1, WorkingSession
<1>3. CASE Decide(s)
  <2>1. session' \in [Sessions -> Working \cup {Idle}]
    <3>1. session' = [session EXCEPT ![s] = [@ EXCEPT !.pc =
             IF scheduledAt[r] > now THEN "schedule" ELSE "apply"]]
      BY <1>3 DEF Decide, TypeOK
    <3>2. [session[s] EXCEPT !.pc = IF scheduledAt[r] > now THEN "schedule" ELSE "apply"] \in Working
      BY <1>2 DEF Working, SessionStates
    <3>3. QED
      BY <3>1, <3>2 DEF TypeOK
  <2>2. QED
    BY <1>3, <2>1 DEF Decide, TypeOK, rows
<1> HIDE DEF r, u
<1>4. CASE ~Decide(s)
  <2>1. session' = [session EXCEPT ![s] = Idle]
    BY <1>4 DEF Finish, Schedule, Reject, Cancel, ApplyNow, ApplyNowFails, ApplyNowAborts
  <2>2. \/ status' = status
        \/ \E st \in Statuses \cup {Absent} : status' = [status EXCEPT ![r] = st]
    <3>1. CASE Cancel(s)
      <4>1. status' = [status EXCEPT ![r] = status[r]] \/ status' = [status EXCEPT ![r] = "CANCELLED"]
        BY <3>1 DEF Cancel, r
      <4>2. status[r] \in Statuses \cup {Absent} /\ "CANCELLED" \in Statuses
        BY <1>2 DEF TypeOK, Statuses
      <4>3. QED
        BY <4>1, <4>2
    <3>2. CASE ~Cancel(s)
      BY <1>4, <3>2 DEF Finish, Schedule, Reject, ApplyNow, ApplyNowFails, ApplyNowAborts, rows,
                        Statuses, r
    <3>3. QED
      BY <3>1, <3>2
  <2>3. reviewedBy' = reviewedBy \/ reviewedBy' = [reviewedBy EXCEPT ![r] = u]
    BY <1>4 DEF Finish, Schedule, Reject, Cancel, ApplyNow, ApplyNowFails, ApplyNowAborts, rows, r, u
  <2>4. approvers' = approvers \/ approvers' = [approvers EXCEPT ![r] = @ \cup {u}]
    BY <1>4 DEF Finish, Schedule, Reject, Cancel, ApplyNow, ApplyNowFails, ApplyNowAborts, r, u
  <2>5. effects' = effects \/ effects' = [effects EXCEPT ![r] = @ + 1]
    BY <1>4 DEF Finish, Schedule, Reject, Cancel, ApplyNow, ApplyNowFails, ApplyNowAborts, r
  <2>6. UNCHANGED <<now, requestedBy, scheduledAt, payload, batch, crashes, createdAs>>
    BY <1>4 DEF Finish, Schedule, Reject, Cancel, ApplyNow, ApplyNowFails, ApplyNowAborts, rows
  <2>7. status' \in [Requests -> Statuses \cup {Absent}]
    BY <1>2, <2>2 DEF TypeOK
  <2>8. reviewedBy' \in [Requests -> Users \cup {Nobody}] /\ approvers' \in [Requests -> SUBSET Users]
    BY <1>2, <2>3, <2>4 DEF TypeOK
  <2>9. effects' \in [Requests -> Nat] /\ session' \in [Sessions -> Working \cup {Idle}]
    BY <1>2, <2>1, <2>5 DEF TypeOK
  <2>10. QED
    BY <2>6, <2>7, <2>8, <2>9 DEF TypeOK
<1>5. QED
  BY <1>3, <1>4

LEMMA TypeNext == ASSUME TypeOK, [Next]_vars PROVE TypeOK'
<1>1. CASE Tick
  BY <1>1, ChangeRequestAssumption DEF Tick, TypeOK, Times, rows
<1>2. ASSUME NEW r \in Requests, NEW u \in Users, NEW t \in Times \cup {None}, NEW p \in Payloads,
             NEW st \in Statuses, Create(r, u, t, p, st)
      PROVE  TypeOK'
  BY <1>2, ChangeRequestAssumption DEF Create, TypeOK
<1>3. ASSUME NEW s \in Sessions, NEW op \in {"approve", "reject", "cancel"}, NEW u \in Users,
             NEW r \in Requests, Read(s, op, u, r)
      PROVE  TypeOK'
  <2>1. [pc |-> op, user |-> u, cr |-> r, seen |-> status[r]] \in Working
    <3>1. status[r] \in Statuses
      BY <1>3 DEF Read, TypeOK
    <3>2. QED
      BY <3>1 DEF Working, SessionStates
  <2>2. QED
    BY <1>3, <2>1 DEF Read, TypeOK, rows
<1>4. ASSUME NEW s \in Sessions, Finish(s) PROVE TypeOK'
  BY <1>4, FinishType
<1>5. CASE Scan
  BY <1>5 DEF Scan, Due, TypeOK, rows
<1>6. ASSUME NEW r \in Requests, ApplyDue(r) \/ ApplyDueFails(r) \/ ApplyDueAborts(r)
      PROVE  TypeOK'
  BY <1>6 DEF ApplyDue, ApplyDueFails, ApplyDueAborts, TypeOK, Statuses, rows
<1>7. CASE Crash
  BY <1>7, ChangeRequestAssumption DEF Crash, TypeOK, rows
<1>8. CASE UNCHANGED vars
  BY <1>8 DEF vars, TypeOK
<1>9. QED
  BY <1>1, <1>2, <1>3, <1>4, <1>5, <1>6, <1>7, <1>8 DEF Next, Handle, Scheduler

\* Every variable keeps its type in every reachable state.
THEOREM TypeCorrect == Spec => []TypeOK
<1>1. Init => TypeOK
  BY TypeInit
<1>2. TypeOK /\ [Next]_vars => TypeOK'
  BY TypeNext
<1>3. QED
  BY <1>1, <1>2, PTL DEF Spec

-----------------------------------------------------------------------------
(* Four eyes and schedules.                                                 *)

\* A row keeps its author, its schedule and the status it was created with, and
\* approvals are not forgotten.
HistoryKept ==
  /\ now <= now'
  /\ \A r \in Requests : status[r] # Absent =>
       /\ status'[r] # Absent
       /\ requestedBy'[r] = requestedBy[r] /\ scheduledAt'[r] = scheduledAt[r]
       /\ createdAs'[r] = createdAs[r]
       /\ approvers[r] \subseteq approvers'[r]

LEMMA FinishKept == ASSUME TypeOK, NEW s \in Sessions, Finish(s) PROVE HistoryKept
<1> DEFINE r == session[s].cr
<1>1. session[s].pc # "idle" /\ UNCHANGED <<now, requestedBy, scheduledAt, createdAs>>
  BY DEF Finish, Decide, Schedule, Reject, Cancel, ApplyNow, ApplyNowFails, ApplyNowAborts, rows
<1>2. r \in Requests
  BY <1>1, WorkingSession
<1>3. now \in Int
  BY ChangeRequestAssumption DEF TypeOK, Times
<1> HIDE DEF r
<1>4. CASE Cancel(s)
  <2>1. status' = [status EXCEPT ![r] = status[r]] \/ status' = [status EXCEPT ![r] = "CANCELLED"]
    BY <1>4 DEF Cancel, r
  <2>2. \A q \in Requests : status[q] # Absent => status'[q] # Absent
    BY <1>2, <2>1 DEF TypeOK, Absent
  <2>3. approvers' = approvers
    BY <1>4 DEF Cancel
  <2>4. QED
    BY <1>1, <1>3, <2>2, <2>3 DEF HistoryKept
<1>5. CASE ~Cancel(s)
  <2>1. \/ status' = status
        \/ \E st \in {"APPROVED", "APPLIED", "REJECTED"} : status' = [status EXCEPT ![r] = st]
    BY <1>5 DEF Finish, Decide, Schedule, Reject, ApplyNow, ApplyNowFails, ApplyNowAborts, rows, r
  <2>2. \A q \in Requests : status[q] # Absent => status'[q] # Absent
    BY <1>2, <2>1 DEF TypeOK, Absent
  <2>3. approvers' = approvers \/ approvers' = [approvers EXCEPT ![r] = @ \cup {session[s].user}]
    BY <1>5 DEF Finish, Decide, Schedule, Reject, ApplyNow, ApplyNowFails, ApplyNowAborts, r
  <2>4. \A q \in Requests : approvers[q] \subseteq approvers'[q]
    BY <1>2, <2>3 DEF TypeOK
  <2>5. QED
    BY <1>1, <1>3, <2>2, <2>4 DEF HistoryKept
<1>6. QED
  BY <1>4, <1>5

LEMMA NextKept == ASSUME TypeOK, [Next]_vars PROVE HistoryKept
<1>0. now \in Int
  BY ChangeRequestAssumption DEF TypeOK, Times
<1>1. CASE UNCHANGED <<rows, approvers, createdAs>> /\ now <= now'
  BY <1>1 DEF rows, HistoryKept
<1>2. ASSUME NEW r \in Requests, NEW u \in Users, NEW t \in Times \cup {None}, NEW p \in Payloads,
             NEW st \in Statuses, Create(r, u, t, p, st)
      PROVE  HistoryKept
  <2>1. \A q \in Requests : status[q] # Absent =>
          /\ status'[q] = status[q] /\ requestedBy'[q] = requestedBy[q]
          /\ scheduledAt'[q] = scheduledAt[q] /\ createdAs'[q] = createdAs[q]
    BY <1>2 DEF Create, TypeOK
  <2>2. approvers' = approvers /\ now' = now
    BY <1>2 DEF Create
  <2>3. QED
    BY <1>0, <2>1, <2>2 DEF HistoryKept
<1>3. ASSUME NEW r \in Requests, ApplyDue(r) \/ ApplyDueFails(r) \/ ApplyDueAborts(r)
      PROVE  HistoryKept
  <2>1. UNCHANGED <<now, requestedBy, scheduledAt, approvers, createdAs>>
    BY <1>3 DEF ApplyDue, ApplyDueFails, ApplyDueAborts, rows
  <2>2. status' = status \/ \E st \in {"APPROVED", "APPLIED"} : status' = [status EXCEPT ![r] = st]
    BY <1>3 DEF ApplyDue, ApplyDueFails, ApplyDueAborts, rows
  <2>3. \A q \in Requests : status[q] # Absent => status'[q] # Absent
    BY <2>2 DEF TypeOK, Absent
  <2>4. QED
    BY <1>0, <2>1, <2>3 DEF HistoryKept
<1>4. CASE Tick
  BY <1>0, <1>1, <1>4 DEF Tick
<1>5. CASE Scan \/ Crash \/ UNCHANGED vars
  BY <1>0, <1>1, <1>5 DEF Scan, Crash, vars, rows
<1>6. ASSUME NEW s \in Sessions, Handle(s) PROVE HistoryKept
  BY <1>0, <1>1, <1>6, FinishKept DEF Handle, Read
<1>7. QED
  BY <1>2, <1>3, <1>4, <1>5, <1>6 DEF Next, Scheduler

\* What the invariant says of the handlers, the batch and the approvals before
\* a step still holds of them after it.
LEMMA Carried ==
  ASSUME TypeOK, ChangeInv, HistoryKept, now' \in Times
  PROVE  /\ \A s \in Sessions :
              /\ session[s].pc # "idle" => status'[session[s].cr] # Absent
              /\ session[s].pc \in {"approve", "schedule", "apply"} =>
                   session[s].user \in Admins /\ session[s].user # requestedBy'[session[s].cr]
              /\ session[s].pc = "apply" => scheduledAt'[session[s].cr] <= now'
         /\ \A r \in batch : status'[r] # Absent /\ Cleared(r)' /\ scheduledAt'[r] <= now'
         /\ \A r \in Requests : status[r] # Absent /\ Approved(r) => Approved(r)'
         /\ \A r \in Requests : status[r] # Absent /\ Cleared(r) => Cleared(r)'
         /\ \A r \in Requests : status[r] # Absent /\ scheduledAt[r] <= now => scheduledAt'[r] <= now'
<1>1. /\ now \in Int /\ now' \in Int /\ now <= now'
      /\ \A r \in Requests : scheduledAt[r] \in Int
  BY ChangeRequestAssumption DEF TypeOK, Times, None, HistoryKept
<1>2. \A r \in Requests : status[r] # Absent /\ Approved(r) => Approved(r)'
  BY DEF HistoryKept, Approved, MayApprove
<1>3. \A r \in Requests : status[r] # Absent /\ scheduledAt[r] <= now => scheduledAt'[r] <= now'
  <2> SUFFICES ASSUME NEW r \in Requests, status[r] # Absent, scheduledAt[r] <= now
               PROVE  scheduledAt'[r] <= now'
    OBVIOUS
  <2>1. scheduledAt'[r] = scheduledAt[r]
    BY DEF HistoryKept
  <2>2. QED
    BY <1>1, <2>1
<1>0. \A r \in Requests : status[r] # Absent /\ Cleared(r) => Cleared(r)'
  BY <1>2 DEF HistoryKept, Cleared
<1>4. \A r \in batch : status'[r] # Absent /\ Cleared(r)' /\ scheduledAt'[r] <= now'
  BY <1>0, <1>3 DEF ChangeInv, BatchInv, TypeOK, HistoryKept
<1>5. ASSUME NEW s \in Sessions, session[s].pc # "idle"
      PROVE  /\ status'[session[s].cr] # Absent
             /\ session[s].pc \in {"approve", "schedule", "apply"} =>
                  session[s].user \in Admins /\ session[s].user # requestedBy'[session[s].cr]
             /\ session[s].pc = "apply" => scheduledAt'[session[s].cr] <= now'
  <2>1. session[s].cr \in Requests /\ status[session[s].cr] # Absent
    BY <1>5, WorkingSession DEF ChangeInv, SessionsInv
  <2>2. QED
    BY <1>3, <2>1 DEF ChangeInv, SessionsInv, MayApprove, HistoryKept
<1>6. QED
  BY <1>0, <1>2, <1>3, <1>4, <1>5

\* A handler or the scheduler leaves the row set alone.
LEMMA RowsInvKept ==
  ASSUME TypeOK, ChangeInv, HistoryKept, requestedBy' = requestedBy,
         createdAs' = createdAs,
         \A r \in Requests : status[r] = Absent => status'[r] = Absent /\ effects'[r] = effects[r]
  PROVE  RowsInv'
BY DEF ChangeInv, RowsInv, HistoryKept

\* A step that writes one row keeps the others reviewed.
LEMMA ReviewKept ==
  ASSUME TypeOK, ChangeInv, HistoryKept, now' \in Times, createdAs' = createdAs,
         NEW r \in Requests, Approved(r)',
         \A q \in Requests : q # r => status'[q] = status[q] /\ effects'[q] = effects[q]
  PROVE  ReviewedUnlessBornApproved'
<1> DEFINE Fine(q) ==
      /\ status'[q] = "APPROVED" \/ effects'[q] > 0 => Approved(q)' \/ createdAs'[q] = "APPROVED"
      /\ status'[q] = "APPLIED" => Approved(q)' \/ createdAs'[q] \in {"APPROVED", "APPLIED"}
<1>1. ASSUME NEW q \in Requests, q # r PROVE Fine(q)
  <2>1. status'[q] = status[q] /\ effects'[q] = effects[q] /\ createdAs'[q] = createdAs[q]
    BY <1>1
  <2>2. status[q] # Absent \/ (status[q] = Absent /\ effects[q] = 0)
    BY DEF ChangeInv, RowsInv
  <2>3. status[q] # Absent /\ Approved(q) => Approved(q)'
    BY Carried
  <2>4. QED
    BY <2>1, <2>2, <2>3 DEF ChangeInv, ReviewedUnlessBornApproved, Absent
<1>2. Fine(r)
  OBVIOUS
<1>3. \A q \in Requests : Fine(q)
  BY <1>1, <1>2
<1>4. QED
  BY <1>3 DEF ReviewedUnlessBornApproved, Approved, MayApprove

LEMMA FinishInv ==
  ASSUME TypeOK, ChangeInv, HistoryKept, now' \in Times, NEW s \in Sessions, Finish(s)
  PROVE  ChangeInv'
<1>1. /\ session[s].pc # "idle" /\ UNCHANGED <<now, requestedBy, scheduledAt, batch, createdAs>>
  BY DEF Finish, Decide, Schedule, Reject, Cancel, ApplyNow, ApplyNowFails, ApplyNowAborts, rows
<1>0. PICK r \in Requests, u \in Users : r = session[s].cr /\ u = session[s].user
  BY <1>1, WorkingSession
<1>2. session[s] \in Working /\ status[r] # Absent
  BY <1>0, <1>1, WorkingSession DEF ChangeInv, SessionsInv
<1>3. BatchInv'
  BY <1>1, Carried DEF BatchInv
<1>4. SessionsInv'
  <2>1. \A q \in Sessions : q # s => session'[q] = session[q]
    BY DEF Finish, Decide, Schedule, Reject, Cancel, ApplyNow, ApplyNowFails, ApplyNowAborts, TypeOK
  <2>2. CASE Decide(s)
    <3>1. /\ session'[s].cr = r /\ session'[s].user = u /\ session[s].pc = "approve"
          /\ session'[s].pc = IF scheduledAt[r] > now THEN "schedule" ELSE "apply"
      BY <1>0, <1>2, <2>2 DEF Decide, TypeOK, Working
    <3>2. scheduledAt[r] \in Int /\ now \in Int
      BY <1>2, ChangeRequestAssumption DEF TypeOK, Times, None
    <3>3. session'[s].pc = "apply" => scheduledAt'[r] <= now'
      BY <1>1, <3>1, <3>2
    <3>4. status'[r] # Absent /\ u \in Admins /\ u # requestedBy'[r]
      BY <1>0, <3>1, Carried
    <3>5. QED
      BY <2>1, <3>1, <3>3, <3>4, Carried DEF SessionsInv, MayApprove
  <2>3. CASE ~Decide(s)
    <3>1. session'[s].pc = "idle"
      BY <2>3 DEF Finish, Schedule, Reject, Cancel, ApplyNow, ApplyNowFails, ApplyNowAborts,
                  TypeOK, Idle
    <3>2. QED
      BY <2>1, <3>1, Carried DEF SessionsInv, MayApprove
  <2>4. QED
    BY <2>2, <2>3
<1>5. CASE Schedule(s) \/ ApplyNow(s) \/ ApplyNowFails(s)
  <2>1. /\ approvers' = [approvers EXCEPT ![r] = @ \cup {u}]
        /\ \/ effects' = effects
           \/ effects' = [effects EXCEPT ![r] = @ + 1] /\ session[s].pc = "apply"
        /\ session[s].pc \in {"schedule", "apply"}
        /\ \/ status' = [status EXCEPT ![r] = "APPROVED"]
           \/ status' = [status EXCEPT ![r] = "APPLIED"]
    BY <1>0, <1>5 DEF Schedule, ApplyNow, ApplyNowFails
  <2>2. u \in approvers'[r] /\ u \in Admins /\ u # requestedBy'[r]
    BY <1>0, <2>1, Carried DEF TypeOK
  <2>3. Approved(r)'
    BY <2>2 DEF Approved, MayApprove
  <2>4. session[s].pc = "apply" => scheduledAt'[r] <= now'
    BY <1>0, Carried
  <2>5. \A q \in Requests : q # r => status'[q] = status[q] /\ effects'[q] = effects[q]
    BY <1>2, <2>1 DEF TypeOK
  <2>6. effects'[r] = effects[r] \/ session[s].pc = "apply"
    BY <1>2, <2>1 DEF TypeOK
  <2>7. ReviewedUnlessBornApproved'
    BY <1>1, <2>3, <2>5, ReviewKept
  <2>8. NotBeforeSchedule'
    <3> SUFFICES ASSUME NEW q \in Requests, effects'[q] > 0
                 PROVE  scheduledAt'[q] <= now'
      BY DEF NotBeforeSchedule
    <3>1. CASE q = r /\ session[s].pc = "apply"
      BY <2>4, <3>1
    <3>2. CASE q # r \/ session[s].pc # "apply"
      <4>1. effects'[q] = effects[q]
        BY <2>5, <2>6, <3>2
      <4>2. QED
        BY <1>1, <4>1 DEF ChangeInv, NotBeforeSchedule
    <3>3. QED
      BY <3>1, <3>2
  <2>9. RowsInv'
    BY <1>1, <1>2, <2>5, RowsInvKept
  <2>10. QED
    BY <1>3, <1>4, <2>7, <2>8, <2>9 DEF ChangeInv
<1>6. CASE Decide(s) \/ Reject(s) \/ Cancel(s) \/ ApplyNowAborts(s)
  <2>1. effects' = effects /\ approvers' = approvers
    BY <1>6 DEF Decide, Reject, Cancel, ApplyNowAborts
  <2>2. \/ status' = status
        \/ \E st \in {"REJECTED", "CANCELLED", status[r]} : status' = [status EXCEPT ![r] = st]
    BY <1>0, <1>6 DEF Decide, Reject, Cancel, ApplyNowAborts, rows
  <2>3. \A q \in Requests : status'[q] = status[q] \/ (q = r /\ status'[q] \in {"REJECTED", "CANCELLED"})
    BY <1>2, <2>2 DEF TypeOK
  <2>4. ReviewedUnlessBornApproved'
    BY <1>1, <2>1, <2>3 DEF ChangeInv, ReviewedUnlessBornApproved, Approved, MayApprove
  <2>5. NotBeforeSchedule'
    BY <1>1, <2>1 DEF ChangeInv, NotBeforeSchedule
  <2>6. RowsInv'
    BY <1>1, <1>2, <2>1, <2>3, RowsInvKept
  <2>7. QED
    BY <1>3, <1>4, <2>4, <2>5, <2>6 DEF ChangeInv
<1>7. QED
  BY <1>5, <1>6 DEF Finish

LEMMA CreateInv ==
  ASSUME TypeOK, ChangeInv, HistoryKept, now' \in Times,
         NEW r \in Requests, NEW u \in Users, NEW t \in Times \cup {None}, NEW p \in Payloads,
         NEW st \in Statuses, Create(r, u, t, p, st)
  PROVE  ChangeInv'
<1>1. /\ UNCHANGED <<now, session, batch, approvers, effects>> /\ status[r] = Absent
      /\ status' = [status EXCEPT ![r] = st] /\ requestedBy' = [requestedBy EXCEPT ![r] = u]
      /\ scheduledAt' = [scheduledAt EXCEPT ![r] = t]
      /\ createdAs' = [createdAs EXCEPT ![r] = st]
  BY DEF Create
<1>2. st # Absent /\ u # Nobody
  BY ChangeRequestAssumption DEF Statuses, Absent
<1>3. effects'[r] = 0 /\ status'[r] = st /\ createdAs'[r] = st
  BY <1>1 DEF ChangeInv, RowsInv, TypeOK
<1>4. \A q \in Requests : q # r =>
        /\ status'[q] = status[q] /\ requestedBy'[q] = requestedBy[q]
        /\ scheduledAt'[q] = scheduledAt[q] /\ createdAs'[q] = createdAs[q]
  BY <1>1 DEF TypeOK
<1>5. RowsInv'
  BY <1>1, <1>2, <1>4 DEF ChangeInv, RowsInv, TypeOK
<1>6. SessionsInv' /\ BatchInv'
  BY <1>1, Carried DEF SessionsInv, BatchInv, MayApprove
<1>7. ReviewedUnlessBornApproved'
  BY <1>1, <1>3, <1>4
     DEF ChangeInv, ReviewedUnlessBornApproved, Approved, MayApprove
<1>8. NotBeforeSchedule'
  BY <1>1, <1>3, <1>4 DEF ChangeInv, NotBeforeSchedule
<1>9. QED
  BY <1>5, <1>6, <1>7, <1>8 DEF ChangeInv

LEMMA ApplyDueInv ==
  ASSUME TypeOK, ChangeInv, HistoryKept, now' \in Times, NEW r \in Requests,
         ApplyDue(r) \/ ApplyDueFails(r) \/ ApplyDueAborts(r)
  PROVE  ChangeInv'
<1>1. /\ UNCHANGED <<now, requestedBy, scheduledAt, session, approvers, createdAs>>
      /\ r \in batch /\ batch' \subseteq batch
  BY DEF ApplyDue, ApplyDueFails, ApplyDueAborts, Earliest, rows
<1>2. status[r] # Absent /\ Cleared(r) /\ scheduledAt[r] <= now
  BY <1>1 DEF ChangeInv, BatchInv
<1>3. \A q \in Requests : q # r => status'[q] = status[q] /\ effects'[q] = effects[q]
  BY DEF ApplyDue, ApplyDueFails, ApplyDueAborts, rows, TypeOK
<1>4. Cleared(r)' /\ scheduledAt'[r] <= now'
  BY <1>2, Carried
<1>5. SessionsInv' /\ BatchInv'
  BY <1>1, Carried DEF SessionsInv, BatchInv, MayApprove
<1>6. RowsInv'
  BY <1>1, <1>2, <1>3, RowsInvKept
<1>7. ReviewedUnlessBornApproved'
  BY <1>1, <1>3, <1>4
     DEF ChangeInv, ReviewedUnlessBornApproved, Cleared, Approved, MayApprove
<1>8. NotBeforeSchedule'
  BY <1>1, <1>3, <1>4 DEF ChangeInv, NotBeforeSchedule
<1>9. QED
  BY <1>5, <1>6, <1>7, <1>8 DEF ChangeInv

LEMMA ChangeNext ==
  ASSUME TypeOK, ChangeInv, [Next]_vars
  PROVE  ChangeInv'
<1>0. TypeOK' /\ HistoryKept /\ now' \in Times
  <2>1. TypeOK'
    BY TypeNext
  <2>2. QED
    BY <2>1, NextKept DEF TypeOK
<1>1. ASSUME UNCHANGED <<status, requestedBy, scheduledAt, approvers, effects, createdAs>>,
             SessionsInv', BatchInv'
      PROVE  ChangeInv'
  <2>1. RowsInv' /\ ReviewedUnlessBornApproved'
    BY <1>1 DEF ChangeInv, RowsInv, ReviewedUnlessBornApproved, Approved, MayApprove
  <2>2. NotBeforeSchedule'
    <3>1. /\ now \in Int /\ now' \in Int /\ now <= now'
          /\ \A r \in Requests : scheduledAt[r] \in Int
      BY <1>0, ChangeRequestAssumption DEF TypeOK, Times, None, HistoryKept
    <3>2. QED
      BY <1>1, <3>1 DEF ChangeInv, NotBeforeSchedule
  <2>3. QED
    BY <1>1, <2>1, <2>2 DEF ChangeInv
<1>2. CASE Tick \/ UNCHANGED vars
  <2>1. UNCHANGED <<status, requestedBy, scheduledAt, approvers, effects, session, batch, createdAs>>
    BY <1>2 DEF Tick, vars, rows
  <2>2. SessionsInv' /\ BatchInv'
    BY <1>0, <2>1, Carried DEF SessionsInv, BatchInv, MayApprove
  <2>3. QED
    BY <1>1, <2>1, <2>2
<1>3. CASE Scan
  <2>1. UNCHANGED <<now, status, requestedBy, scheduledAt, approvers, effects, session, createdAs>>
    BY <1>3 DEF Scan, rows
  <2>2. SessionsInv'
    BY <1>0, <2>1, Carried DEF SessionsInv, MayApprove
  <2>3. BatchInv'
    BY <1>3, <2>1, ChangeRequestAssumption
       DEF Scan, Due, BatchInv, ChangeInv, ReviewedUnlessBornApproved, Cleared, Approved,
           MayApprove, Absent
  <2>4. QED
    BY <1>1, <2>1, <2>2, <2>3
<1>4. CASE Crash
  <2>1. UNCHANGED <<status, requestedBy, scheduledAt, approvers, effects, createdAs>>
    BY <1>4 DEF Crash, rows
  <2>2. SessionsInv' /\ BatchInv'
    BY <1>4 DEF Crash, SessionsInv, BatchInv, Idle
  <2>3. QED
    BY <1>1, <2>1, <2>2
<1>5. ASSUME NEW s \in Sessions, NEW op \in {"approve", "reject", "cancel"}, NEW u \in Users,
             NEW r \in Requests, Read(s, op, u, r)
      PROVE  ChangeInv'
  <2>1. UNCHANGED <<status, requestedBy, scheduledAt, approvers, effects, batch, now, createdAs>>
    BY <1>5 DEF Read, rows
  <2>2. BatchInv'
    BY <1>0, <2>1, Carried DEF BatchInv
  <2>3. \A q \in Sessions : q # s => session'[q] = session[q]
    BY <1>5 DEF Read, TypeOK
  <2>4. session'[s].pc = op /\ session'[s].user = u /\ session'[s].cr = r
    BY <1>5 DEF Read, TypeOK
  <2>5. status[r] # Absent /\ (op = "approve" => MayApprove(u, r))
    BY <1>5 DEF Read, Permitted
  <2>6. SessionsInv'
    BY <1>0, <2>1, <2>3, <2>4, <2>5, Carried DEF SessionsInv, MayApprove
  <2>7. QED
    BY <1>1, <2>1, <2>2, <2>6
<1>6. QED
  BY <1>0, <1>2, <1>3, <1>4, <1>5, FinishInv, CreateInv, ApplyDueInv DEF Next, Handle, Scheduler

LEMMA ChangeInit == ASSUME Init PROVE ChangeInv
BY ChangeRequestAssumption DEF Init, ChangeInv, RowsInv, SessionsInv, BatchInv,
                               ReviewedUnlessBornApproved, NotBeforeSchedule, Idle, Absent

THEOREM ChangeInvariant == Spec => []ChangeInv
<1>1. Init => ChangeInv
  BY ChangeInit
<1>2. TypeOK /\ ChangeInv /\ [Next]_vars => ChangeInv'
  BY ChangeNext
<1>3. QED
  BY <1>1, <1>2, TypeCorrect, PTL DEF Spec

\* For any number of requests, handlers and restarts, and whatever status the
\* requests are created with: a payload is only committed after an administrator
\* other than its author approved it, or because it was stored as approved.  So
\* four eyes hold as long as no request is created as approved.
THEOREM ReviewedOrBornApproved ==
  Spec => [](ReviewedUnlessBornApproved /\ (BornApproved = {} => FourEyes))
<1>1. ChangeInv => ReviewedUnlessBornApproved /\ (BornApproved = {} => FourEyes)
  BY DEF ChangeInv, ReviewedUnlessBornApproved, BornApproved, FourEyes
<1>2. QED
  BY <1>1, ChangeInvariant, PTL

\* Nothing is applied before its time, whether a reviewer or the job applies it.
THEOREM SchedulesHold == Spec => []NotBeforeSchedule
<1>1. ChangeInv => NotBeforeSchedule
  BY DEF ChangeInv
<1>2. QED
  BY <1>1, ChangeInvariant, PTL

-----------------------------------------------------------------------------
(* The workflow implements ControlledChange.                                *)

LEMMA PromiseInit == ASSUME Init PROVE Promise!Init
BY DEF Init, Promise!Init, None, Promise!None, BornApproved, Absent

LEMMA PromiseFinish ==
  ASSUME TypeOK, ChangeInv, NEW s \in Sessions, Finish(s)
  PROVE  [Promise!Next]_Promise!vars
<1>1. session[s].pc # "idle" /\ UNCHANGED <<now, requestedBy, scheduledAt, createdAs>>
  BY DEF Finish, Decide, Schedule, Reject, Cancel, ApplyNow, ApplyNowFails, ApplyNowAborts, rows
<1>2. PICK r \in Requests, u \in Users : r = session[s].cr /\ u = session[s].user
  BY <1>1, WorkingSession
<1>0. BornApproved' = BornApproved
  BY <1>1 DEF BornApproved
<1>3. requestedBy[r] # Nobody
  BY <1>1, <1>2 DEF ChangeInv, SessionsInv, RowsInv
<1>4. session[s].pc \in {"schedule", "apply"} => Promise!MayApprove(u, r)
  BY <1>2 DEF ChangeInv, SessionsInv, MayApprove, Promise!MayApprove
<1>5. CASE Schedule(s) \/ ApplyNowFails(s)
  <2>1. Promise!Approve(r, u)
    BY <1>0, <1>1, <1>2, <1>3, <1>4, <1>5 DEF Schedule, ApplyNowFails, Promise!Approve
  <2>2. QED
    BY <2>1 DEF Promise!Next
<1>6. CASE ApplyNow(s)
  <2>1. scheduledAt[r] <= now
    BY <1>2, <1>6 DEF ApplyNow, ChangeInv, SessionsInv
  <2>2. Promise!Apply(r, {u})
    BY <1>0, <1>1, <1>2, <1>3, <1>4, <1>6, <2>1 DEF ApplyNow, Promise!Apply
  <2>3. QED
    BY <2>2 DEF Promise!Next
<1>7. CASE Decide(s) \/ Reject(s) \/ Cancel(s) \/ ApplyNowAborts(s)
  BY <1>0, <1>1, <1>7 DEF Decide, Reject, Cancel, ApplyNowAborts, Promise!vars
<1>8. QED
  BY <1>5, <1>6, <1>7 DEF Finish

LEMMA PromiseStep ==
  ASSUME TypeOK, ChangeInv, [Next]_vars
  PROVE  [Promise!Next]_Promise!vars
<1>0. createdAs' = createdAs => BornApproved' = BornApproved
  BY DEF BornApproved
<1>1. CASE Tick
  BY <1>0, <1>1 DEF Tick, rows, Promise!Tick, Promise!Next
<1>2. ASSUME NEW r \in Requests, NEW u \in Users, NEW t \in Times \cup {None}, NEW p \in Payloads,
             NEW st \in Statuses, Create(r, u, t, p, st)
      PROVE  [Promise!Next]_Promise!vars
  <2>0. BornApproved' = BornApproved \/ BornApproved' = BornApproved \cup {r}
    <3>1. createdAs[r] = Absent /\ createdAs' = [createdAs EXCEPT ![r] = st]
      BY <1>2 DEF Create, ChangeInv, RowsInv
    <3>2. \A q \in Requests : createdAs'[q] = IF q = r THEN st ELSE createdAs[q]
      BY <3>1 DEF TypeOK
    <3>3. r \notin BornApproved
      BY <3>1 DEF BornApproved, Absent
    <3>4. CASE st = "APPROVED"
      BY <3>2, <3>4 DEF BornApproved
    <3>5. CASE st # "APPROVED"
      BY <3>2, <3>3, <3>5 DEF BornApproved
    <3>6. QED
      BY <3>4, <3>5
  <2>1. Promise!Request(r, u, t)
    BY <1>2, <2>0 DEF Create, Promise!Request, ChangeInv, RowsInv
  <2>2. t \in Promise!Times \cup {Promise!None}
    BY DEF Times, None, Promise!Times, Promise!None
  <2>3. QED
    BY <2>1, <2>2 DEF Promise!Next
<1>3. ASSUME NEW r \in Requests, ApplyDue(r)
      PROVE  [Promise!Next]_Promise!vars
  <2>1. r \in batch /\ UNCHANGED <<now, requestedBy, scheduledAt, approvers, createdAs>>
    BY <1>3 DEF ApplyDue, Earliest
  <2>2. /\ status[r] # Absent /\ scheduledAt[r] <= now
        /\ approvers[r] # {} \/ r \in BornApproved
    BY <2>1 DEF ChangeInv, BatchInv, Cleared, Approved, BornApproved
  <2>3. requestedBy[r] # Nobody
    BY <2>2 DEF ChangeInv, RowsInv
  <2>4. approvers' = [approvers EXCEPT ![r] = @ \cup {}]
    BY <2>1 DEF TypeOK
  <2>5. Promise!Apply(r, {})
    BY <1>0, <1>3, <2>1, <2>2, <2>3, <2>4 DEF ApplyDue, Promise!Apply
  <2>6. QED
    BY <2>5 DEF Promise!Next
<1>4. ASSUME NEW r \in Requests, ApplyDueFails(r) \/ ApplyDueAborts(r)
      PROVE  [Promise!Next]_Promise!vars
  BY <1>0, <1>4 DEF ApplyDueFails, ApplyDueAborts, rows, Promise!vars
<1>5. ASSUME NEW s \in Sessions, Handle(s) PROVE [Promise!Next]_Promise!vars
  <2>1. CASE Finish(s)
    BY <2>1, PromiseFinish
  <2>2. CASE ~Finish(s)
    BY <1>0, <1>5, <2>2 DEF Handle, Read, rows, Promise!vars
  <2>3. QED
    BY <2>1, <2>2
<1>6. CASE Scan \/ Crash \/ UNCHANGED vars
  BY <1>0, <1>6 DEF Scan, Crash, vars, rows, Promise!vars
<1>7. QED
  BY <1>1, <1>2, <1>3, <1>4, <1>5, <1>6 DEF Next, Scheduler

\* Every behaviour of handlers, scheduler, failures and restarts is one that
\* ControlledChange allows.
THEOREM ImplementsPromise == Spec => KeepsPromise
<1>1. Init => Promise!Init
  BY PromiseInit
<1>2. TypeOK /\ ChangeInv /\ [Next]_vars => [Promise!Next]_Promise!vars
  BY PromiseStep
<1>3. QED
  BY <1>1, <1>2, TypeCorrect, ChangeInvariant, PTL DEF Spec, KeepsPromise, Promise!Spec

-----------------------------------------------------------------------------
(* One handler at a time.  An approval then still races with the scheduler, *)
(* but the request it has read stays open, and the job only holds requests  *)
(* that were approved before: whoever applies one finds it not yet applied.  *)

OneHandler == \A s, t \in Sessions : s = t

OpenStages == {"approve", "schedule", "apply", "reject"}

OnceInv ==
  /\ \A s \in Sessions : session[s].pc \in OpenStages => status[session[s].cr] \in Open
  /\ \A r \in batch : status[r] \in {"APPROVED", "CANCELLED"} /\ effects[r] = 0
  /\ \A r \in Requests :
       /\ effects[r] \in {0, 1}
       /\ effects[r] = 1 => status[r] \in {"APPLIED", "CANCELLED"}

LEMMA OnceInit == ASSUME Init PROVE OnceInv
BY DEF Init, OnceInv, OpenStages, Idle

\* A step of the only handler leaves it idle, and writes one row.
LEMMA OnceFinish ==
  ASSUME TypeOK, OneHandler, OnceInv, NEW s \in Sessions, Finish(s)
  PROVE  OnceInv'
<1> DEFINE r == session[s].cr
<1>1. session[s].pc # "idle" /\ batch' = batch
  BY DEF Finish, Decide, Schedule, Reject, Cancel, ApplyNow, ApplyNowFails, ApplyNowAborts
<1>2. session[s] \in Working /\ r \in Requests
  BY <1>1, WorkingSession
<1>3. CASE Decide(s)
  <2>1. UNCHANGED <<status, effects>> /\ session[s].pc = "approve"
    BY <1>3 DEF Decide, rows
  <2>2. /\ session'[s].cr = r
        /\ \A t \in Sessions : t = s
    BY <1>2, <1>3 DEF Decide, TypeOK, OneHandler
  <2>3. status'[session'[s].cr] \in Open
    BY <2>1, <2>2 DEF OnceInv, OpenStages
  <2> QED  BY <1>1, <2>1, <2>2, <2>3 DEF OnceInv
<1> HIDE DEF r
<1>4. CASE ~Decide(s)
  <2>1. \A t \in Sessions : session'[t].pc \notin OpenStages
    <3>1. session' = [session EXCEPT ![s] = Idle]
      BY <1>4 DEF Finish, Schedule, Reject, Cancel, ApplyNow, ApplyNowFails, ApplyNowAborts
    <3> QED  BY <3>1 DEF OneHandler, TypeOK, Idle, OpenStages
  <2>2. ASSUME NEW st \in Statuses, status' = [status EXCEPT ![r] = st],
               session[s].pc \in OpenStages,
               \/ effects' = effects
               \/ effects' = [effects EXCEPT ![r] = @ + 1] /\ st = "APPLIED"
        PROVE  OnceInv'
    <3>1. status[r] \in Open /\ effects[r] = 0 /\ r \notin batch
      BY <1>2, <2>2 DEF OnceInv, Open, r
    <3>2. \A q \in Requests : status'[q] = IF q = r THEN st ELSE status[q]
      BY <2>2 DEF TypeOK
    <3>3. \A q \in Requests : effects'[q] = effects[q] \/ (q = r /\ effects'[q] = 1 /\ st = "APPLIED")
      BY <1>2, <2>2, <3>1 DEF TypeOK
    <3>4. \A q \in batch : q \in Requests /\ status'[q] = status[q] /\ effects'[q] = effects[q]
      BY <3>1, <3>2, <3>3 DEF TypeOK
    <3>5. \A q \in Requests :
            /\ effects'[q] \in {0, 1}
            /\ effects'[q] = 1 => status'[q] \in {"APPLIED", "CANCELLED"}
      BY <3>1, <3>2, <3>3 DEF OnceInv
    <3> QED  BY <1>1, <2>1, <3>4, <3>5 DEF OnceInv
  <2>3. CASE Schedule(s) \/ ApplyNowFails(s)
    <3>1. "APPROVED" \in Statuses  BY DEF Statuses
    <3> QED  BY <2>2, <2>3, <3>1 DEF Schedule, ApplyNowFails, OpenStages, r
  <2>4. CASE Reject(s)
    <3>1. "REJECTED" \in Statuses  BY DEF Statuses
    <3> QED  BY <2>2, <2>4, <3>1 DEF Reject, OpenStages, r
  <2>5. CASE ApplyNow(s)
    <3>1. "APPLIED" \in Statuses  BY DEF Statuses
    <3> QED  BY <2>2, <2>5, <3>1 DEF ApplyNow, OpenStages, r
  <2>6. CASE ApplyNowAborts(s)
    BY <1>1, <2>1, <2>6 DEF ApplyNowAborts, OnceInv, rows
  <2>7. CASE Cancel(s)
    <3>1. \A q \in Requests : status'[q] = status[q] \/ status'[q] = "CANCELLED"
      BY <2>7 DEF Cancel, TypeOK, r
    <3>2. effects' = effects  BY <2>7 DEF Cancel
    <3>3. batch \subseteq Requests  BY DEF TypeOK
    <3> QED  BY <1>1, <2>1, <3>1, <3>2, <3>3 DEF OnceInv
  <2> QED  BY <1>4, <2>3, <2>4, <2>5, <2>6, <2>7 DEF Finish
<1> QED  BY <1>3, <1>4

LEMMA OnceNext ==
  ASSUME TypeOK, OneHandler, OnceInv, [Next]_vars
  PROVE  OnceInv'
<1>1. CASE UNCHANGED <<status, session, effects>> /\ batch' \in {batch, {}}
  BY <1>1 DEF OnceInv
<1>2. ASSUME NEW r \in Requests, NEW u \in Users, NEW t \in Times \cup {None}, NEW p \in Payloads,
             NEW st \in Statuses, Create(r, u, t, p, st)
      PROVE  OnceInv'
  <2>1. effects' = effects /\ batch' = batch /\ session' = session
    BY <1>2 DEF Create
  <2>2. status[r] = Absent /\ effects[r] = 0
    BY <1>2 DEF Create, OnceInv, Absent
  <2>3. \A q \in Requests : q # r => status'[q] = status[q]
    BY <1>2 DEF Create, TypeOK
  <2>4. r \notin batch  BY <2>2 DEF OnceInv, Absent
  <2>5. ASSUME NEW s \in Sessions, session'[s].pc \in OpenStages
        PROVE  status'[session'[s].cr] \in Open
    <3>1. session[s].pc # "idle"  BY <2>1, <2>5 DEF OpenStages
    <3>2. session[s].cr \in Requests /\ status[session[s].cr] \in Open
      BY <2>1, <2>5, <3>1, WorkingSession DEF OnceInv
    <3> QED  BY <2>1, <2>2, <2>3, <3>2 DEF Open, Absent
  <2>6. batch \subseteq Requests  BY DEF TypeOK
  <2>7. \A q \in batch' : status'[q] \in {"APPROVED", "CANCELLED"} /\ effects'[q] = 0
    BY <2>1, <2>3, <2>4, <2>6 DEF OnceInv
  <2>8. \A q \in Requests :
          /\ effects'[q] \in {0, 1}
          /\ effects'[q] = 1 => status'[q] \in {"APPLIED", "CANCELLED"}
    BY <2>1, <2>2, <2>3 DEF OnceInv
  <2> QED  BY <2>5, <2>7, <2>8 DEF OnceInv
<1>3. ASSUME NEW s \in Sessions, NEW op \in {"approve", "reject", "cancel"}, NEW u \in Users,
             NEW r \in Requests, Read(s, op, u, r)
      PROVE  OnceInv'
  <2>1. UNCHANGED <<status, effects, batch>>
    BY <1>3 DEF Read, rows
  <2>2. session'[s].pc = op /\ session'[s].cr = r /\ \A t \in Sessions : t = s
    BY <1>3 DEF Read, TypeOK, OneHandler
  <2>3. op \in OpenStages => status[r] \in Open
    BY <1>3 DEF Read, Permitted, OpenStages
  <2> QED  BY <2>1, <2>2, <2>3 DEF OnceInv
<1>4. ASSUME NEW s \in Sessions, Finish(s) PROVE OnceInv'
  BY <1>4, OnceFinish
<1>5. CASE Scan
  <2>1. UNCHANGED <<status, effects, session>>  BY <1>5 DEF Scan, rows
  <2>2. ASSUME NEW r \in batch' PROVE status[r] \in {"APPROVED", "CANCELLED"} /\ effects[r] = 0
    <3>1. r \in Requests /\ status[r] = "APPROVED"  BY <1>5 DEF Scan, Due
    <3> QED  BY <3>1 DEF OnceInv
  <2> QED  BY <2>1, <2>2 DEF OnceInv
<1>6. ASSUME NEW r \in Requests, ApplyDue(r) \/ ApplyDueFails(r)
      PROVE  OnceInv'
  <2>1. /\ r \in batch /\ batch' \in {batch \ {r}, {}} /\ session' = session
        /\ status[r] \in {"APPROVED", "CANCELLED"} /\ effects[r] = 0
    BY <1>6 DEF ApplyDue, ApplyDueFails, Earliest, OnceInv
  <2>2. /\ \A q \in Requests : q # r => status'[q] = status[q] /\ effects'[q] = effects[q]
        /\ effects'[r] = 0 \/ (effects'[r] = 1 /\ status'[r] = "APPLIED")
    BY <1>6, <2>1 DEF ApplyDue, ApplyDueFails, TypeOK
  <2>3. ASSUME NEW s \in Sessions, session'[s].pc \in OpenStages
        PROVE  status'[session'[s].cr] \in Open
    <3>1. session[s].pc # "idle"  BY <2>1, <2>3 DEF OpenStages
    <3>2. session[s].cr \in Requests /\ status[session[s].cr] \in Open
      BY <2>1, <2>3, <3>1, WorkingSession DEF OnceInv
    <3> QED  BY <2>1, <2>2, <3>2 DEF Open
  <2>4. batch \subseteq Requests  BY DEF TypeOK
  <2>5. \A q \in batch' : status'[q] \in {"APPROVED", "CANCELLED"} /\ effects'[q] = 0
    BY <2>1, <2>2, <2>4 DEF OnceInv
  <2>6. \A q \in Requests :
          /\ effects'[q] \in {0, 1}
          /\ effects'[q] = 1 => status'[q] \in {"APPLIED", "CANCELLED"}
    BY <2>2 DEF OnceInv
  <2> QED  BY <2>3, <2>5, <2>6 DEF OnceInv
<1>7. ASSUME NEW r \in Requests, ApplyDueAborts(r) PROVE OnceInv'
  BY <1>1, <1>7 DEF ApplyDueAborts, rows
<1>8. CASE Crash
  <2>1. UNCHANGED <<status, effects>> /\ batch' = {} /\ \A s \in Sessions : session'[s] = Idle
    BY <1>8 DEF Crash, rows
  <2> QED  BY <2>1 DEF OnceInv, Idle, OpenStages
<1>9. CASE Tick \/ UNCHANGED vars
  BY <1>1, <1>9 DEF Tick, vars, rows
<1> QED
  BY <1>2, <1>3, <1>4, <1>5, <1>6, <1>7, <1>8, <1>9 DEF Next, Handle, Scheduler

\* Handlers that do not overlap and the scheduler job never commit a payload
\* twice, whatever fails and restarts: the double application of
\* approve_change_request takes two approvals at the same time.
THEOREM OneHandlerAppliesOnce == OneHandler => (Spec => []AppliedOnce)
<1> SUFFICES ASSUME OneHandler PROVE Spec => []AppliedOnce
  OBVIOUS
<1>1. Init => OnceInv
  BY OnceInit
<1>2. TypeOK /\ OnceInv /\ [Next]_vars => OnceInv'
  BY OnceNext
<1>3. OnceInv => AppliedOnce
  <2> SUFFICES ASSUME OnceInv, NEW r \in Requests PROVE effects[r] <= 1
    BY DEF AppliedOnce
  <2>1. effects[r] = 0 \/ effects[r] = 1
    BY DEF OnceInv
  <2>2. QED
    BY <2>1
<1>4. QED
  BY <1>1, <1>2, <1>3, TypeCorrect, PTL DEF Spec

-----------------------------------------------------------------------------
(* The inductive invariant.                                                 *)

AccountRow == [id : Nat, email : Emails, refresh_token_hash : Nat]
TokenRow == [n : Nat, id : Nat, from : Nat]
LogoutRow == [n : Nat, killed : SUBSET Nat]
Addresses == Emails \cup {""}
CallRecord ==
  [pc : {"idle", "flush", "commit"}, kind : {"none", "register", "login", "refresh", "logout"},
   n : Nat, email : Addresses, id : Nat, from : Nat]

TokenShapes ==
  /\ accounts \subseteq AccountRow /\ tokens \subseteq TokenRow /\ logouts \subseteq LogoutRow
  /\ call \in [Clients -> CallRecord]
  /\ calls \in Nat

UnderWay(c) == call[c].pc # "idle"

\* The token numbered n of an account is one that was handed out.
HandedOut(n, id) == \E t \in tokens : t.n = n /\ t.id = id

\* A number is used once; running requests have met each other; what is
\* presented was handed out for the same account.
NumbersInv ==
  /\ \A t \in tokens : t.n \in 1..calls /\ (t.from # NoToken => HandedOut(t.from, t.id))
  /\ \A t, u \in tokens : t.n = u.n => t = u
  /\ \A a \in accounts : a.id \in 1..calls
  /\ \A c \in Clients : call[c].n \in 0..calls
  /\ \A c \in Clients : UnderWay(c) =>
       /\ call[c].n \in 1..calls
       /\ \A t \in tokens : t.n # call[c].n
       /\ \A a \in accounts : a.id # call[c].n
       /\ call[c].from # NoToken => HandedOut(call[c].from, call[c].id)
  /\ \A c, d \in Clients : (UnderWay(c) /\ UnderWay(d) /\ c # d) =>
       call[c].n # call[d].n /\ {call[c].n, call[d].n} \in met

\* Accounts are unique, also with the one a registration is about to commit.
AccountsInv ==
  /\ \A a, b \in accounts : (a.id = b.id \/ a.email = b.email) => a = b
  /\ \A a \in accounts : a.refresh_token_hash # NoToken => HandedOut(a.refresh_token_hash, a.id)
  /\ \A c \in Clients : Committed(c, {"register"}) =>
       /\ \A a \in accounts : a.email # call[c].email
       /\ \A d \in Clients : (Committed(d, {"register"}) /\ c # d) => call[c].email # call[d].email
  /\ \A c \in Clients : (UnderWay(c) /\ call[c].kind = "register") => call[c].email \in Emails

\* Nobody has been given a token for one that is still stored, and a refresh has
\* met whoever was given one for the same token.
RotationInv ==
  /\ \A t \in tokens, a \in accounts : a.refresh_token_hash # NoToken => t.from # a.refresh_token_hash
  /\ \A c \in Clients, t \in tokens :
       (UnderWay(c) /\ call[c].from # NoToken /\ t.from = call[c].from) => {t.n, call[c].n} \in met
  /\ RotationNeedsOverlap

\* No account stores a token that a logout has killed, and a refresh that
\* presents one has met that logout.
LogoutInv ==
  /\ \A l \in logouts : \A k \in l.killed : \E t \in tokens : t.n = k
  /\ \A l \in logouts, a \in accounts : a.refresh_token_hash \notin l.killed
  /\ \A c \in Clients, l \in logouts :
       (UnderWay(c) /\ call[c].from \in l.killed) => {call[c].n, l.n} \in met
  /\ LogoutHolds

TokensInv == TokenShapes /\ NumbersInv /\ AccountsInv /\ RotationInv /\ LogoutInv

-----------------------------------------------------------------------------
(* What the actions do.                                                     *)

Others(c) == \A d \in Clients : d # c => call'[d] = call[d]

\* A request that goes on, or ends, stays the request it was.
Same(c) ==
  /\ Others(c)
  /\ call'[c].pc # "idle" =>
       /\ call[c].pc # "idle" /\ call'[c].n = call[c].n /\ call'[c].from = call[c].from
       /\ call'[c].id = call[c].id /\ call'[c].kind = call[c].kind
       /\ call'[c].email = call[c].email
  /\ call'[c].n \in {0, call[c].n}
  /\ call' \in [Clients -> CallRecord]

\* A request that is not there is well-formed.
LEMMA NoCallShape == NoCall \in CallRecord
BY DEF NoCall, CallRecord, NoToken, Addresses

\* A request that ends takes nothing with it.
LEMMA AnswerEffect ==
  ASSUME TokenShapes, NEW c \in Clients, Answer(c)
  PROVE  Same(c) /\ call'[c].pc = "idle"
<1>1. call' = [call EXCEPT ![c] = NoCall] /\ call \in [Clients -> CallRecord]
  BY DEF Answer, TokenShapes
<1>2. call'[c] = NoCall /\ \A d \in Clients : d # c => call'[d] = call[d]
  BY <1>1
<1>3. call' \in [Clients -> CallRecord]
  BY <1>1, NoCallShape
<1>4. NoCall.pc = "idle" /\ NoCall.n = 0
  BY DEF NoCall
<1>5. call'[c].pc = "idle" /\ call'[c].n = 0
  BY <1>2, <1>4
<1>6. QED
  BY <1>2, <1>3, <1>5 DEF Same, Others

\* A flush only moves the request to its commit.
LEMMA FlushEffect ==
  ASSUME TokenShapes, NEW c \in Clients, call[c].pc = "flush", call' = [call EXCEPT ![c].pc = "commit"]
  PROVE  Same(c) /\ call'[c] = [call[c] EXCEPT !.pc = "commit"]
<1>1. call \in [Clients -> CallRecord]
  BY DEF TokenShapes
<1>2. call'[c] = [call[c] EXCEPT !.pc = "commit"] /\ \A d \in Clients : d # c => call'[d] = call[d]
  BY <1>1
<1>3. call[c] \in CallRecord
  BY <1>1
<1>4. call'[c] \in CallRecord
  BY <1>2, <1>3 DEF CallRecord
<1>5. call' \in [Clients -> CallRecord]
  BY <1>1, <1>4
<1>6. QED
  BY <1>2, <1>3, <1>5 DEF Same, Others, CallRecord

\* A new request, numbered after all others.
Fresh(c) ==
  /\ Others(c) /\ call[c].pc = "idle" /\ call'[c].pc = "flush"
  /\ call'[c].n = calls + 1 /\ calls' = calls + 1
  /\ met' = met \cup {{calls + 1, call[d].n} : d \in InFlight}
  /\ call' \in [Clients -> CallRecord]
  /\ UNCHANGED <<accounts, tokens, logouts>>

\* What Call does for each kind of request.
LEMMA CallEffect ==
  ASSUME TokenShapes, NEW c \in Clients, NEW k \in CallRecord, Call(c, k)
  PROVE  /\ Fresh(c)
         /\ call'[c].kind = k.kind /\ call'[c].email = k.email
         /\ call'[c].id = k.id /\ call'[c].from = k.from
<1>1. call \in [Clients -> CallRecord] /\ calls \in Nat
  BY DEF TokenShapes
<1>2. call' = [call EXCEPT ![c] = [k EXCEPT !.n = calls + 1, !.pc = "flush"]]
  BY DEF Call
<1>3. call'[c] = [k EXCEPT !.n = calls + 1, !.pc = "flush"] /\ Others(c)
  BY <1>1, <1>2 DEF Others
<1>4. [k EXCEPT !.n = calls + 1, !.pc = "flush"] \in CallRecord
  <2> DEFINE m == calls + 1
  <2>1. m \in Nat
    BY <1>1
  <2> HIDE DEF m
  <2>2. [k EXCEPT !.n = m, !.pc = "flush"] \in CallRecord
    BY <2>1 DEF CallRecord
  <2>3. QED
    BY <2>2 DEF m
<1>5. call' \in [Clients -> CallRecord]
  BY <1>1, <1>2, <1>4
<1>6. call'[c].pc = "flush" /\ call'[c].n = calls + 1 /\ call'[c].kind = k.kind
      /\ call'[c].email = k.email /\ call'[c].id = k.id /\ call'[c].from = k.from
  BY <1>3 DEF CallRecord
<1>7. QED
  BY <1>3, <1>5, <1>6 DEF Call, Fresh

\* The four requests: what they present and for whom.
LEMMA StartEffect ==
  ASSUME TokenShapes, NEW c \in Clients,
         \/ \E e \in Emails : Register(c, e)
         \/ \E a \in accounts : Login(c, a) \/ Logout(c, a) \/ \E t \in tokens : Refresh(c, a, t)
  PROVE  /\ Fresh(c)
         /\ call'[c].kind = "register" => call'[c].email \in Emails
         /\ call'[c].from # NoToken =>
              \E a \in accounts, t \in tokens :
                /\ t.id = a.id /\ t.n = a.refresh_token_hash
                /\ call'[c].id = a.id /\ call'[c].from = t.n
<1>1. ASSUME NEW e \in Emails, Register(c, e)
      PROVE  Fresh(c) /\ call'[c].email \in Emails /\ call'[c].from = NoToken
  <2> DEFINE k == [NoCall EXCEPT !.kind = "register", !.email = e]
  <2>1. k \in CallRecord /\ k.email = e /\ k.from = NoToken
    BY NoCallShape DEF NoCall, CallRecord, NoToken, Addresses
  <2>2. Call(c, k)
    BY <1>1 DEF Register
  <2> HIDE DEF k
  <2>3. QED
    BY <2>1, <2>2, CallEffect
<1>2. ASSUME NEW a \in accounts, Login(c, a)
      PROVE  Fresh(c) /\ call'[c].kind = "login" /\ call'[c].from = NoToken
  <2> DEFINE k == [NoCall EXCEPT !.kind = "login", !.id = a.id]
  <2>1. a.id \in Nat
    BY DEF TokenShapes, AccountRow
  <2>2. k \in CallRecord /\ k.kind = "login" /\ k.from = NoToken
    BY <2>1 DEF NoCall, CallRecord, NoToken, Addresses
  <2>3. Call(c, k)
    BY <1>2 DEF Login
  <2> HIDE DEF k
  <2>4. QED
    BY <2>2, <2>3, CallEffect
<1>3. ASSUME NEW a \in accounts, Logout(c, a)
      PROVE  Fresh(c) /\ call'[c].kind = "logout" /\ call'[c].from = NoToken
  <2> DEFINE k == [NoCall EXCEPT !.kind = "logout", !.id = a.id]
  <2>1. a.id \in Nat
    BY DEF TokenShapes, AccountRow
  <2>2. k \in CallRecord /\ k.kind = "logout" /\ k.from = NoToken
    BY <2>1 DEF NoCall, CallRecord, NoToken, Addresses
  <2>3. Call(c, k)
    BY <1>3 DEF Logout
  <2> HIDE DEF k
  <2>4. QED
    BY <2>2, <2>3, CallEffect
<1>4. ASSUME NEW a \in accounts, NEW t \in tokens, Refresh(c, a, t)
      PROVE  /\ Fresh(c) /\ call'[c].kind = "refresh"
             /\ t.id = a.id /\ t.n = a.refresh_token_hash
             /\ call'[c].id = a.id /\ call'[c].from = t.n
  <2> DEFINE k == [NoCall EXCEPT !.kind = "refresh", !.id = a.id, !.from = t.n]
  <2>1. a.id \in Nat /\ t.n \in Nat
    BY DEF TokenShapes, AccountRow, TokenRow
  <2>2. k \in CallRecord /\ k.kind = "refresh" /\ k.from = t.n /\ k.id = a.id
    BY <2>1 DEF NoCall, CallRecord, Addresses
  <2>3. Call(c, k)
    BY <1>4 DEF Refresh
  <2> HIDE DEF k
  <2>4. QED
    BY <1>4, <2>2, <2>3, CallEffect DEF Refresh
<1>5. QED
  BY <1>1, <1>2, <1>3, <1>4

-----------------------------------------------------------------------------
(* A request begins: it has met whoever is running, and what it presents is   *)
(* stored, so nobody has been given a token for it and no logout killed it.   *)

\* The numbers stay unique.
LEMMA StartNumbers ==
  ASSUME TokenShapes, NumbersInv, NEW c \in Clients, Fresh(c),
         call'[c].from # NoToken => HandedOut(call'[c].from, call'[c].id)
  PROVE  NumbersInv'
<1>1. calls' = calls + 1 /\ calls \in Nat /\ tokens' = tokens /\ accounts' = accounts
  BY DEF Fresh, TokenShapes
<1>2. \A d \in Clients : d # c => call'[d] = call[d]
  BY DEF Fresh, Others
<1>3. call'[c].n = calls + 1 /\ ~UnderWay(c)
  BY DEF Fresh, UnderWay
<1>4. \A t \in tokens' : t.n \in 1..calls' /\ (t.from # NoToken => HandedOut(t.from, t.id)')
  BY <1>1 DEF NumbersInv, HandedOut
<1>5. \A t, u \in tokens' : t.n = u.n => t = u
  BY <1>1 DEF NumbersInv
<1>6. \A a \in accounts' : a.id \in 1..calls'
  BY <1>1 DEF NumbersInv
<1>7. \A d \in Clients : call'[d].n \in 0..calls'
  BY <1>1, <1>2, <1>3 DEF NumbersInv
<1>8. ASSUME NEW d \in Clients, UnderWay(d)'
      PROVE  /\ call'[d].n \in 1..calls'
             /\ \A t \in tokens' : t.n # call'[d].n
             /\ \A a \in accounts' : a.id # call'[d].n
             /\ call'[d].from # NoToken => HandedOut(call[d].from, call[d].id)'
  <2>1. CASE d = c
    BY <1>1, <1>3, <2>1 DEF NumbersInv, HandedOut
  <2>2. CASE d # c
    <3>1. call'[d] = call[d] /\ UnderWay(d)
      BY <1>2, <1>8, <2>2 DEF UnderWay
    <3>2. QED
      BY <1>1, <3>1 DEF NumbersInv, HandedOut
  <2>3. QED
    BY <2>1, <2>2
<1>9. ASSUME NEW d \in Clients, NEW e \in Clients, UnderWay(d)', UnderWay(e)', d # e
      PROVE  call'[d].n # call'[e].n /\ {call'[d].n, call'[e].n} \in met'
  <2>1. \A f \in Clients : (f # c /\ UnderWay(f)') =>
          call'[f].n \in 1..calls /\ {calls + 1, call'[f].n} \in met'
    BY <1>2 DEF NumbersInv, UnderWay, InFlight, Fresh
  <2>2. CASE d = c
    BY <1>1, <1>3, <1>9, <2>1, <2>2
  <2>3. CASE e = c
    <3>1. {call'[d].n, call'[e].n} = {calls + 1, call'[d].n}
      BY <1>3, <2>3
    <3>2. QED
      BY <1>1, <1>3, <1>9, <2>1, <2>3, <3>1
  <2>4. CASE d # c /\ e # c
    <3>1. call'[d] = call[d] /\ call'[e] = call[e] /\ UnderWay(d) /\ UnderWay(e) /\ met \subseteq met'
      BY <1>2, <1>9, <2>4 DEF UnderWay, Fresh
    <3>2. QED
      BY <1>9, <3>1 DEF NumbersInv
  <2>5. QED
    BY <2>2, <2>3, <2>4
<1>10. QED
  BY <1>4, <1>5, <1>6, <1>7, <1>8, <1>9 DEF NumbersInv

\* The invariant, when a request begins.
LEMMA CallBegins ==
  ASSUME TokensInv, NEW c \in Clients,
         \/ \E e \in Emails : Register(c, e)
         \/ \E a \in accounts : Login(c, a) \/ Logout(c, a) \/ \E t \in tokens : Refresh(c, a, t)
  PROVE  TokensInv'
<1>1. Fresh(c) /\ (call'[c].kind = "register" => call'[c].email \in Emails)
  BY StartEffect DEF TokensInv
<1>2. call'[c].from # NoToken =>
        \E a \in accounts, t \in tokens :
          /\ t.id = a.id /\ t.n = a.refresh_token_hash
          /\ call'[c].id = a.id /\ call'[c].from = t.n
  BY StartEffect DEF TokensInv
<1>3. \A d \in Clients : d # c => call'[d] = call[d]
  BY <1>1 DEF Fresh, Others
<1>4. tokens' = tokens /\ accounts' = accounts /\ logouts' = logouts /\ met \subseteq met'
  BY <1>1 DEF Fresh
<1>5. TokenShapes'
  BY <1>1 DEF TokensInv, TokenShapes, Fresh
<1>6. NumbersInv'
  BY <1>1, <1>2, StartNumbers DEF TokensInv, HandedOut
<1>7. AccountsInv'
  <2>1. ~Committed(c, {"register"})'
    BY <1>1 DEF Fresh, Committed
  <2>2. \A d \in Clients : Committed(d, {"register"})' => d # c /\ Committed(d, {"register"})
    BY <1>3, <2>1 DEF Committed
  <2>3. QED
    BY <1>1, <1>3, <1>4, <2>2 DEF TokensInv, AccountsInv, UnderWay, HandedOut
<1>8. RotationInv'
  <2>1. ASSUME NEW d \in Clients, NEW t \in tokens', UnderWay(d)', call'[d].from # NoToken,
               t.from = call'[d].from
        PROVE  {t.n, call'[d].n} \in met'
    <3>1. CASE d # c
      BY <1>3, <1>4, <2>1, <3>1 DEF TokensInv, RotationInv, UnderWay
    <3>2. CASE d = c
      BY <1>2, <1>4, <2>1, <3>2 DEF TokensInv, RotationInv
    <3>3. QED
      BY <3>1, <3>2
  <2>2. RotationNeedsOverlap'
    BY <1>4 DEF TokensInv, RotationInv, RotationNeedsOverlap
  <2>3. QED
    BY <1>4, <2>1, <2>2 DEF TokensInv, RotationInv
<1>9. LogoutInv'
  <2>1. ASSUME NEW d \in Clients, NEW l \in logouts', UnderWay(d)', call'[d].from \in l.killed
        PROVE  {call'[d].n, l.n} \in met'
    <3>1. CASE d # c
      BY <1>3, <1>4, <2>1, <3>1 DEF TokensInv, LogoutInv, UnderWay
    <3>2. CASE d = c
      <4>1. PICK t \in tokens : t.n = call'[d].from
        BY <1>4, <2>1 DEF TokensInv, LogoutInv
      <4>2. call'[d].from # NoToken
        BY <4>1 DEF TokensInv, NumbersInv, NoToken, TokenShapes
      <4>3. QED
        BY <1>2, <1>4, <2>1, <3>2, <4>2 DEF TokensInv, LogoutInv
    <3>3. QED
      BY <3>1, <3>2
  <2>2. LogoutHolds'
    BY <1>4 DEF TokensInv, LogoutInv, LogoutHolds
  <2>3. QED
    BY <1>4, <2>1, <2>2 DEF TokensInv, LogoutInv
<1>10. QED
  BY <1>5, <1>6, <1>7, <1>8, <1>9 DEF TokensInv

-----------------------------------------------------------------------------
(* A request goes on or ends.                                               *)

Ends(c) == UnderWay(c) /\ ~UnderWay(c)'

\* What stays true of the numbers, whatever the request commits under its own.
LEMMA GoesNumbers ==
  ASSUME TokenShapes, NumbersInv, NEW c \in Clients, Same(c), UNCHANGED <<calls, met>>,
         tokens \subseteq tokens',
         \A t \in tokens' : t \in tokens \/
           (Ends(c) /\ t.n = call[c].n /\ t.id = call[c].id /\ t.from = call[c].from),
         \A t, u \in tokens' : (t \notin tokens /\ u \notin tokens) => t = u,
         \A a \in accounts' : (\E b \in accounts : b.id = a.id) \/ (Ends(c) /\ a.id = call[c].n)
  PROVE  NumbersInv'
<1>1. \A d \in Clients : d # c => call'[d] = call[d]
  BY DEF Same, Others
<1>2. \A n, id : HandedOut(n, id) => HandedOut(n, id)'
  BY DEF HandedOut
<1>3. \A d \in Clients : UnderWay(d)' =>
        UnderWay(d) /\ call'[d].n = call[d].n /\ call'[d].from = call[d].from /\ call'[d].id = call[d].id
        /\ (Ends(c) => d # c)
  BY <1>1 DEF Same, UnderWay, Ends
<1>4. ASSUME NEW t \in tokens'
      PROVE  t.n \in 1..calls' /\ (t.from # NoToken => HandedOut(t.from, t.id)')
  <2>1. t.n \in 1..calls /\ (t.from # NoToken => HandedOut(t.from, t.id))
    BY DEF NumbersInv, Ends
  <2>2. QED
    BY <1>2, <2>1
<1>5. ASSUME NEW t \in tokens', NEW u \in tokens', t.n = u.n PROVE t = u
  BY <1>5 DEF NumbersInv, Ends
<1>6. \A a \in accounts' : a.id \in 1..calls'
  BY DEF NumbersInv, Ends
<1>7. \A d \in Clients : call'[d].n \in 0..calls'
  BY <1>1 DEF NumbersInv, Same, TokenShapes
<1>8. ASSUME NEW d \in Clients, UnderWay(d)'
      PROVE  /\ call'[d].n \in 1..calls'
             /\ \A t \in tokens' : t.n # call'[d].n
             /\ \A a \in accounts' : a.id # call'[d].n
             /\ call'[d].from # NoToken => HandedOut(call[d].from, call[d].id)'
  <2>1. /\ UnderWay(d) /\ call'[d].n = call[d].n /\ call'[d].from = call[d].from
        /\ call'[d].id = call[d].id /\ (Ends(c) => d # c)
    BY <1>3, <1>8
  <2>2. call[d].n \in 1..calls /\ (Ends(c) => call[d].n # call[c].n)
    BY <2>1 DEF NumbersInv, Ends
  <2>3. \A t \in tokens' : t.n # call[d].n
    BY <2>1, <2>2 DEF NumbersInv
  <2>4. \A a \in accounts' : a.id # call[d].n
    BY <2>1, <2>2 DEF NumbersInv
  <2>5. call[d].from # NoToken => HandedOut(call[d].from, call[d].id)
    BY <2>1 DEF NumbersInv
  <2>6. call'[d].from # NoToken => HandedOut(call[d].from, call[d].id)'
    BY <2>1, <2>5 DEF HandedOut
  <2>7. QED
    BY <2>1, <2>2, <2>3, <2>4, <2>6
<1>9. \A d, e \in Clients : (UnderWay(d)' /\ UnderWay(e)' /\ d # e) =>
        call'[d].n # call'[e].n /\ {call'[d].n, call'[e].n} \in met'
  BY <1>3 DEF NumbersInv
<1>10. QED
  BY <1>4, <1>5, <1>6, <1>7, <1>8, <1>9 DEF NumbersInv

\* Without new tokens, rotation is kept as long as no hash appears.
LEMMA NoNewTokens ==
  ASSUME TokensInv, NEW c \in Clients, Same(c), UNCHANGED <<tokens, met>>,
         \A a \in accounts' : a.refresh_token_hash = NoToken
           \/ \E b \in accounts : b.refresh_token_hash = a.refresh_token_hash
  PROVE  RotationInv'
<1>1. \A d \in Clients : UnderWay(d)' =>
        UnderWay(d) /\ call'[d].n = call[d].n /\ call'[d].from = call[d].from
  BY DEF Same, Others, UnderWay
<1>2. \A t \in tokens', a \in accounts' : a.refresh_token_hash # NoToken => t.from # a.refresh_token_hash
  BY DEF TokensInv, RotationInv
<1>3. \A d \in Clients, t \in tokens' :
        (UnderWay(d)' /\ call'[d].from # NoToken /\ t.from = call'[d].from) => {t.n, call'[d].n} \in met'
  BY <1>1 DEF TokensInv, RotationInv
<1>4. RotationNeedsOverlap'
  BY DEF TokensInv, RotationInv, RotationNeedsOverlap
<1>5. QED
  BY <1>2, <1>3, <1>4 DEF RotationInv

\* Without new tokens and logouts, logouts keep holding as long as no hash appears.
LEMMA NoNewLogouts ==
  ASSUME TokensInv, NEW c \in Clients, Same(c), UNCHANGED <<tokens, logouts, met>>,
         \A a \in accounts' : a.refresh_token_hash = NoToken
           \/ \E b \in accounts : b.refresh_token_hash = a.refresh_token_hash
  PROVE  LogoutInv'
<1>1. \A d \in Clients : UnderWay(d)' =>
        UnderWay(d) /\ call'[d].n = call[d].n /\ call'[d].from = call[d].from
  BY DEF Same, Others, UnderWay
<1>2. \A l \in logouts : NoToken \notin l.killed
  BY DEF TokensInv, LogoutInv, NumbersInv, NoToken, TokenShapes
<1>3. \A l \in logouts', a \in accounts' : a.refresh_token_hash \notin l.killed
  BY <1>2 DEF TokensInv, LogoutInv
<1>4. \A d \in Clients, l \in logouts' :
        (UnderWay(d)' /\ call'[d].from \in l.killed) => {call'[d].n, l.n} \in met'
  BY <1>1 DEF TokensInv, LogoutInv
<1>5. LogoutHolds'
  BY DEF TokensInv, LogoutInv, LogoutHolds
<1>6. QED
  BY <1>3, <1>4, <1>5 DEF TokensInv, LogoutInv

\* A registration that is about to commit has its address to itself.
Alone(c) ==
  Committed(c, {"register"})' =>
    /\ \A a \in accounts : a.email # call[c].email
    /\ \A d \in Clients : (Committed(d, {"register"}) /\ c # d) => call[c].email # call[d].email

\* Steps that commit nothing.
LEMMA QuietKeeps ==
  ASSUME TokensInv, NEW c \in Clients, Same(c), Alone(c),
         UNCHANGED <<accounts, tokens, calls, logouts, met>>
  PROVE  TokensInv'
<1>1. TokenShapes'
  BY DEF TokensInv, TokenShapes, Same
<1>2. NumbersInv'
  BY GoesNumbers DEF TokensInv
<1>3. AccountsInv'
  <2>1. \A d \in Clients : Committed(d, {"register"})' =>
          call'[d].email = call[d].email /\ (d # c => Committed(d, {"register"}))
    BY DEF Same, Others, Committed
  <2>2. \A d \in Clients : UnderWay(d)' =>
          UnderWay(d) /\ call'[d].email = call[d].email /\ call'[d].kind = call[d].kind
    BY DEF Same, Others, UnderWay
  <2>3. \A d \in Clients : Committed(d, {"register"})' =>
          /\ \A a \in accounts : a.email # call[d].email
          /\ \A e \in Clients : (Committed(e, {"register"})' /\ d # e) => call[d].email # call[e].email
    <3> SUFFICES ASSUME NEW d \in Clients, Committed(d, {"register"})'
                 PROVE  /\ \A a \in accounts : a.email # call[d].email
                        /\ \A e \in Clients : (Committed(e, {"register"})' /\ d # e)
                                              => call[d].email # call[e].email
      OBVIOUS
    <3>1. CASE d = c
      BY <2>1, <3>1 DEF Alone
    <3>2. CASE d # c
      BY <2>1, <3>2 DEF Alone, TokensInv, AccountsInv
    <3>3. QED
      BY <3>1, <3>2
  <2>4. QED
    BY <2>1, <2>2, <2>3 DEF TokensInv, AccountsInv, HandedOut
<1>4. RotationInv'
  BY NoNewTokens
<1>5. LogoutInv'
  BY NoNewLogouts
<1>6. QED
  BY <1>1, <1>2, <1>3, <1>4, <1>5 DEF TokensInv

-----------------------------------------------------------------------------
(* Commits.                                                                 *)

\* The accounts after a hash was stored.
LEMMA StoreHashFacts ==
  ASSUME TokenShapes, NEW id \in Nat, NEW n \in Nat
  PROVE  /\ StoreHash(id, n) \subseteq AccountRow
         /\ \A a \in StoreHash(id, n) : \E b \in accounts :
              /\ b.id = a.id /\ b.email = a.email
              /\ a.id = id => a.refresh_token_hash = n
              /\ a.id # id => a = b
<1> SUFFICES ASSUME NEW a \in StoreHash(id, n)
             PROVE  a \in AccountRow /\ \E b \in accounts :
                      /\ b.id = a.id /\ b.email = a.email
                      /\ a.id = id => a.refresh_token_hash = n
                      /\ a.id # id => a = b
  OBVIOUS
<1>1. PICK b \in accounts : a = IF b.id = id THEN [b EXCEPT !.refresh_token_hash = n] ELSE b
  BY DEF StoreHash
<1>2. b \in AccountRow
  BY DEF TokenShapes
<1>3. QED
  BY <1>1, <1>2 DEF AccountRow

\* Storing a hash keeps accounts apart.
LEMMA StoreHashUnique ==
  ASSUME TokenShapes, AccountsInv, NEW id \in Nat, NEW n \in Nat
  PROVE  \A a, b \in StoreHash(id, n) : (a.id = b.id \/ a.email = b.email) => a = b
<1> SUFFICES ASSUME NEW a \in StoreHash(id, n), NEW b \in StoreHash(id, n),
                    a.id = b.id \/ a.email = b.email
             PROVE  a = b
  OBVIOUS
<1>1. PICK p \in accounts : a = IF p.id = id THEN [p EXCEPT !.refresh_token_hash = n] ELSE p
  BY DEF StoreHash
<1>2. PICK q \in accounts : b = IF q.id = id THEN [q EXCEPT !.refresh_token_hash = n] ELSE q
  BY DEF StoreHash
<1>3. p \in AccountRow /\ q \in AccountRow
  BY DEF TokenShapes
<1>4. a.id = p.id /\ a.email = p.email /\ b.id = q.id /\ b.email = q.email
  BY <1>1, <1>2, <1>3 DEF AccountRow
<1>5. p = q
  BY <1>4 DEF AccountsInv
<1>6. QED
  BY <1>1, <1>2, <1>5

\* What a request has, once it ends.
LEMMA CommitFacts ==
  ASSUME TokenShapes, NEW c \in Clients, NEW kinds, Committed(c, kinds), Answer(c)
  PROVE  /\ Same(c) /\ Ends(c)
         /\ call[c].n \in Nat /\ call[c].id \in Nat /\ call[c].from \in Nat
         /\ call[c] \in CallRecord
<1>1. Same(c) /\ call'[c].pc = "idle"
  BY AnswerEffect
<1>2. call[c] \in CallRecord
  BY DEF TokenShapes
<1>3. QED
  BY <1>1, <1>2 DEF Ends, UnderWay, Committed, CallRecord

\* A registration commits an account without a token.
LEMMA RegisterKeeps ==
  ASSUME TokensInv, NEW c \in Clients, CommitRegister(c)
  PROVE  TokensInv'
<1> DEFINE new == [id |-> call[c].n, email |-> call[c].email, refresh_token_hash |-> NoToken]
<1>1. /\ Committed(c, {"register"}) /\ Answer(c) /\ accounts' = accounts \cup {new}
      /\ UNCHANGED <<tokens, calls, logouts, met>>
  BY DEF CommitRegister
<1>2. Same(c) /\ Ends(c) /\ call[c].n \in Nat
  BY <1>1, CommitFacts DEF TokensInv
<1>3. call[c].email \in Emails
  BY <1>1 DEF TokensInv, AccountsInv, Committed, UnderWay
<1>4. new \in AccountRow
  BY <1>2, <1>3 DEF AccountRow, NoToken
<1>5. new.id = call[c].n /\ new.email = call[c].email /\ new.refresh_token_hash = NoToken
  OBVIOUS
<1> HIDE DEF new
<1>6. TokenShapes'
  BY <1>1, <1>2, <1>4 DEF TokensInv, TokenShapes, Same
<1>7. NumbersInv'
  BY <1>1, <1>2, <1>5, GoesNumbers DEF TokensInv
<1>8. AccountsInv'
  <2>1. \A a \in accounts : a.id # new.id /\ a.email # new.email
    BY <1>1, <1>2, <1>5 DEF TokensInv, NumbersInv, AccountsInv, Ends
  <2>2. \A a, b \in accounts' : (a.id = b.id \/ a.email = b.email) => a = b
    BY <1>1, <2>1 DEF TokensInv, AccountsInv
  <2>3. \A a \in accounts' : a.refresh_token_hash # NoToken => HandedOut(a.refresh_token_hash, a.id)'
    BY <1>1, <1>5 DEF TokensInv, AccountsInv, HandedOut
  <2>4. \A d \in Clients : UnderWay(d)' => d # c /\ UnderWay(d) /\ call'[d] = call[d]
    BY <1>2 DEF Same, Others, UnderWay, Ends
  <2>5. \A d \in Clients : Committed(d, {"register"})' => d # c /\ Committed(d, {"register"})
    BY <2>4 DEF Committed, UnderWay
  <2>6. \A d \in Clients : Committed(d, {"register"})' => \A a \in accounts' : a.email # call'[d].email
    BY <1>1, <1>5, <2>4, <2>5 DEF TokensInv, AccountsInv, Committed, UnderWay
  <2>7. \A d, e \in Clients : (Committed(d, {"register"})' /\ Committed(e, {"register"})' /\ d # e) =>
          call'[d].email # call'[e].email
    BY <2>4, <2>5 DEF TokensInv, AccountsInv, Committed, UnderWay
  <2>8. \A d \in Clients : (UnderWay(d)' /\ call'[d].kind = "register") => call'[d].email \in Emails
    BY <2>4 DEF TokensInv, AccountsInv
  <2>9. QED
    BY <2>2, <2>3, <2>6, <2>7, <2>8 DEF AccountsInv
<1>9. RotationInv'
  BY <1>1, <1>2, <1>5, NoNewTokens
<1>10. LogoutInv'
  BY <1>1, <1>2, <1>5, NoNewLogouts
<1>11. QED
  BY <1>6, <1>7, <1>8, <1>9, <1>10 DEF TokensInv

\* A commit that stores a hash keeps the rows, if the hash is of a token of the
\* account.
LEMMA StoreRows ==
  ASSUME TokensInv, NEW c \in Clients, Same(c), Ends(c), NEW n \in Nat,
         call[c].id \in Nat, accounts' = StoreHash(call[c].id, n), tokens \subseteq tokens',
         n # NoToken => \E t \in tokens' : t.n = n /\ t.id = call[c].id
  PROVE  AccountsInv'
<1>1. \A a \in accounts' : \E b \in accounts :
        /\ b.id = a.id /\ b.email = a.email
        /\ a.id = call[c].id => a.refresh_token_hash = n
        /\ a.id # call[c].id => a = b
  BY StoreHashFacts DEF TokensInv
<1>2. \A a, b \in accounts' : (a.id = b.id \/ a.email = b.email) => a = b
  BY StoreHashUnique DEF TokensInv
<1>3. ASSUME NEW a \in accounts', a.refresh_token_hash # NoToken
      PROVE  HandedOut(a.refresh_token_hash, a.id)'
  <2>1. CASE a.id = call[c].id
    BY <1>1, <1>3, <2>1 DEF HandedOut
  <2>2. CASE a.id # call[c].id
    <3>1. HandedOut(a.refresh_token_hash, a.id)
      BY <1>1, <1>3, <2>2 DEF TokensInv, AccountsInv
    <3>2. QED
      BY <3>1 DEF HandedOut
  <2>3. QED
    BY <2>1, <2>2
<1>4. \A d \in Clients : UnderWay(d)' => d # c /\ UnderWay(d) /\ call'[d] = call[d]
  BY DEF Same, Others, UnderWay, Ends
<1>5. \A d \in Clients : Committed(d, {"register"})' => d # c /\ Committed(d, {"register"})
  BY <1>4 DEF Committed, UnderWay
<1>6. \A d \in Clients : Committed(d, {"register"})' => \A a \in accounts' : a.email # call'[d].email
  BY <1>1, <1>4, <1>5 DEF TokensInv, AccountsInv, Committed, UnderWay
<1>7. \A d, e \in Clients : (Committed(d, {"register"})' /\ Committed(e, {"register"})' /\ d # e) =>
        call'[d].email # call'[e].email
  BY <1>4, <1>5 DEF TokensInv, AccountsInv, Committed, UnderWay
<1>8. \A d \in Clients : (UnderWay(d)' /\ call'[d].kind = "register") => call'[d].email \in Emails
  BY <1>4 DEF TokensInv, AccountsInv
<1>9. QED
  BY <1>2, <1>3, <1>6, <1>7, <1>8 DEF AccountsInv

\* A login or a refresh hands out its token and stores it.
LEMMA TokensKeep ==
  ASSUME TokensInv, NEW c \in Clients, CommitTokens(c)
  PROVE  TokensInv'
<1> DEFINE new == [n |-> call[c].n, id |-> call[c].id, from |-> call[c].from]
<1>1. /\ Committed(c, {"login", "refresh"}) /\ Answer(c)
      /\ accounts' = StoreHash(call[c].id, call[c].n) /\ tokens' = tokens \cup {new}
      /\ UNCHANGED <<calls, logouts, met>>
  BY DEF CommitTokens
<1>2. Same(c) /\ Ends(c) /\ call[c].n \in Nat /\ call[c].id \in Nat /\ call[c].from \in Nat
  BY <1>1, CommitFacts DEF TokensInv
<1>3. new \in TokenRow /\ new.n = call[c].n /\ new.id = call[c].id /\ new.from = call[c].from
  BY <1>2 DEF TokenRow
<1> HIDE DEF new
<1>4. /\ accounts' \subseteq AccountRow
      /\ \A a \in accounts' : \E b \in accounts :
           /\ b.id = a.id
           /\ a.id = call[c].id => a.refresh_token_hash = call[c].n
           /\ a.id # call[c].id => a = b
  BY <1>1, <1>2, StoreHashFacts DEF TokensInv
<1>5. TokenShapes'
  BY <1>1, <1>2, <1>3, <1>4 DEF TokensInv, TokenShapes, Same
<1>6. NumbersInv'
  BY <1>1, <1>2, <1>3, <1>4, GoesNumbers DEF TokensInv
<1>7. AccountsInv'
  <2>1. tokens \subseteq tokens' /\ \E t \in tokens' : t.n = call[c].n /\ t.id = call[c].id
    BY <1>1, <1>3
  <2>2. QED
    BY <1>1, <1>2, <2>1, StoreRows
<1>8. \A d \in Clients : UnderWay(d)' => d # c /\ UnderWay(d) /\ call'[d] = call[d]
  BY <1>2 DEF Same, Others, UnderWay, Ends
<1>9. \A d \in Clients : UnderWay(d)' => {call[c].n, call[d].n} \in met
  BY <1>2, <1>8 DEF TokensInv, NumbersInv, Ends
<1>10. call[c].n # NoToken /\ (\A t \in tokens : t.n # call[c].n)
  BY <1>2 DEF TokensInv, NumbersInv, Ends, NoToken
<1>11. \A t \in tokens' : t.from # call[c].n
  BY <1>1, <1>2, <1>3, <1>10 DEF TokensInv, NumbersInv, Ends, HandedOut
<1>12. RotationInv'
  <2>1. ASSUME NEW t \in tokens', NEW a \in accounts', a.refresh_token_hash # NoToken
        PROVE  t.from # a.refresh_token_hash
    <3>1. CASE a.id = call[c].id
      BY <1>4, <1>11, <3>1
    <3>2. CASE a.id # call[c].id
      <4>1. a \in accounts /\ HandedOut(a.refresh_token_hash, a.id)
        BY <1>4, <2>1, <3>2 DEF TokensInv, AccountsInv
      <4>2. call[c].from # NoToken => HandedOut(call[c].from, call[c].id)
        BY <1>2 DEF TokensInv, NumbersInv, Ends
      <4>3. call[c].from # a.refresh_token_hash
        BY <2>1, <3>2, <4>1, <4>2 DEF TokensInv, NumbersInv, HandedOut
      <4>4. QED
        BY <1>1, <1>3, <2>1, <4>1, <4>3 DEF TokensInv, RotationInv
    <3>3. QED
      BY <3>1, <3>2
  <2>2. ASSUME NEW d \in Clients, NEW t \in tokens', UnderWay(d)', call'[d].from # NoToken,
               t.from = call'[d].from
        PROVE  {t.n, call'[d].n} \in met'
    <3>1. CASE t \in tokens
      BY <1>1, <1>8, <2>2, <3>1 DEF TokensInv, RotationInv
    <3>2. CASE t = new
      BY <1>1, <1>3, <1>8, <1>9, <2>2, <3>2
    <3>3. QED
      BY <1>1, <3>1, <3>2
  <2>3. RotationNeedsOverlap'
    <3> SUFFICES ASSUME NEW t \in tokens', NEW u \in tokens', t.from = u.from, t.from # NoToken
                 PROVE  t = u \/ {t.n, u.n} \in met'
      BY DEF RotationNeedsOverlap
    <3>1. \A x \in tokens : (x.from = new.from /\ x.from # NoToken) => {x.n, new.n} \in met
      BY <1>2, <1>3 DEF TokensInv, RotationInv, Ends
    <3>2. CASE t \in tokens /\ u \in tokens
      BY <1>1, <3>2 DEF TokensInv, RotationInv, RotationNeedsOverlap
    <3>3. CASE t \in tokens /\ u = new
      BY <1>1, <3>1, <3>3
    <3>4. CASE t = new /\ u \in tokens
      <4>1. {t.n, u.n} = {u.n, t.n}
        OBVIOUS
      <4>2. QED
        BY <1>1, <3>1, <3>4, <4>1
    <3>5. QED
      BY <1>1, <3>2, <3>3, <3>4
  <2>4. QED
    BY <2>1, <2>2, <2>3 DEF RotationInv
<1>13. LogoutInv'
  <2>1. \A l \in logouts' : \A k \in l.killed : \E t \in tokens' : t.n = k
    BY <1>1 DEF TokensInv, LogoutInv
  <2>2. \A l \in logouts', a \in accounts' : a.refresh_token_hash \notin l.killed
    BY <1>1, <1>4, <1>10 DEF TokensInv, LogoutInv
  <2>3. \A d \in Clients, l \in logouts' :
          (UnderWay(d)' /\ call'[d].from \in l.killed) => {call'[d].n, l.n} \in met'
    BY <1>1, <1>8 DEF TokensInv, LogoutInv
  <2>4. LogoutHolds'
    BY <1>1, <1>2, <1>3 DEF TokensInv, LogoutInv, LogoutHolds, Ends
  <2>5. QED
    BY <2>1, <2>2, <2>3, <2>4 DEF LogoutInv
<1>14. QED
  BY <1>5, <1>6, <1>7, <1>12, <1>13 DEF TokensInv

\* A logout kills the tokens of its account.
LEMMA LogoutKeeps ==
  ASSUME TokensInv, NEW c \in Clients, CommitLogout(c)
  PROVE  TokensInv'
<1> DEFINE killed == {t.n : t \in {u \in tokens : u.id = call[c].id}}
           new == [n |-> call[c].n, killed |-> killed]
<1>1. /\ Committed(c, {"logout"}) /\ Answer(c)
      /\ accounts' = StoreHash(call[c].id, NoToken) /\ logouts' = logouts \cup {new}
      /\ UNCHANGED <<tokens, calls, met>>
  BY DEF CommitLogout
<1>2. Same(c) /\ Ends(c) /\ call[c].n \in Nat /\ call[c].id \in Nat
  BY <1>1, CommitFacts DEF TokensInv
<1>3. killed \subseteq Nat
  BY DEF TokensInv, TokenShapes, TokenRow
<1>4. \A k : k \in killed <=> \E t \in tokens : t.n = k /\ t.id = call[c].id
  OBVIOUS
<1> HIDE DEF killed
<1>5. new \in LogoutRow /\ new.n = call[c].n /\ new.killed = killed
  BY <1>2, <1>3 DEF LogoutRow
<1> HIDE DEF new
<1>6. NoToken \in Nat
  BY DEF NoToken
<1>7. /\ accounts' \subseteq AccountRow
      /\ \A a \in accounts' : \E b \in accounts :
           /\ b.id = a.id
           /\ a.id = call[c].id => a.refresh_token_hash = NoToken
           /\ a.id # call[c].id => a = b
  BY <1>1, <1>2, <1>6, StoreHashFacts DEF TokensInv
<1>8. TokenShapes'
  BY <1>1, <1>2, <1>5, <1>7 DEF TokensInv, TokenShapes, Same
<1>9. NumbersInv'
  BY <1>1, <1>2, <1>7, GoesNumbers DEF TokensInv
<1>10. AccountsInv'
  BY <1>1, <1>2, <1>6, StoreRows
<1>11. RotationInv'
  BY <1>1, <1>2, <1>7, NoNewTokens
<1>12. LogoutInv'
  <2>1. \A d \in Clients : UnderWay(d)' => d # c /\ UnderWay(d) /\ call'[d] = call[d]
    BY <1>2 DEF Same, Others, UnderWay, Ends
  <2>2. \A l \in logouts' : \A k \in l.killed : \E t \in tokens' : t.n = k
    BY <1>1, <1>4, <1>5 DEF TokensInv, LogoutInv
  <2>3. ASSUME NEW l \in logouts', NEW a \in accounts' PROVE a.refresh_token_hash \notin l.killed
    <3>1. CASE a.id = call[c].id
      <4>1. a.refresh_token_hash = 0 /\ \A t \in tokens' : t.n # 0
        BY <1>1, <1>7, <3>1 DEF TokensInv, NumbersInv, NoToken
      <4>2. QED
        BY <2>2, <4>1
    <3>2. CASE a.id # call[c].id
      <4>1. a \in accounts
        BY <1>7, <3>2
      <4>2. a.refresh_token_hash \notin killed
        BY <1>4, <3>2, <4>1 DEF TokensInv, AccountsInv, NumbersInv, HandedOut, NoToken
      <4>3. QED
        BY <1>1, <1>5, <4>1, <4>2 DEF TokensInv, LogoutInv
    <3>3. QED
      BY <3>1, <3>2
  <2>4. ASSUME NEW d \in Clients, NEW l \in logouts', UnderWay(d)', call'[d].from \in l.killed
        PROVE  {call'[d].n, l.n} \in met'
    <3>1. CASE l \in logouts
      BY <1>1, <2>1, <2>4, <3>1 DEF TokensInv, LogoutInv
    <3>2. CASE l = new
      BY <1>1, <1>2, <1>5, <2>1, <2>4, <3>2 DEF TokensInv, NumbersInv, Ends
    <3>3. QED
      BY <1>1, <3>1, <3>2
  <2>5. LogoutHolds'
    <3> SUFFICES ASSUME NEW t \in tokens', NEW l \in logouts', t.from \in l.killed, t.n \notin l.killed
                 PROVE  {t.n, l.n} \in met'
      BY DEF LogoutHolds
    <3>1. CASE l \in logouts
      BY <1>1, <3>1 DEF TokensInv, LogoutInv, LogoutHolds
    <3>2. CASE l = new
      <4>1. t \in tokens /\ t.from \in killed /\ t.n \notin killed
        BY <1>1, <1>5, <3>2
      <4>2. PICK u \in tokens : u.n = t.from /\ u.id = call[c].id
        BY <1>4, <4>1
      <4>3. HandedOut(t.from, t.id)
        BY <4>1, <4>2 DEF TokensInv, NumbersInv, NoToken
      <4>4. t.id = call[c].id
        BY <4>2, <4>3 DEF TokensInv, NumbersInv, HandedOut
      <4>5. QED
        BY <1>4, <4>1, <4>4
    <3>3. QED
      BY <1>1, <3>1, <3>2
  <2>6. QED
    BY <2>2, <2>3, <2>4, <2>5 DEF LogoutInv
<1>13. QED
  BY <1>8, <1>9, <1>10, <1>11, <1>12 DEF TokensInv

-----------------------------------------------------------------------------
(* Theorems.                                                                *)

\* No request, whatever it overlaps with, breaks the invariant.
LEMMA TokensInductive == TokensInv /\ [TokensNext]_tokenVars => TokensInv'
<1> SUFFICES ASSUME TokensInv, [TokensNext]_tokenVars PROVE TokensInv'
  OBVIOUS
<1>1. ASSUME NEW c \in Clients, CallStep(c) PROVE TokensInv'
  <2>1. CASE \/ \E e \in Emails : Register(c, e)
             \/ \E a \in accounts :
                  Login(c, a) \/ Logout(c, a) \/ \E t \in tokens : Refresh(c, a, t)
    BY <2>1, CallBegins
  <2>2. CASE Flush(c)
    <3>1. /\ call[c].pc = "flush" /\ call[c].kind # "register"
          /\ call' = [call EXCEPT ![c].pc = "commit"]
          /\ UNCHANGED <<accounts, tokens, calls, logouts, met>>
      BY <2>2 DEF Flush
    <3>2. Same(c)
      BY <3>1, FlushEffect DEF TokensInv
    <3>3. Alone(c)
      BY <3>1, <3>2 DEF Alone, Same, Committed
    <3>4. QED
      BY <3>1, <3>2, <3>3, QuietKeeps
  <2>3. CASE Insert(c) /\ Answer(c)
    <3>1. Same(c) /\ call'[c].pc = "idle"
      BY <2>3, AnswerEffect DEF TokensInv
    <3>2. Alone(c)
      BY <3>1 DEF Alone, Committed
    <3>3. QED
      BY <2>3, <3>1, <3>2, QuietKeeps DEF Insert
  <2>4. CASE Insert(c) /\ ~Answer(c)
    <3>1. /\ call[c].pc = "flush" /\ EmailHolders(c) = {}
          /\ \A a \in accounts : a.email # call[c].email
          /\ call' = [call EXCEPT ![c].pc = "commit"]
          /\ UNCHANGED <<accounts, tokens, calls, logouts, met>>
      BY <2>4 DEF Insert
    <3>2. Same(c)
      BY <3>1, FlushEffect DEF TokensInv
    <3>3. Alone(c)
      BY <3>1 DEF Alone, Committed, EmailHolders
    <3>4. QED
      BY <3>1, <3>2, <3>3, QuietKeeps
  <2>5. CASE CommitRegister(c)
    BY <2>5, RegisterKeeps
  <2>6. CASE CommitTokens(c)
    BY <2>6, TokensKeep
  <2>7. CASE CommitLogout(c)
    BY <2>7, LogoutKeeps
  <2>8. CASE FailCall(c)
    <3>1. Same(c) /\ call'[c].pc = "idle"
      BY <2>8, AnswerEffect DEF TokensInv, FailCall
    <3>2. Alone(c)
      BY <3>1 DEF Alone, Committed
    <3>3. QED
      BY <2>8, <3>1, <3>2, QuietKeeps DEF FailCall
  <2>9. QED
    BY <1>1, <2>1, <2>2, <2>3, <2>4, <2>5, <2>6, <2>7, <2>8 DEF CallStep
<1>2. CASE UNCHANGED tokenVars
  BY <1>2 DEF tokenVars, TokensInv, TokenShapes, NumbersInv, AccountsInv, RotationInv, LogoutInv,
       UnderWay, Committed, HandedOut, RotationNeedsOverlap, LogoutHolds
<1>3. QED
  BY <1>1, <1>2 DEF TokensNext

\* There are no accounts at first.
LEMMA TokensInitially == TokensInit => TokensInv
<1> SUFFICES ASSUME TokensInit PROVE TokensInv
  OBVIOUS
<1>1. \A c \in Clients : call[c] = NoCall /\ call[c].pc = "idle" /\ call[c].n = 0
  BY DEF TokensInit, NoCall
<1>2. TokenShapes
  BY NoCallShape DEF TokensInit, TokenShapes
<1>3. NumbersInv /\ AccountsInv
  BY <1>1 DEF TokensInit, NumbersInv, AccountsInv, UnderWay, Committed
<1>4. RotationInv /\ LogoutInv
  BY DEF TokensInit, RotationInv, LogoutInv, RotationNeedsOverlap, LogoutHolds
<1>5. QED
  BY <1>2, <1>3, <1>4 DEF TokensInv

\* The invariant holds in every state.
LEMMA TokensInvariant == TokensSpec => []TokensInv
BY TokensInitially, TokensInductive, PTL DEF TokensSpec

\* An address belongs to one account, and what an account stores was handed out
\* for it: the types of accounts, tokens and requests.
THEOREM TokensTypeCorrect == TokensSpec => []TokensTypeOK
<1>1. TokensInv => TokensTypeOK
  <2> SUFFICES ASSUME TokensInv PROVE TokensTypeOK
    OBVIOUS
  <2>1. \A c \in Clients : call[c].pc \in {"idle", "flush", "commit"} /\ call[c].n \in 0..calls
    BY DEF TokensInv, TokenShapes, CallRecord, NumbersInv
  <2>2. ASSUME NEW t \in tokens PROVE t.n \in 1..calls /\ t.from \in 0..calls
    BY DEF TokensInv, NumbersInv, HandedOut, NoToken, TokenShapes
  <2>3. QED
    BY <2>1, <2>2 DEF TokensInv, TokensTypeOK, AccountsInv, HandedOut, TokenShapes
<1>2. QED
  BY <1>1, TokensInvariant, PTL

\* Rotation of refresh_tokens: two tokens for one were given to requests that ran
\* at the same time.
THEOREM RotationHolds == TokensSpec => []RotationNeedsOverlap
<1>1. TokensInv => RotationNeedsOverlap
  BY DEF TokensInv, RotationInv
<1>2. QED
  BY <1>1, TokensInvariant, PTL

\* Revocation by logout_user: only a refresh that ran next to the logout outlives
\* it.
THEOREM LogoutsHold == TokensSpec => []LogoutHolds
<1>1. TokensInv => LogoutHolds
  BY DEF TokensInv, LogoutInv
<1>2. QED
  BY <1>1, TokensInvariant, PTL

-----------------------------------------------------------------------------
(* The control plane as a whole.                                            *)

\* A step of one component is a stuttering step of the others, so a behaviour of
\* the composition is a behaviour of every component.
THEOREM ComponentsRun ==
  ControlSpec =>
    Spec /\ TargetingSpec /\ TenancySpec /\ TokensSpec /\ HealthSpec /\ LocksSpec
<1>1. ControlInit =>
        Init /\ TargetingInit /\ TenancyInit /\ TokensInit /\ HealthInit /\ LocksInit
  BY DEF ControlInit
<1>2. [ControlNext]_controlVars =>
        /\ [Next]_vars /\ [TargetingNext]_targetingVars /\ [TenancyNext]_tenancyVars
        /\ [TokensNext]_tokenVars /\ [HealthNext]_healthVars /\ [LocksNext]_lockVars
  <2>1. ControlNext =>
          /\ [Next]_vars /\ [TargetingNext]_targetingVars /\ [TenancyNext]_tenancyVars
          /\ [TokensNext]_tokenVars /\ [HealthNext]_healthVars /\ [LocksNext]_lockVars
    BY DEF ControlNext
  <2>2. UNCHANGED controlVars =>
          UNCHANGED <<vars, targetingVars, tenancyVars, tokenVars, healthVars, lockVars>>
    BY DEF controlVars
  <2>3. QED
    BY <2>1, <2>2
<1>3. QED
  BY <1>1, <1>2, PTL DEF ControlSpec, Spec, TargetingSpec, TenancySpec, TokensSpec, HealthSpec,
                         LocksSpec

\* Whichever component moves, the types of all of them stay: no row, key, address
\* or membership of one depends on the constants of another.
THEOREM ControlTypesHold == ControlSpec => []ControlTypesOK
<1>1. /\ TypeOK /\ TargetingTypeOK /\ TenancyTypeOK /\ TokensTypeOK /\ HealthTypeOK /\ LocksTypeOK
      => ControlTypesOK
  BY DEF ControlTypesOK
<1>2. QED
  BY <1>1, ComponentsRun, TypeCorrect, TargetingTypeCorrect, TenancyTypeCorrect, TokensTypeCorrect,
     HealthTypeCorrect, LocksTypeCorrect, PTL

\* What the run control_plane checks of its instance holds of the composition for
\* any constants: the rows of an organisation, its rules and segments, sessions,
\* the health of flags, the versions of environments, the review of changes and,
\* if handlers of change requests do not overlap, that none is applied twice.  Besides, every standstill of edits or of
\* version bumps is a deadlock that PostgreSQL breaks.
THEOREM ControlPlaneIsSafe ==
  ControlSpec =>
    /\ [](RulesOfOneRequest /\ SettingsCoherent /\ SettingsComplete)
    /\ [](RotationNeedsOverlap /\ LogoutHolds)
    /\ [](StaleWasRolledOut /\ EveryEnvironmentBumped /\ NoEditStuck /\ NoChangeStuck)
    /\ CyclesNeedOverlap /\ OwnersNeedOverlap /\ ChangesByMembers /\ OnlyAgeing
    /\ [](ReviewedUnlessBornApproved /\ NotBeforeSchedule) /\ KeepsPromise
    /\ OneHandler => []AppliedOnce
<1>1. ControlSpec =>
        /\ [](RulesOfOneRequest /\ SettingsCoherent /\ SettingsComplete)
        /\ [](RotationNeedsOverlap /\ LogoutHolds)
        /\ [](StaleWasRolledOut /\ EveryEnvironmentBumped /\ NoEditStuck /\ NoChangeStuck)
  BY ComponentsRun, ReplacedAsAWhole, SettingsStayCoherent, SettingsStayComplete, RotationHolds,
     LogoutsHold, StaleMeansRolledOut, EveryCommitCounts, NoEditIsStuck, NoChangeIsStuck, PTL
<1>2. ControlSpec => CyclesNeedOverlap /\ OwnersNeedOverlap /\ ChangesByMembers /\ OnlyAgeing
  BY ComponentsRun, CirclesNeedOverlap, LastOwnerStays, ChangesAreByMembers, AgeingOnly
<1>3. ControlSpec => [](ReviewedUnlessBornApproved /\ NotBeforeSchedule) /\ KeepsPromise
  BY ComponentsRun, ReviewedOrBornApproved, SchedulesHold, ImplementsPromise, PTL
<1>4. ASSUME OneHandler PROVE ControlSpec => []AppliedOnce
  <2>1. Spec => []AppliedOnce
    BY <1>4, OneHandlerAppliesOnce
  <2>2. QED
    BY <2>1, ComponentsRun, PTL
<1>5. QED
  BY <1>1, <1>2, <1>3, <1>4
=============================================================================
