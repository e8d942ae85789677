-------------------------- MODULE ControlledChange --------------------------
(***************************************************************************)
(* What the change request workflow promises, without statuses, handlers   *)
(* or the scheduler: a change takes effect not before its scheduled time,  *)
(* and only after an administrator other than its author approved it,      *)
(* unless its author requested it as one that is exempt from the review.   *)
(***************************************************************************)
EXTENDS Integers

CONSTANTS Requests, Users, Admins, Nobody, MaxTime

VARIABLES
  now,          \* the clock
  requestedBy,  \* author of every request, Nobody before it is created
  scheduledAt,  \* earliest time of effect, None if at once
  exempt,       \* the requests that need no review
  approvers,    \* who has approved it
  effects       \* how many times the change took effect

vars == <<now, requestedBy, scheduledAt, exempt, approvers, effects>>

None  == -1
Times == 0..MaxTime

\* Four eyes: an administrator who is not the author.
MayApprove(u, r) == u \in Admins /\ u # requestedBy[r]

Init ==
  /\ now = 0
  /\ requestedBy = [r \in Requests |-> Nobody]
  /\ scheduledAt = [r \in Requests |-> None]
  /\ exempt = {}
  /\ approvers = [r \in Requests |-> {}]
  /\ effects = [r \in Requests |-> 0]

Tick ==
  /\ now < MaxTime
  /\ now' = now + 1
  /\ UNCHANGED <<requestedBy, scheduledAt, exempt, approvers, effects>>

Request(r, u, t) ==
  /\ requestedBy[r] = Nobody
  /\ requestedBy' = [requestedBy EXCEPT ![r] = u]
  /\ scheduledAt' = [scheduledAt EXCEPT ![r] = t]
  /\ exempt' = exempt \/ exempt' = exempt \cup {r}
  /\ UNCHANGED <<now, approvers, effects>>

Approve(r, u) ==
  /\ requestedBy[r] # Nobody
  /\ MayApprove(u, r)
  /\ approvers' = [approvers EXCEPT ![r] = @ \cup {u}]
  /\ UNCHANGED <<now, requestedBy, scheduledAt, exempt, effects>>

\* The change takes effect, possibly in the step that approves it.
Apply(r, by) ==
  /\ requestedBy[r] # Nobody
  /\ \A u \in by : MayApprove(u, r)
  /\ approvers[r] \cup by # {} \/ r \in exempt
  /\ scheduledAt[r] <= now
  /\ approvers' = [approvers EXCEPT ![r] = @ \cup by]
  /\ effects' = [effects EXCEPT ![r] = @ + 1]
  /\ UNCHANGED <<now, requestedBy, scheduledAt, exempt>>

Next ==
  \/ Tick
  \/ \E r \in Requests, u \in Users, t \in Times \cup {None} : Request(r, u, t)
  \/ \E r \in Requests, u \in Users : Approve(r, u)
  \/ \E r \in Requests, by \in SUBSET Users : Apply(r, by)

Spec == Init /\ [][Next]_vars
=============================================================================
