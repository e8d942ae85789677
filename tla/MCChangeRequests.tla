-------------------------- MODULE MCChangeRequests --------------------------
(* Small instances of ChangeRequests: requests and handlers are              *)
(* interchangeable in the safety runs.                                       *)
EXTENDS ChangeRequests, TLC

CONSTANT Births   \* bound of the instance: the statuses requests are created with

\* The instance leaves out creations whose rows behave like those of others: no
\* guard tells DRAFT from PENDING, and nothing is done with a row created as
\* REJECTED or CANCELLED but to cancel it.
BirthsBounded == \A r \in Requests : createdAs[r] \in Births \cup {Absent}

BoundedSpec == Init /\ [][Next /\ BirthsBounded']_vars

\* The bound only concerns creation, so it restricts no fair action.
FairBoundedSpec ==
  BoundedSpec /\ WF_vars(Tick) /\ WF_vars(Scheduler) /\ \A s \in Sessions : WF_vars(Finish(s))

Symmetry == Permutations(Requests) \cup Permutations(Sessions)
=============================================================================
