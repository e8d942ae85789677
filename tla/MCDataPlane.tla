---------------------------- MODULE MCDataPlane -----------------------------
(* The components with an API of their own, on small instances: the           *)
(* evaluation engine and the rulesets it is given, the events an SDK sends,   *)
(* the timestamps of the evaluation API, its rate limit, and the config       *)
(* center.  They share no state, so a behaviour is of one of them, the focus, *)
(* and the others stay where they start.                                      *)
EXTENDS MCFlagServing, EventBatcher, EvaluationTracker, RateLimit, ConfigReleases

VARIABLE focus

\* Edits of different keys, which can be merged; the draft at the start, and what
\* a rollback inserts, have both keys, so that requests can deadlock.
MCEdits ==
  {[fresh |-> {"host"}, masked |-> {}], [fresh |-> {}, masked |-> {"port"}]}

DataPlaneInit ==
  /\ focus \in {"serving", "events", "tracking", "rate", "releases"}
  /\ FlagServingInit
  /\ Init
  /\ TrackerInit
  /\ RateInit /\ (focus # "rate" => clock = 0)
  /\ ReleasesInit /\ (focus # "releases" => draft = {} /\ releases = {})

DataPlaneNext ==
  /\ UNCHANGED focus
  /\ \/ focus = "serving" /\ FlagServingNext
        /\ UNCHANGED <<vars, trackerVars, rateVars, releaseVars>>
     \/ focus = "events" /\ Next
        /\ UNCHANGED <<fsvars, trackerVars, rateVars, releaseVars>>
     \/ focus = "tracking" /\ TrackerNext
        /\ UNCHANGED <<fsvars, vars, rateVars, releaseVars>>
     \/ focus = "rate" /\ RateNext
        /\ UNCHANGED <<fsvars, vars, trackerVars, releaseVars>>
     \/ focus = "releases" /\ ReleasesNext
        /\ UNCHANGED <<fsvars, vars, trackerVars, rateVars>>

dataPlaneVars == <<focus, fsvars, vars, trackerVars, rateVars, releaseVars>>

\* The fairness of the component in focus: that of EventBatcher, and that of
\* ReleasesFairSpec.
DataPlaneFair ==
  /\ \A p \in Senders : WF_vars(focus = "events" /\ Step(p))
  /\ \A t \in Threads : WF_vars(focus = "events" /\ Flush(t))
  /\ WF_vars(focus = "events" /\ Wake) /\ WF_vars(focus = "events" /\ WorkerEnds)
  /\ WF_vars(focus = "events" /\ FlushRest) /\ WF_vars(focus = "events" /\ CloseTransport)
  /\ \A s \in Sessions : WF_releaseVars(focus = "releases" /\ Proceed(s))

DataPlaneSpec == DataPlaneInit /\ [][DataPlaneNext]_dataPlaneVars /\ DataPlaneFair

\* TLC evaluates a constant of the root module once.
DataPlaneNodes == MCNodes
DataPlaneTree == MCTree

-----------------------------------------------------------------------------

\* The type invariants of the components: rows hold names that exist, a batch is
\* a set of events, and no flush writes an empty set.
DataTypesOK == FlagServingTypeOK /\ TypeOK /\ TrackerTypeOK
=============================================================================
