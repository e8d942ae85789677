--------------------------- MODULE MCControlPlane ---------------------------
(* The components behind the dashboard on small instances.  They share no    *)
(* row that one of them changes and another reads, so a behaviour is of one   *)
(* of them, the focus, and the states of the others stay the initial ones.   *)
EXTENDS MCChangeRequests, Targeting, Tenancy, RefreshTokens, FlagHealth, EnvironmentLocks, TLC

VARIABLE focus

-----------------------------------------------------------------------------
(* Values of constants.                                                      *)

MCRefs ==
  [plain |-> {}, toA |-> {<<"key", "A">>}, toB |-> {<<"key", "B">>},
   toBoth |-> {<<"id", 2>>, <<"key", "A">>}]

MCFirstSegments ==
  {[id |-> 1, key |-> "A", tree |-> "plain"], [id |-> 2, key |-> "B", tree |-> "plain"]}

\* Two of them share no priority, so that overlapping requests can both commit.
MCRuleSets ==
  LET rule(p, s) == [priority |-> p, segment |-> s]
  IN  {{}, {rule(1, 1)}, {rule(2, 2)}, {rule(1, NoSegment), rule(2, NoSegment)}}

O1 == <<0, "o1">>
O2 == <<0, "o2">>
P1 == <<0, "p1">>
P2 == <<0, "p2">>

\* Two organisations with a project each.
MCFirstRows ==
  {Row(O1, "organization", NoRow), Row(O2, "organization", NoRow),
   Row(P1, "project", O1), Row(P2, "project", O2),
   Row(<<0, "development">>, "environment", P1), Row(<<0, "production">>, "environment", P2)}

Member(n, o, u, r) == [id |-> n, org |-> o, user |-> u, role |-> r]

\* Two owners of one organisation, or members of both with different roles.
TwoOwners == {Member(-1, O1, "ann", "OWNER"), Member(-2, O1, "bob", "OWNER")}
TwoOrganisations ==
  {Member(-1, O1, "ann", "OWNER"), Member(-2, O1, "bob", "DEVELOPER"), Member(-3, O2, "bob", "ADMIN")}
MCFirstMembers == {TwoOwners, TwoOrganisations}

-----------------------------------------------------------------------------

ControlInit ==
  /\ focus \in {"changes", "targeting", "tenancy", "tokens", "health", "locks"}
  /\ Init
  /\ TargetingInit /\ (focus # "targeting" => rules = {})
  /\ TenancyInit /\ (focus # "tenancy" => members = TwoOwners)
  /\ TokensInit
  /\ HealthInit /\ (focus # "health" => ~elsewhere)
  /\ LocksInit

ControlNext ==
  /\ UNCHANGED focus
  /\ \/ focus = "changes" /\ Next /\ BirthsBounded'
        /\ UNCHANGED <<targetingVars, tenancyVars, tokenVars, healthVars, lockVars>>
     \/ focus = "targeting" /\ TargetingNext
        /\ UNCHANGED <<vars, tenancyVars, tokenVars, healthVars, lockVars>>
     \/ focus = "tenancy" /\ TenancyNext
        /\ UNCHANGED <<vars, targetingVars, tokenVars, healthVars, lockVars>>
     \/ focus = "tokens" /\ TokensNext
        /\ UNCHANGED <<vars, targetingVars, tenancyVars, healthVars, lockVars>>
     \/ focus = "health" /\ HealthNext
        /\ UNCHANGED <<vars, targetingVars, tenancyVars, tokenVars, lockVars>>
     \/ focus = "locks" /\ LocksNext
        /\ UNCHANGED <<vars, targetingVars, tenancyVars, tokenVars, healthVars>>

controlVars ==
  <<focus, vars, targetingVars, tenancyVars, tokenVars, healthVars, lockVars>>

\* The fairness of the component in focus: FairSpec, TargetingFair.
ControlFair ==
  /\ WF_vars(focus = "changes" /\ Tick)
  /\ WF_vars(focus = "changes" /\ Scheduler)
  /\ \A s \in Sessions : WF_vars(focus = "changes" /\ Finish(s))
  /\ \A w \in Writers : WF_targetingVars(focus = "targeting" /\ Continue(w))

ControlSpec == ControlInit /\ [][ControlNext]_controlVars /\ ControlFair

-----------------------------------------------------------------------------

\* The type invariants of the components: keys, priorities, addresses and members
\* stay unique, whatever is left refers to something, and a row is locked once.
ControlTypesOK ==
  TypeOK /\ TargetingTypeOK /\ TenancyTypeOK /\ TokensTypeOK /\ HealthTypeOK /\ LocksTypeOK
=============================================================================
