------------------------------ MODULE Tenancy ------------------------------
(***************************************************************************)
(* Organisations and what belongs to them, their members, and the access   *)
(* checks of every endpoint that changes something.                        *)
(*                                                                         *)
(* A handler checks the role of its user in a dependency, reads what the   *)
(* service needs, and writes at its commit; no row is locked in between.   *)
(***************************************************************************)
EXTENDS Integers, FiniteSets

CONSTANTS
  People,        \* users
  Handlers,      \* requests that run at the same time
  FirstRows,     \* what is there from the start, see Row
  FirstMembers,  \* possible members from the start: sets of [id, org, user, role]
  MaxHandled     \* bound on the requests of a run

ROLE_RANK == [VIEWER |-> 0, DEVELOPER |-> 1, ADMIN |-> 2, OWNER |-> 3]
Roles == DOMAIN ROLE_RANK

NoRow == <<0, "none">>
NoOne == "nobody"

\* A row of any table that belongs to an organisation: its id is the number of
\* the request that wrote it, with its name; its parent is the row it refers to.
Row(id, kind, parent) == [id |-> id, kind |-> kind, parent |-> parent]

\* The foreign keys: kinds of rows, and the kinds of rows they belong to.
BelongsTo ==
  {<<"project", "organization">>,
   <<"environment", "project">>, <<"flag", "project">>, <<"segment", "project">>,
   <<"api_key", "environment">>, <<"namespace", "environment">>,
   <<"change_request", "environment">>}

Rooted(r, R) ==
  \/ r.kind = "organization" /\ r.parent = NoRow
  \/ \E p \in R : p.id = r.parent /\ <<r.kind, p.kind>> \in BelongsTo

ASSUME TenancyAssumption ==
  /\ MaxHandled \in Nat
  /\ FirstRows \subseteq [id : {0} \X STRING, kind : STRING, parent : {0} \X STRING]
  /\ \A r \in FirstRows : r.id # NoRow /\ Rooted(r, FirstRows)
  /\ \A r, q \in FirstRows : r.id = q.id => r = q
  /\ \A M \in FirstMembers :
       /\ IsFiniteSet(M)
       /\ \A m \in M :
            /\ m \in [id : Int, org : {r.id : r \in FirstRows}, user : People, role : Roles]
            /\ m.id <= 0
       /\ \A m, k \in M : m.id = k.id \/ (m.org = k.org /\ m.user = k.user) => m = k

VARIABLES
  objects,       \* organization, project, environment, api_key, flag, segment, ...
  settings,   \* flag_environment_setting: [flag, env]
  members,    \* membership
  request,    \* the handlers
  handled,    \* requests so far
  raced       \* history: pairs of requests that ran at the same time

tenancyVars == <<objects, settings, members, request, handled, raced>>

\* What an endpoint does to the row its path names (on), with its minimal role:
\* create a child, delete the row, write in it, or add, change, expel a member.
Endpoint(on, min, does, child) == [on |-> on, min |-> min, does |-> does, child |-> child]

NoEndpoint == Endpoint("none", "VIEWER", "none", "none")

\* n: the number; loaded: the member as it was read; envs: the environments
\* create_flag has read; alone: nobody else has committed since the request began.
NoRequest ==
  [pc |-> "idle", n |-> 0, user |-> NoOne, row |-> NoRow, env |-> NoRow, doing |-> NoEndpoint,
   target |-> NoOne, role |-> "VIEWER", loaded |-> {}, envs |-> {}, alone |-> TRUE]

TenancyInit ==
  /\ objects = FirstRows
  /\ settings = {}
  /\ members \in FirstMembers
  /\ request = [w \in Handlers |-> NoRequest]
  /\ handled = 0
  /\ raced = {}

-----------------------------------------------------------------------------
(* The endpoints that write, by router.                                     *)

OrganizationEndpoints ==
  {Endpoint("organization", "ADMIN", "write", "none"),
   Endpoint("organization", "OWNER", "delete", "none"),
   Endpoint("organization", "ADMIN", "add", "none"),
   Endpoint("organization", "ADMIN", "change", "none"),
   Endpoint("organization", "ADMIN", "expel", "none"),
   Endpoint("organization", "ADMIN", "create", "project")}

ProjectEndpoints ==
  {Endpoint("project", "ADMIN", "write", "none"),
   Endpoint("project", "ADMIN", "delete", "none"),
   Endpoint("project", "ADMIN", "create", "environment")}

EnvironmentEndpoints ==
  {Endpoint("environment", "ADMIN", "write", "none"),
   Endpoint("environment", "ADMIN", "delete", "none"),
   Endpoint("environment", "DEVELOPER", "create", "api_key")}

ApiKeyEndpoints == {Endpoint("api_key", "DEVELOPER", "write", "none")}

FlagEndpoints ==
  {Endpoint("project", "DEVELOPER", "create", "flag"),
   Endpoint("flag", "DEVELOPER", "write", "none")}

SettingEndpoints ==
  {Endpoint("flag", "DEVELOPER", "configure", "none")}

SegmentEndpoints ==
  {Endpoint("project", "DEVELOPER", "create", "segment"),
   Endpoint("segment", "DEVELOPER", "write", "none"),
   Endpoint("segment", "DEVELOPER", "delete", "none")}

TargetingEndpoints ==
  {Endpoint("flag", "VIEWER", "ensure", "none"),
   Endpoint("flag", "DEVELOPER", "ensure", "none"),
   Endpoint("flag", "DEVELOPER", "target", "none")}

FlagHealthEndpoints == {Endpoint("flag", "ADMIN", "write", "none")}

ConfigEndpoints ==
  {Endpoint("environment", "DEVELOPER", "create", "namespace"),
   Endpoint("namespace", "DEVELOPER", "write", "none")}

ChangeRequestEndpoints ==
  {Endpoint("environment", "DEVELOPER", "create", "change_request"),
   Endpoint("change_request", "ADMIN", "write", "none"),
   Endpoint("change_request", "DEVELOPER", "write", "none")}

Endpoints ==
  OrganizationEndpoints \cup ProjectEndpoints \cup EnvironmentEndpoints \cup ApiKeyEndpoints
  \cup FlagEndpoints \cup SettingEndpoints \cup SegmentEndpoints \cup TargetingEndpoints
  \cup FlagHealthEndpoints \cup ConfigEndpoints \cup ChangeRequestEndpoints

-----------------------------------------------------------------------------
(* Access: from the row the path names up to its organisation.              *)

RowOf(id) == {r \in objects : r.id = id}
ParentsOf(S) == {r \in objects : \E q \in S : r.id = q.parent}

require_org_role(u, S, min) ==
  \E m \in members, r \in S : /\ m.org = r.id /\ m.user = u
                              /\ ROLE_RANK[m.role] >= ROLE_RANK[min]

\* Mutant of require_project_role: any organisation of the user will do.
require_project_role_any(u, S, min) ==
  S # {} /\ \E m \in members : m.user = u /\ ROLE_RANK[m.role] >= ROLE_RANK[min]

require_project_role(u, S, min) == require_org_role(u, ParentsOf(S), min)

\* _check_env_impl.
require_environment_role(u, S, min) == require_project_role(u, ParentsOf(S), min)

require_api_key_role(u, S, min) == require_environment_role(u, ParentsOf(S), min)
require_flag_role(u, S, min) == require_project_role(u, ParentsOf(S), min)
require_namespace_role(u, S, min) == require_environment_role(u, ParentsOf(S), min)
require_change_request_role(u, S, min) == require_environment_role(u, ParentsOf(S), min)

\* The dependency of an endpoint.  A segment is looked up in the project of the
\* path.
Allowed(u, id, e) ==
  LET S == {r \in RowOf(id) : r.kind = e.on} IN
  CASE e.on = "organization" -> require_org_role(u, S, e.min)
    [] e.on = "project" -> require_project_role(u, S, e.min)
    [] e.on = "segment" -> require_project_role(u, ParentsOf(S), e.min)
    [] e.on = "environment" -> require_environment_role(u, S, e.min)
    [] e.on = "flag" -> require_flag_role(u, S, e.min)
    [] e.on = "api_key" -> require_api_key_role(u, S, e.min)
    [] e.on = "namespace" -> require_namespace_role(u, S, e.min)
    [] OTHER -> require_change_request_role(u, S, e.min)

-----------------------------------------------------------------------------
(* Requests.                                                                *)

Busy == {w \in Handlers : request[w].pc # "idle"}

\* The dependencies of the endpoint, which refuse or let the handler go on.
Begin(w, q) ==
  /\ handled' = handled + 1
  /\ request' = [request EXCEPT ![w] = [q EXCEPT !.n = handled + 1]]
  /\ raced' = raced \cup {{handled + 1, request[v].n} : v \in Busy}
  /\ UNCHANGED <<objects, settings, members>>

\* create_organization asks for no role.
StartOrganization(w, u) ==
  Begin(w, [NoRequest EXCEPT !.pc = "commit", !.user = u,
              !.doing = Endpoint("none", "VIEWER", "create", "organization")])

StartHandler(w, u, id, e) ==
  /\ Allowed(u, id, e)
  /\ Begin(w, [NoRequest EXCEPT !.pc = IF e.child = "flag" THEN "read" ELSE "commit",
                 !.user = u, !.row = id, !.doing = e])

\* What endpoints do with members.
Keeps == {"add", "change", "expel"}

StartMember(w, u, id, e, target, role) ==
  /\ Allowed(u, id, e)
  /\ Begin(w, [NoRequest EXCEPT !.pc = "read", !.user = u, !.row = id, !.doing = e,
                 !.target = target, !.role = role,
                 !.loaded = {m \in members : m.org = id /\ m.user = u}])

\* PUT of a setting; GET of rules, simulation and overrides; PUT of rules.
Settles == {"configure", "ensure", "target"}

SettingOf(flag, env) == [flag |-> flag, env |-> env]

SameProject(flag, env) ==
  \E f \in RowOf(flag), e \in RowOf(env) :
    f.kind = "flag" /\ e.kind = "environment" /\ f.parent = e.parent

\* Mutant of StartSetting: targeting takes any environment.
StartSettingAnywhere(w, u, id, env, e) ==
  /\ Allowed(u, id, e)
  /\ Begin(w, [NoRequest EXCEPT !.pc = "commit", !.user = u, !.row = id, !.env = env, !.doing = e])

IsProduction(env) == env[2] = "production"

\* PUT of a setting also checks the environment, and outside of production finds
\* the setting or fails; targeting takes an environment of the flag's project.
StartSetting(w, u, id, env, e) ==
  /\ Allowed(u, id, e)
  /\ IF e.does = "configure"
     THEN require_environment_role(u, {r \in RowOf(env) : r.kind = "environment"}, e.min)
          /\ (IsProduction(env) \/ SettingOf(id, env) \in settings)
     ELSE SameProject(id, env)
  /\ Begin(w, [NoRequest EXCEPT !.pc = "commit", !.user = u, !.row = id, !.env = env, !.doing = e])

Stop(w) == request' = [request EXCEPT ![w] = NoRequest]

StopUnchanged(w) == Stop(w) /\ UNCHANGED <<objects, settings, members, handled, raced>>

\* The SELECT of the member; the session keeps a row it has loaded before.
Loaded(w) ==
  LET now == {m \in members : m.org = request[w].row /\ m.user = request[w].target}
  IN  IF now # {} /\ request[w].target = request[w].user THEN request[w].loaded ELSE now

ReadMember(w) ==
  /\ request[w].pc = "read" /\ request[w].doing.does \in Keeps
  /\ IF (Loaded(w) = {}) # (request[w].doing.does = "add")
     THEN StopUnchanged(w)
     ELSE /\ request' = [request EXCEPT
               ![w].loaded = Loaded(w),
               ![w].pc = IF \E m \in Loaded(w) : m.role = "OWNER"
                            /\ (request[w].doing.does = "change" => request[w].role # "OWNER")
                         THEN "count" ELSE "commit"]
          /\ UNCHANGED <<objects, settings, members, handled, raced>>

Owners(org) == {m \in members : m.org = org /\ m.role = "OWNER"}

\* Mutant of CountOwners: nobody counts.
CountOwnersNever(w) ==
  /\ request[w].pc = "count"
  /\ request' = [request EXCEPT ![w].pc = "commit"]
  /\ UNCHANGED <<objects, settings, members, handled, raced>>

\* "Cannot remove the only owner".
CountOwners(w) ==
  /\ request[w].pc = "count"
  /\ IF Cardinality(Owners(request[w].row)) <= 1 THEN StopUnchanged(w)
     ELSE /\ request' = [request EXCEPT ![w].pc = "commit"]
          /\ UNCHANGED <<objects, settings, members, handled, raced>>

\* Mutant of ReadEnvironments: production is left out.
ReadEnvironmentsSome(w) ==
  /\ request[w].pc = "read" /\ request[w].doing.child = "flag"
  /\ request' = [request EXCEPT ![w].pc = "commit",
       ![w].envs = {r \in objects : /\ r.kind = "environment" /\ r.parent = request[w].row
                                 /\ ~IsProduction(r.id)}]
  /\ UNCHANGED <<objects, settings, members, handled, raced>>

\* create_flag reads the environments.
ReadEnvironments(w) ==
  /\ request[w].pc = "read" /\ request[w].doing.child = "flag"
  /\ request' = [request EXCEPT ![w].pc = "commit",
       ![w].envs = {r \in objects : r.kind = "environment" /\ r.parent = request[w].row}]
  /\ UNCHANGED <<objects, settings, members, handled, raced>>

-----------------------------------------------------------------------------
(* Commits.  A violated constraint rolls the request back; keys that are     *)
(* taken do so like any error, see Break.                                    *)

Done(w) ==
  /\ request' = [v \in Handlers |->
       IF v = w THEN NoRequest ELSE [request[v] EXCEPT !.alone = FALSE]]
  /\ UNCHANGED <<handled, raced>>

Commits(w, does) == request[w].pc = "commit" /\ request[w].doing.does \in does

\* What create_project adds to a project.
Environments == {"development", "staging", "production"}

\* The objects of a request that creates.
Created(w) ==
  LET id == <<request[w].n, "row">>
      child == request[w].doing.child
  IN  {Row(id, child, request[w].row)} \cup
      (IF child = "project"
       THEN {Row(<<request[w].n, e>>, "environment", id) : e \in Environments} ELSE {})

\* Whoever creates an organisation becomes its owner.
Founder(w) ==
  IF request[w].doing.child # "organization" THEN {}
  ELSE {[id |-> request[w].n, org |-> <<request[w].n, "row">>,
         user |-> request[w].user, role |-> "OWNER"]}

\* The settings of a new flag.
SettingsOf(w) == {SettingOf(<<request[w].n, "row">>, e.id) : e \in request[w].envs}

\* The foreign keys of what a request creates, and of the settings of a flag.
CommitRows(w) ==
  /\ Commits(w, {"create"})
  /\ IF \/ request[w].doing.child # "organization" /\ RowOf(request[w].row) = {}
        \/ ~(request[w].envs \subseteq objects)
     THEN StopUnchanged(w)
     ELSE /\ objects' = objects \cup Created(w)
          /\ settings' = settings \cup SettingsOf(w)
          /\ members' = members \cup Founder(w)
          /\ Done(w)

\* A row and all that refers to it.
Below(S) == S \cup {r \in objects : \E q \in S : r.parent = q.id}
Cascade(id) == Below(Below(Below(RowOf(id))))

\* ON DELETE CASCADE; a row that is gone is no error.
CommitDelete(w) ==
  /\ Commits(w, {"delete"})
  /\ LET gone == {r.id : r \in Cascade(request[w].row)} IN
     /\ objects' = objects \ Cascade(request[w].row)
     /\ members' = {m \in members : m.org \notin gone}
     /\ settings' = {s \in settings : s.flag \notin gone /\ s.env \notin gone}
  /\ Done(w)

\* An UPDATE of a row that is gone raises.
CommitWrite(w) ==
  /\ Commits(w, {"write"})
  /\ IF RowOf(request[w].row) = {} THEN StopUnchanged(w)
     ELSE Done(w) /\ UNCHANGED <<objects, settings, members>>

\* In production a setting and rules become a change request; targeting makes the
\* setting there as well (get_or_create_flag_setting).
CommitSetting(w) ==
  /\ Commits(w, Settles)
  /\ LET does == request[w].doing.does
         s == SettingOf(request[w].row, request[w].env)
         gated == IsProduction(s.env) /\ does \in {"configure", "target"}
     IN  IF RowOf(s.flag) = {} \/ RowOf(s.env) = {} THEN StopUnchanged(w)
         ELSE /\ settings' = settings \cup (IF does = "configure" THEN {} ELSE {s})
              /\ objects' = objects \cup
                   (IF gated THEN {Row(<<request[w].n, "row">>, "change_request", s.env)} ELSE {})
              /\ UNCHANGED members
              /\ Done(w)

\* uq_membership_user_org and the foreign key.
CommitAdd(w) ==
  /\ Commits(w, {"add"})
  /\ IF \/ RowOf(request[w].row) = {}
        \/ \E m \in members : m.org = request[w].row /\ m.user = request[w].target
     THEN StopUnchanged(w)
     ELSE /\ members' = members \cup {[id |-> request[w].n, org |-> request[w].row,
                                       user |-> request[w].target, role |-> request[w].role]}
          /\ UNCHANGED <<objects, settings>>
          /\ Done(w)

\* The member that was loaded, as it is now.
Current(w) == {m \in members : \E q \in request[w].loaded : q.id = m.id}

\* A role that equals the one that was loaded is not written.
CommitChange(w) ==
  /\ Commits(w, {"change"})
  /\ IF \E q \in request[w].loaded : q.role = request[w].role
     THEN Done(w) /\ UNCHANGED <<objects, settings, members>>
     ELSE IF Current(w) = {} THEN StopUnchanged(w)
     ELSE /\ members' = (members \ Current(w)) \cup
               {[m EXCEPT !.role = request[w].role] : m \in Current(w)}
          /\ UNCHANGED <<objects, settings>>
          /\ Done(w)

CommitExpel(w) ==
  /\ Commits(w, {"expel"})
  /\ members' = members \ Current(w)
  /\ UNCHANGED <<objects, settings>>
  /\ Done(w)

\* An error or a crash.
Break(w) == request[w].pc # "idle" /\ StopUnchanged(w)

-----------------------------------------------------------------------------

Of(r, does) == {e \in Endpoints : e.on = r.kind /\ e.does \in does}

StartRequest(w) ==
  /\ request[w].pc = "idle"
  /\ handled < MaxHandled
  /\ \E u \in People :
       \/ StartOrganization(w, u)
       \/ \E r \in objects :
            \/ \E e \in Of(r, {"create", "delete", "write"}) : StartHandler(w, u, r.id, e)
            \/ \E e \in Of(r, Keeps), target \in People, role \in Roles :
                 StartMember(w, u, r.id, e, target, role)
            \/ \E e \in Of(r, Settles), q \in objects : StartSetting(w, u, r.id, q.id, e)

Proceed(w) ==
  \/ ReadMember(w) \/ CountOwners(w) \/ ReadEnvironments(w)
  \/ CommitRows(w) \/ CommitDelete(w) \/ CommitWrite(w) \/ CommitSetting(w)
  \/ CommitAdd(w) \/ CommitChange(w) \/ CommitExpel(w)

TenancyNext == \E w \in Handlers : StartRequest(w) \/ Proceed(w) \/ Break(w)

TenancySpec == TenancyInit /\ [][TenancyNext]_tenancyVars

-----------------------------------------------------------------------------
(* Properties.                                                              *)

OrgOf(r) ==
  {o \in objects : o.kind = "organization" /\
     \/ o.id \in {r.id, r.parent}
     \/ \E p \in RowOf(r.parent) : o.id = p.parent \/ \E q \in RowOf(p.parent) : o.id = q.parent}

\* Rows, settings and members; whatever is there belongs to an organisation, and
\* nobody is twice a member.
TenancyTypeOK ==
  /\ \A r \in objects : Cardinality(OrgOf(r)) = 1
  /\ \A r, q \in objects : r.id = q.id => r = q
  /\ \A s \in settings : RowOf(s.flag) # {} /\ RowOf(s.env) # {}
  /\ \A m \in members : RowOf(m.org) # {} /\ m.user \in People /\ m.role \in Roles
  /\ \A m, k \in members : (m.org = k.org /\ m.user = k.user) => m = k
  /\ \A w \in Handlers : request[w].pc \in {"idle", "read", "count", "commit"}

Writing(w) == request[w].pc = "commit"

\* "Cannot remove the only owner of the organization": an organisation that stays
\* keeps an owner, unless the request that takes it away was overtaken by another
\* commit after it had counted.
OwnersNeedOverlap ==
  [][\A o \in objects \cap objects' :
       (/\ o.kind = "organization" /\ Owners(o.id) # {}
        /\ \A w \in Handlers : Writing(w) /\ request[w].row = o.id => request[w].alone)
       => Owners(o.id)' # {}]_tenancyVars

\* The least role the SRS (FR-1.3) asks of who creates or removes a row.
Needed(kind) ==
  CASE kind = "organization" -> "OWNER"
    [] kind \in {"project", "environment"} -> "ADMIN"
    [] OTHER -> "DEVELOPER"

\* A new organisation is nobody's yet.
Governed(r) == r.kind # "organization" \/ r \in objects

\* Isolation of organisations, and roles: whoever makes a row of an organisation
\* appear or disappear, directly or by cascade, has the role for it there; only a
\* request that was overtaken may rely on a role that is gone.
ChangesByMembers ==
  [][\A r \in (objects \ objects') \cup (objects' \ objects) : Governed(r) =>
       \E w \in Handlers : Writing(w) /\
         (\/ ~request[w].alone
          \/ \E m \in members :
               /\ m.user = request[w].user
               /\ ROLE_RANK[m.role] >= ROLE_RANK[Needed(r.kind)]
               /\ (\E o \in OrgOf(r) : o.id = m.org)
                    \/ (\E o \in OrgOf(r)' : o.id = m.org))]_tenancyVars

\* A setting never joins a flag and an environment of different projects, along
\* any of the endpoints that make settings.
SettingsCoherent == \A s \in settings : SameProject(s.flag, s.env)

\* A flag has a setting in every environment that was there before it: only an
\* environment that is created while the flag is, or after it, lacks one.
SettingsComplete ==
  \A f, e \in objects :
    (/\ f.kind = "flag" /\ e.kind = "environment" /\ f.parent = e.parent
     /\ e.id[1] < f.id[1] /\ {e.id[1], f.id[1]} \notin raced)
      => SettingOf(f.id, e.id) \in settings
=============================================================================
