--------------------------- MODULE TenancyProofs ----------------------------
(***************************************************************************)
(* What overlapping requests keep of organisations, for any number of them, *)
(* of people, handlers and requests: rows stay below their organisation,   *)
(* only members with the role for it change them, an organisation keeps an *)
(* owner, and settings join what belongs together.                         *)
(***************************************************************************)
EXTENDS Tenancy, FiniteSetTheorems, TLAPS

\* The names of rows: what the first rows are called, and what requests write.
Names == {"none", "row"} \cup Environments \cup {r.id[2] : r \in FirstRows}

Leaves == {"api_key", "namespace", "change_request"}
RowKinds == {"organization", "project", "environment", "flag", "segment"} \cup Leaves

Ids == Nat \X Names
ObjectRows == [id : Ids, kind : RowKinds, parent : Ids]
MemberRows == [id : Int, org : Ids, user : People, role : Roles]

CreateOrganization == Endpoint("none", "VIEWER", "create", "organization")

RequestRecords ==
  [pc : {"idle", "read", "count", "commit"}, n : Nat, user : People \cup {NoOne},
   row : Ids, env : Ids, doing : Endpoints \cup {NoEndpoint, CreateOrganization},
   target : People \cup {NoOne}, role : Roles,
   loaded : SUBSET MemberRows, envs : SUBSET ObjectRows, alone : BOOLEAN]

TenancyShapes ==
  /\ objects \subseteq ObjectRows
  /\ settings \subseteq [flag : Ids, env : Ids]
  /\ members \subseteq MemberRows /\ IsFiniteSet(members)
  /\ request \in [Handlers -> RequestRecords]
  /\ handled \in Nat

Serving(w) == request[w].pc # "idle"
Does(w) == request[w].doing.does

\* No request that runs has the number n.
Settled(n) == n <= handled /\ \A w \in Handlers : Serving(w) => request[w].n # n

HandlerNumbers ==
  /\ \A w \in Handlers : request[w].n \in 0..handled /\ (Serving(w) => request[w].n # 0)
  /\ \A v, w \in Handlers : v # w /\ Serving(v) /\ Serving(w) => request[v].n # request[w].n
  /\ \A w \in Handlers : Serving(w) =>
       \A k \in (request[w].n + 1)..handled : {request[w].n, k} \in raced

RowsRooted ==
  /\ \A r \in objects : r.id # NoRow /\ Settled(r.id[1]) /\ Rooted(r, objects)
  /\ \A r, q \in objects : r.id = q.id => r = q

MembersUnique ==
  /\ \A m \in members : Settled(m.id) /\ RowOf(m.org) # {}
  /\ \A m, k \in members : m.id = k.id \/ (m.org = k.org /\ m.user = k.user) => m = k

\* What a request aims at is what it was when the request began, or gone.
Aims(w) == Serving(w) =>
  /\ Settled(request[w].row[1]) /\ Settled(request[w].env[1])
  /\ request[w].doing # NoEndpoint
  /\ request[w].doing = CreateOrganization => request[w].row = NoRow
  /\ \A r \in RowOf(request[w].row) : r.kind = request[w].doing.on
  /\ Does(w) \in Settles => \A e \in RowOf(request[w].env) : e.kind = "environment"
  /\ Does(w) \in {"ensure", "target"} =>
       \A f \in RowOf(request[w].row), e \in RowOf(request[w].env) : f.parent = e.parent

\* What a request has read.
EnvironmentsRead(w) == Serving(w) =>
  /\ \A e \in request[w].envs : e.kind = "environment" /\ e.parent = request[w].row
  /\ request[w].envs # {} => request[w].doing.child = "flag"
  /\ (request[w].pc = "commit" /\ request[w].doing.child = "flag") =>
       \A e \in objects :
         (/\ e.kind = "environment" /\ e.parent = request[w].row
          /\ e.id[1] < request[w].n /\ {e.id[1], request[w].n} \notin raced)
           => e \in request[w].envs

MemberRead(w) == Serving(w) =>
  /\ request[w].user \in People /\ (Does(w) \in Keeps => request[w].target \in People)
  /\ request[w].pc = "read" => Does(w) \in Keeps \/ request[w].doing.child = "flag"
  /\ request[w].pc = "count" => Does(w) \in {"change", "expel"}
  /\ \A q \in request[w].loaded :
       /\ Does(w) \in Keeps /\ q.org = request[w].row /\ Settled(q.id)
       /\ q.user = IF request[w].pc = "read" THEN request[w].user ELSE request[w].target
       /\ \A m \in members : m.id = q.id => m.org = q.org /\ m.user = q.user

\* What a request has checked still holds while nobody else has committed.
LosesOwner(w) ==
  \E m \in request[w].loaded :
    m.role = "OWNER" /\ (Does(w) = "change" => request[w].role # "OWNER")

StillAllowed(w) == (Serving(w) /\ request[w].alone) =>
  /\ request[w].doing = CreateOrganization \/ Allowed(request[w].user, request[w].row, request[w].doing)
  /\ Does(w) = "configure" =>
       require_environment_role(request[w].user,
         {r \in RowOf(request[w].env) : r.kind = "environment"}, request[w].doing.min)
  /\ request[w].loaded \subseteq members
  /\ (request[w].pc = "commit" /\ Does(w) \in {"change", "expel"} /\ LosesOwner(w)) =>
       Cardinality(Owners(request[w].row)) > 1

HandlerInv(w) == Aims(w) /\ EnvironmentsRead(w) /\ MemberRead(w) /\ StillAllowed(w)

TenancyInv ==
  /\ TenancyShapes /\ HandlerNumbers /\ RowsRooted /\ MembersUnique
  /\ SettingsCoherent /\ SettingsComplete
  /\ \A w \in Handlers : HandlerInv(w)

-----------------------------------------------------------------------------
(* Endpoints and roles.                                                     *)

\* What the tables of endpoints say, an endpoint at a time.
EndpointOK(e) ==
  /\ e.on \in {"organization", "project", "environment", "flag", "segment"} \cup Leaves
  /\ e.min \in Roles
  /\ e.does \in {"create", "delete", "write"} \cup Keeps \cup Settles
  /\ e # NoEndpoint /\ e # CreateOrganization
  /\ e.does = "create" => /\ <<e.child, e.on>> \in BelongsTo
                          /\ ROLE_RANK[e.min] >= ROLE_RANK[Needed(e.child)]
                          /\ e.child = "project" => e.min = "ADMIN"
  /\ e.does # "create" => e.child = "none"
  /\ e.does = "delete" =>
       <<e.on, e.min>> \in {<<"organization", "OWNER">>, <<"project", "ADMIN">>,
                            <<"environment", "ADMIN">>, <<"segment", "DEVELOPER">>}
  /\ e.does \in Keeps => e.on = "organization"
  /\ e.does \in Settles => e.on = "flag"
  /\ e.does \in {"configure", "target"} => e.min = "DEVELOPER"

LEMMA Ranks ==
  /\ Roles = {"VIEWER", "DEVELOPER", "ADMIN", "OWNER"}
  /\ ROLE_RANK["VIEWER"] = 0 /\ ROLE_RANK["DEVELOPER"] = 1
  /\ ROLE_RANK["ADMIN"] = 2 /\ ROLE_RANK["OWNER"] = 3
BY DEF ROLE_RANK, Roles

LEMMA EndpointFacts == \A e \in Endpoints : EndpointOK(e)
<1> USE Ranks DEF EndpointOK, Endpoint, NoEndpoint, CreateOrganization, Needed, BelongsTo, Keeps,
                  Settles, Leaves
<1>1. \A e \in OrganizationEndpoints : EndpointOK(e)
  BY DEF OrganizationEndpoints
<1>2. \A e \in ProjectEndpoints : EndpointOK(e)
  BY DEF ProjectEndpoints
<1>3. \A e \in EnvironmentEndpoints \cup ApiKeyEndpoints : EndpointOK(e)
  BY DEF EnvironmentEndpoints, ApiKeyEndpoints
<1>4. \A e \in FlagEndpoints \cup SettingEndpoints \cup FlagHealthEndpoints : EndpointOK(e)
  BY DEF FlagEndpoints, SettingEndpoints, FlagHealthEndpoints
<1>5. \A e \in SegmentEndpoints \cup TargetingEndpoints : EndpointOK(e)
  BY DEF SegmentEndpoints, TargetingEndpoints
<1>6. \A e \in ConfigEndpoints \cup ChangeRequestEndpoints : EndpointOK(e)
  BY DEF ConfigEndpoints, ChangeRequestEndpoints
<1> HIDE DEF EndpointOK
<1> QED  BY <1>1, <1>2, <1>3, <1>4, <1>5, <1>6 DEF Endpoints

LEMMA Fields ==
  /\ \A a, b, c, d : LET e == Endpoint(a, b, c, d) IN
       e.on = a /\ e.min = b /\ e.does = c /\ e.child = d
  /\ CreateOrganization.does = "create" /\ CreateOrganization.child = "organization"
  /\ NoEndpoint.does = "none"
BY DEF Endpoint, CreateOrganization, NoEndpoint

-----------------------------------------------------------------------------
(* Rows and their organisation.                                             *)

LEMMA RootedMore ==
  ASSUME NEW R, NEW Q, R \subseteq Q, NEW r, Rooted(r, R)
  PROVE  Rooted(r, Q)
BY DEF Rooted

\* The parent of a row, by its kind.
LEMMA ParentKinds ==
  ASSUME RowsRooted, NEW r \in objects
  PROVE  /\ r.kind \in RowKinds
         /\ r.kind = "organization" <=> r.parent = NoRow
         /\ r.kind # "organization" => \E p \in objects : p.id = r.parent
         /\ \A p \in objects : p.id = r.parent =>
              /\ r.kind = "project" => p.kind = "organization"
              /\ r.kind \in {"environment", "flag", "segment"} => p.kind = "project"
              /\ r.kind \in Leaves => p.kind = "environment"
<1> USE DEF RowKinds, Leaves
<1>1. CASE r.kind = "organization" /\ r.parent = NoRow
  BY <1>1 DEF RowsRooted
<1>2. CASE \E p \in objects : p.id = r.parent /\ <<r.kind, p.kind>> \in BelongsTo
  <2>1. PICK p \in objects : p.id = r.parent /\ <<r.kind, p.kind>> \in BelongsTo  BY <1>2
  <2>2. \A q \in objects : q.id = r.parent => q = p  BY <2>1 DEF RowsRooted
  <2>3. r.parent # NoRow  BY <2>1 DEF RowsRooted
  <2>4. /\ r.kind \in RowKinds /\ r.kind # "organization"
        /\ r.kind = "project" => p.kind = "organization"
        /\ r.kind \in {"environment", "flag", "segment"} => p.kind = "project"
        /\ r.kind \in Leaves => p.kind = "environment"
    BY <2>1 DEF BelongsTo
  <2> QED  BY <2>1, <2>2, <2>3, <2>4
<1> QED  BY <1>1, <1>2 DEF RowsRooted, Rooted

\* A row is of the organisation of its parent.
LEMMA OrgOfChild ==
  ASSUME RowsRooted, NEW r \in objects, NEW p \in objects, r.parent = p.id
  PROVE  OrgOf(r) = OrgOf(p)
<1>1. \A q \in objects : q.id = p.id => q = p
  BY DEF RowsRooted
<1>2. RowOf(r.parent) = {p}
  BY <1>1 DEF RowOf
<1>3. r.kind # "organization"
  BY ParentKinds DEF RowsRooted
<1>4. \A o \in objects : o.kind = "organization" => o.id # r.id
  BY <1>3 DEF RowsRooted
<1>5. p.kind \in {"organization", "project", "environment"}
  BY <1>3, ParentKinds DEF RowKinds, Leaves
<1>6. ASSUME NEW q \in RowOf(p.parent), NEW x \in RowOf(q.parent)
      PROVE  \A o \in objects : o.id # x.parent
  <2>1. q \in objects /\ q.id = p.parent /\ x \in objects /\ x.id = q.parent  BY DEF RowOf
  <2>2. x.kind = "organization"
    <3>1. p.kind # "organization"  BY <2>1, ParentKinds DEF RowsRooted
    <3>2. q.kind \in {"organization", "project"}  BY <3>1, <2>1, <1>5, ParentKinds
    <3>3. q.kind # "organization"  BY <2>1, ParentKinds DEF RowsRooted
    <3> QED  BY <3>2, <3>3, <2>1, ParentKinds
  <2>3. x.parent = NoRow  BY <2>1, <2>2, ParentKinds
  <2> QED  BY <2>3 DEF RowsRooted
<1> QED  BY <1>1, <1>2, <1>4, <1>6 DEF OrgOf

\* A row that is there has exactly one organisation.
LEMMA OneOrganization ==
  ASSUME RowsRooted, NEW r \in objects
  PROVE  \E o \in objects : o.kind = "organization" /\ OrgOf(r) = {o}
<1>1. \A o \in objects : o.kind = "organization" => OrgOf(o) = {o}
  <2> SUFFICES ASSUME NEW o \in objects, o.kind = "organization" PROVE OrgOf(o) = {o}
    OBVIOUS
  <2>1. o.parent = NoRow  BY ParentKinds
  <2>2. RowOf(o.parent) = {}  BY <2>1 DEF RowOf, RowsRooted
  <2>3. \A q \in objects : (q.id = o.id => q = o) /\ q.id # o.parent
    BY <2>1 DEF RowsRooted
  <2> QED  BY <2>2, <2>3 DEF OrgOf
<1> DEFINE Fine(q) == \E o \in objects : o.kind = "organization" /\ OrgOf(q) = {o}
<1>2. \A q \in objects : q.kind = "organization" => Fine(q)
  BY <1>1
<1>3. ASSUME NEW q \in objects, NEW p \in objects, q.parent = p.id, Fine(p)
      PROVE  Fine(q)
  BY <1>3, OrgOfChild
<1> HIDE DEF Fine
<1>4. \A q \in objects : q.kind = "project" => Fine(q)
  BY <1>2, <1>3, ParentKinds
<1>5. \A q \in objects : q.kind \in {"environment", "flag", "segment"} => Fine(q)
  BY <1>4, <1>3, ParentKinds
<1>6. \A q \in objects : q.kind \in Leaves => Fine(q)
  BY <1>5, <1>3, ParentKinds DEF Leaves
<1> QED  BY <1>2, <1>4, <1>5, <1>6, ParentKinds DEF Fine, RowKinds

\* Below a set of rows, and with it the cascade of a delete, are rows of the
\* organisation of one of the set.
LEMMA BelowInOrg ==
  ASSUME RowsRooted, NEW S \in SUBSET objects, NEW T \in SUBSET objects,
         \A t \in T : \E q \in S : OrgOf(t) = OrgOf(q)
  PROVE  /\ Below(T) \subseteq objects
         /\ \A t \in Below(T) : \E q \in S : OrgOf(t) = OrgOf(q)
BY OrgOfChild DEF Below

LEMMA CascadeInOrg ==
  ASSUME RowsRooted, NEW id, NEW r \in Cascade(id)
  PROVE  r \in objects /\ \E q \in RowOf(id) : OrgOf(r) = OrgOf(q)
<1> DEFINE S == RowOf(id)
<1>0. S \subseteq objects  BY DEF RowOf
<1> HIDE DEF S
<1>1. Below(S) \subseteq objects /\ \A t \in Below(S) : \E q \in S : OrgOf(t) = OrgOf(q)
  BY <1>0, BelowInOrg
<1>2. /\ Below(Below(S)) \subseteq objects
      /\ \A t \in Below(Below(S)) : \E q \in S : OrgOf(t) = OrgOf(q)
  BY <1>0, <1>1, BelowInOrg
<1>3. /\ Below(Below(Below(S))) \subseteq objects
      /\ \A t \in Below(Below(Below(S))) : \E q \in S : OrgOf(t) = OrgOf(q)
  BY <1>0, <1>2, BelowInOrg
<1> QED  BY <1>3 DEF S, Cascade

\* What refers to a row of a cascade is in it: no row is more than three below
\* its organisation.
LEMMA CascadeClosed ==
  ASSUME RowsRooted, NEW id, NEW r \in objects, NEW p \in Cascade(id), r.parent = p.id
  PROVE  r \in Cascade(id)
<1> DEFINE S == RowOf(id)
           A == Below(S)
           B == Below(A)
           C == Below(B)
<1>0. Cascade(id) = C  BY DEF Cascade
<1>1. S \subseteq A /\ A \subseteq B /\ B \subseteq C  BY DEF Below
<1>2. S \subseteq objects /\ A \subseteq objects /\ B \subseteq objects /\ C \subseteq objects
  BY DEF Below, RowOf
<1>3. \A q \in objects, x \in objects : q.parent = x.id =>
        (x \in S => q \in A) /\ (x \in A => q \in B) /\ (x \in B => q \in C)
  BY DEF Below
<1>4. /\ \A q \in A : q \in S \/ \E x \in S : q.parent = x.id
      /\ \A q \in B : q \in A \/ \E x \in A : q.parent = x.id
      /\ \A q \in C : q \in B \/ \E x \in B : q.parent = x.id
  BY DEF Below
<1> HIDE DEF S, A, B, C
<1>5. \A q \in C : q.kind = "organization" => q \in S
  BY <1>2, <1>4, ParentKinds DEF RowsRooted
<1>6. \A q \in C : q.kind = "project" => q \in A
  <2> SUFFICES ASSUME NEW q \in C, q.kind = "project", q \notin A PROVE FALSE
    OBVIOUS
  <2>1. PICK x \in B : q.parent = x.id  BY <1>1, <1>4
  <2>2. x.kind = "organization"  BY <2>1, <1>2, ParentKinds
  <2>3. x \in S  BY <2>2, <1>1, <1>5
  <2> QED  BY <2>1, <2>3, <1>2, <1>3
<1>7. \A q \in C : q.kind \in {"environment", "flag", "segment"} => q \in B
  <2> SUFFICES ASSUME NEW q \in C, q.kind \in {"environment", "flag", "segment"}, q \notin B
               PROVE  FALSE
    OBVIOUS
  <2>1. PICK x \in B : q.parent = x.id  BY <1>4
  <2>2. x.kind = "project"  BY <2>1, <1>2, ParentKinds
  <2>3. x \in A  BY <2>2, <1>1, <1>6
  <2> QED  BY <2>1, <2>3, <1>2, <1>3
<1>8. p \in B
  <2>1. p \in C /\ p \in objects  BY <1>0, <1>2
  <2>2. p.kind \in {"organization", "project", "environment"}
    <3>1. r.kind \in RowKinds /\ r.kind # "organization"
      BY <2>1, ParentKinds DEF RowsRooted
    <3> QED  BY <3>1, <2>1, ParentKinds DEF RowKinds
  <2> QED  BY <2>1, <2>2, <1>5, <1>6, <1>7, <1>1
<1> QED  BY <1>8, <1>0, <1>2, <1>3

-----------------------------------------------------------------------------
(* Access.                                                                  *)

\* Whoever an endpoint allows is a member, with its role, of the organisation of
\* the row of the path.
MemberAbove(u, r, min) ==
  \E m \in members, o \in OrgOf(r) :
    m.org = o.id /\ m.user = u /\ ROLE_RANK[m.role] >= ROLE_RANK[min]

LEMMA ParentOrg ==
  ASSUME RowsRooted, NEW S \in SUBSET objects, NEW q \in ParentsOf(S)
  PROVE  q \in objects /\ \E r \in S : OrgOf(r) = OrgOf(q)
BY OrgOfChild DEF ParentsOf

LEMMA OrgRole ==
  ASSUME RowsRooted, NEW S \in SUBSET objects, NEW u, NEW min,
         \A r \in S : r.kind = "organization", require_org_role(u, S, min)
  PROVE  \E r \in S : MemberAbove(u, r, min)
BY OneOrganization DEF require_org_role, MemberAbove, OrgOf

LEMMA ProjectRole ==
  ASSUME RowsRooted, NEW S \in SUBSET objects, NEW u, NEW min,
         \A r \in S : r.kind = "project", require_project_role(u, S, min)
  PROVE  \E r \in S : MemberAbove(u, r, min)
<1>1. \A q \in ParentsOf(S) : q \in objects /\ q.kind = "organization"
  BY ParentKinds DEF ParentsOf
<1>2. PICK q \in ParentsOf(S) : MemberAbove(u, q, min)
  BY <1>1, OrgRole DEF require_project_role
<1> QED  BY <1>2, ParentOrg DEF MemberAbove

LEMMA InProjectRole ==
  ASSUME RowsRooted, NEW S \in SUBSET objects, NEW u, NEW min,
         \A r \in S : r.kind \in {"environment", "flag", "segment"},
         require_project_role(u, ParentsOf(S), min)
  PROVE  \E r \in S : MemberAbove(u, r, min)
<1>1. \A q \in ParentsOf(S) : q \in objects /\ q.kind = "project"
  BY ParentKinds DEF ParentsOf
<1>2. PICK q \in ParentsOf(S) : MemberAbove(u, q, min)
  BY <1>1, ProjectRole
<1> QED  BY <1>2, ParentOrg DEF MemberAbove

LEMMA InEnvironmentRole ==
  ASSUME RowsRooted, NEW S \in SUBSET objects, NEW u, NEW min,
         \A r \in S : r.kind \in Leaves, require_environment_role(u, ParentsOf(S), min)
  PROVE  \E r \in S : MemberAbove(u, r, min)
<1>1. \A q \in ParentsOf(S) : q \in objects /\ q.kind = "environment"
  BY ParentKinds DEF ParentsOf
<1>2. PICK q \in ParentsOf(S) : MemberAbove(u, q, min)
  BY <1>1, InProjectRole DEF require_environment_role
<1> QED  BY <1>2, ParentOrg DEF MemberAbove

LEMMA AllowedMember ==
  ASSUME RowsRooted, NEW u, NEW id, NEW e \in Endpoints, Allowed(u, id, e)
  PROVE  \E r \in RowOf(id) : r.kind = e.on /\ MemberAbove(u, r, e.min)
<1> DEFINE S == {r \in RowOf(id) : r.kind = e.on}
<1>0. S \subseteq objects /\ \A r \in S : r.kind = e.on /\ r \in RowOf(id)  BY DEF RowOf
<1>1. e.on \in {"organization", "project", "environment", "flag", "segment"} \cup Leaves
  BY EndpointFacts DEF EndpointOK
<1>2. \E r \in S : MemberAbove(u, r, e.min)
  <2>1. CASE e.on = "organization"
    <3>1. require_org_role(u, S, e.min)  BY <2>1 DEF Allowed
    <3> QED  BY <3>1, <2>1, <1>0, OrgRole
  <2>2. CASE e.on = "project"
    <3>1. require_project_role(u, S, e.min)  BY <2>2 DEF Allowed
    <3> QED  BY <3>1, <2>2, <1>0, ProjectRole
  <2>3. CASE e.on \in {"environment", "flag", "segment"}
    <3>1. require_project_role(u, ParentsOf(S), e.min)
      BY <2>3 DEF Allowed, require_environment_role, require_flag_role
    <3> HIDE DEF S
    <3> QED  BY <3>1, <2>3, <1>0, InProjectRole
  <2>4. CASE e.on \in Leaves
    <3>1. require_environment_role(u, ParentsOf(S), e.min)
      BY <2>4 DEF Allowed, Leaves, require_api_key_role, require_namespace_role,
                  require_change_request_role
    <3> HIDE DEF S
    <3> QED  BY <3>1, <2>4, <1>0, InEnvironmentRole
  <2> QED  BY <1>1, <2>1, <2>2, <2>3, <2>4
<1> QED  BY <1>0, <1>2

-----------------------------------------------------------------------------
(* Steps that leave the tables alone.                                       *)

\* What is settled stays so.
SettledStays == \A n \in Int : Settled(n) => Settled(n)'

LEMMA NoRequestOK == NoRequest \in RequestRecords
<1>1. NoRow \in Ids
  <2>1. 0 \in Nat /\ "none" \in Names  BY DEF Names
  <2> QED  BY <2>1 DEF NoRow, Ids
<1>2. "VIEWER" \in Roles  BY Ranks
<1> QED  BY <1>1, <1>2 DEF NoRequest, RequestRecords

LEMMA InitHolds == TenancyInit => TenancyInv
<1> SUFFICES ASSUME TenancyInit PROVE TenancyInv
  OBVIOUS
<1> USE TenancyAssumption DEF TenancyInit
<1>1. TenancyShapes
  <2>1. \A r \in FirstRows : r.id \in Ids
    BY DEF Ids, Names
  <2>2. \A r \in FirstRows : r.kind \in RowKinds /\ r.parent \in Ids
    BY <2>1, NoRequestOK DEF Rooted, BelongsTo, RowKinds, Leaves, NoRequest, RequestRecords
  <2>3. objects \subseteq ObjectRows  BY <2>1, <2>2 DEF ObjectRows
  <2>4. members \subseteq MemberRows /\ IsFiniteSet(members)
    BY <2>1 DEF MemberRows
  <2> QED  BY <2>3, <2>4, NoRequestOK DEF TenancyShapes
<1>2. \A w \in Handlers : request[w].n = 0 /\ ~Serving(w)
  BY DEF NoRequest, Serving
<1>3. HandlerNumbers
  BY <1>2 DEF HandlerNumbers
<1>4. \A n \in Int : n <= 0 => Settled(n)
  BY <1>2 DEF Settled
<1>5. RowsRooted
  <2>1. \A r \in objects : r.id[1] = 0  OBVIOUS
  <2> QED  BY <1>4, <2>1 DEF RowsRooted
<1>6. MembersUnique
  BY <1>4 DEF MembersUnique, RowOf
<1>7. SettingsCoherent /\ SettingsComplete
  BY DEF SettingsCoherent, SettingsComplete
<1>8. \A w \in Handlers : HandlerInv(w)
  BY <1>2 DEF HandlerInv, Aims, EnvironmentsRead, MemberRead, StillAllowed
<1> QED  BY <1>1, <1>3, <1>5, <1>6, <1>7, <1>8 DEF TenancyInv

\* A request that is not running has nothing to keep.
LEMMA HandlerIdles ==
  ASSUME NEW v, ~Serving(v)'
  PROVE  HandlerInv(v)'
BY DEF HandlerInv, Aims, EnvironmentsRead, MemberRead, StillAllowed, Serving

\* A request that does not move, while the tables stay.
LEMMA OtherKeeps ==
  ASSUME TenancyShapes, NEW v \in Handlers, HandlerInv(v), request'[v] = request[v],
         objects' = objects, members' = members, raced \subseteq raced', SettledStays
  PROVE  HandlerInv(v)'
<1>0. request[v] \in RequestRecords  BY DEF TenancyShapes
<1>1. Aims(v)'
  BY <1>0 DEF HandlerInv, Aims, Serving, Does, RowOf, SettledStays, Settled, RequestRecords, Ids
<1>2. EnvironmentsRead(v)'
  BY DEF HandlerInv, EnvironmentsRead, Serving
<1>3. MemberRead(v)'
  <2> SUFFICES ASSUME Serving(v) PROVE MemberRead(v)'
    BY DEF MemberRead, Serving
  <2>1. \A q \in request[v].loaded : q.id \in Int  BY <1>0 DEF RequestRecords, MemberRows
  <2>2. \A q \in request[v].loaded : Settled(q.id)'
    BY <2>1 DEF HandlerInv, MemberRead, SettledStays
  <2> QED  BY <2>2 DEF HandlerInv, MemberRead, Serving, Does
<1>4. StillAllowed(v)'
  BY DEF HandlerInv, StillAllowed, Serving, Does, LosesOwner, Owners, Allowed, RowOf, ParentsOf,
         require_org_role, require_project_role, require_environment_role, require_api_key_role,
         require_flag_role, require_namespace_role, require_change_request_role
<1> QED  BY <1>1, <1>2, <1>3, <1>4 DEF HandlerInv

LEMMA TablesKeep ==
  ASSUME TenancyInv, objects' = objects, settings' = settings, members' = members,
         raced \subseteq raced', SettledStays
  PROVE  RowsRooted' /\ MembersUnique' /\ SettingsCoherent' /\ SettingsComplete'
<1> USE DEF TenancyInv
<1>1. RowsRooted'
  <2>1. \A r \in objects : r.id[1] \in Int  BY DEF TenancyShapes, ObjectRows, Ids
  <2>2. \A r \in objects : Settled(r.id[1])'  BY <2>1 DEF RowsRooted, SettledStays
  <2> QED  BY <2>2 DEF RowsRooted
<1>2. MembersUnique'
  <2>1. \A m \in members : m.id \in Int  BY DEF TenancyShapes, MemberRows
  <2>2. \A m \in members : Settled(m.id)'  BY <2>1 DEF MembersUnique, SettledStays
  <2> QED  BY <2>2 DEF MembersUnique, RowOf
<1>3. SettingsCoherent'
  BY DEF SettingsCoherent, SameProject, RowOf
<1>4. SettingsComplete'
  BY DEF SettingsComplete
<1> QED  BY <1>1, <1>2, <1>3, <1>4

\* A step of one request that writes nothing.
LEMMA LocalKeeps ==
  ASSUME TenancyInv, NEW w \in Handlers, Serving(w), NEW q \in RequestRecords,
         request' = [request EXCEPT ![w] = q],
         UNCHANGED <<objects, settings, members, handled, raced>>,
         (q.pc = "idle" /\ q.n = 0) \/ q.n = request[w].n,
         HandlerInv(w)'
  PROVE  TenancyInv'
<1> USE DEF TenancyInv
<1>0. /\ request'[w] = q
      /\ \A v \in Handlers : v # w => request'[v] = request[v]
  BY DEF TenancyShapes
<1>1. TenancyShapes'
  BY DEF TenancyShapes
<1>2. SettledStays
  BY <1>0 DEF SettledStays, Settled, Serving
<1>3. HandlerNumbers'
  BY <1>0 DEF HandlerNumbers, Serving, TenancyShapes
<1>4. RowsRooted' /\ MembersUnique' /\ SettingsCoherent' /\ SettingsComplete'
  BY <1>2, TablesKeep
<1>5. \A v \in Handlers : HandlerInv(v)'
  BY <1>0, <1>2, OtherKeeps
<1> QED  BY <1>1, <1>3, <1>4, <1>5

LEMMA StopKeeps ==
  ASSUME TenancyInv, NEW w \in Handlers, Serving(w), StopUnchanged(w)
  PROVE  TenancyInv'
<1>1. request' = [request EXCEPT ![w] = NoRequest]  BY DEF StopUnchanged, Stop
<1>2. NoRequest.pc = "idle" /\ NoRequest.n = 0  BY DEF NoRequest
<1>3. request'[w] = NoRequest  BY <1>1 DEF TenancyInv, TenancyShapes
<1>4. HandlerInv(w)'
  BY <1>2, <1>3, HandlerIdles DEF Serving
<1> QED  BY <1>1, <1>2, <1>4, NoRequestOK, LocalKeeps DEF StopUnchanged

\* The fields of a request, and what its endpoint may be.
LEMMA RequestFacts ==
  ASSUME TenancyInv, NEW w \in Handlers
  PROVE  /\ request[w] \in RequestRecords /\ request[w].n \in Nat
         /\ Serving(w) => /\ request[w].doing \in Endpoints \cup {CreateOrganization}
                       /\ Settled(request[w].row[1]) /\ Settled(request[w].env[1])
         /\ request[w].row \in Ids /\ request[w].env \in Ids
         /\ request[w].row[1] \in Int /\ request[w].env[1] \in Int
         /\ request[w].loaded \subseteq MemberRows /\ request[w].envs \subseteq ObjectRows
BY DEF TenancyInv, TenancyShapes, RequestRecords, HandlerInv, Aims, Ids

LEMMA ReadMemberKeeps ==
  ASSUME TenancyInv, NEW w \in Handlers, ReadMember(w)
  PROVE  TenancyInv'
<1>0. Serving(w) /\ request[w].pc = "read" /\ Does(w) \in Keeps
  BY DEF ReadMember, Serving, Does
<1>1. CASE StopUnchanged(w)
  BY <1>0, <1>1, StopKeeps
<1>2. CASE ~StopUnchanged(w)
  <2> DEFINE L == Loaded(w)
             loses == \E m \in L : m.role = "OWNER"
                        /\ (request[w].doing.does = "change" => request[w].role # "OWNER")
             q == [request[w] EXCEPT !.loaded = L, !.pc = IF loses THEN "count" ELSE "commit"]
  <2>1. /\ request' = [request EXCEPT ![w] = q]
        /\ (L = {}) <=> (Does(w) = "add")
        /\ UNCHANGED <<objects, settings, members, handled, raced>>
    BY <1>2, <1>0 DEF ReadMember, TenancyInv, TenancyShapes, RequestRecords, Does, Loaded
  <2>2. /\ L \subseteq members \/ L = request[w].loaded
        /\ \A m \in L : m.org = request[w].row /\ m.user = request[w].target /\ Settled(m.id)
        /\ \A m \in L, k \in members : k.id = m.id => k.org = m.org /\ k.user = m.user
    <3>1. CASE L = request[w].loaded /\ request[w].target = request[w].user
      <4> HIDE DEF L
      <4> QED  BY <3>1, <1>0 DEF TenancyInv, HandlerInv, MemberRead
    <3>2. CASE L = {m \in members : m.org = request[w].row /\ m.user = request[w].target}
      <4> HIDE DEF L
      <4> QED  BY <3>2 DEF TenancyInv, MembersUnique
    <3> QED  BY <3>1, <3>2 DEF Loaded
  <2>3. L \subseteq MemberRows
    BY <2>2, RequestFacts DEF TenancyInv, TenancyShapes
  <2> HIDE DEF L, loses
  <2>4. /\ q \in RequestRecords /\ q.n = request[w].n /\ q.loaded = L
        /\ q.pc = IF loses THEN "count" ELSE "commit"
        /\ q.row = request[w].row /\ q.env = request[w].env /\ q.doing = request[w].doing
        /\ q.envs = request[w].envs /\ q.user = request[w].user /\ q.target = request[w].target
        /\ q.role = request[w].role /\ q.alone = request[w].alone
    BY <2>3, RequestFacts DEF RequestRecords
  <2>5. request'[w] = q  BY <2>1 DEF TenancyInv, TenancyShapes
  <2> HIDE DEF q
  <2>6. Settled(request[w].row[1])' /\ Settled(request[w].env[1])'
        /\ \A m \in L : Settled(m.id)'
    <3>1. \A n \in Int : Settled(n) => Settled(n)'
      <4>1. \A v \in Handlers : request'[v].n = request[v].n /\ (Serving(v)' => Serving(v))
        BY <2>1, <2>4, <1>0 DEF TenancyInv, TenancyShapes, Serving
      <4> QED  BY <4>1, <2>1 DEF Settled
    <3>2. \A m \in L : m.id \in Int  BY <2>3 DEF MemberRows
    <3>3. request'[w].row = request[w].row /\ request'[w].env = request[w].env
      BY <2>4, <2>5
    <3> QED  BY <3>1, <3>2, <3>3, <2>2, <1>0, RequestFacts DEF Settled
  <2>7. HandlerInv(w)
    BY DEF TenancyInv
  <2>8. Aims(w)'
    BY <2>1, <2>4, <2>5, <2>6, <2>7, <1>0 DEF HandlerInv, Aims, Serving, Does, RowOf
  <2>9. request[w].doing.child # "flag"
    <3>1. request[w].doing \in Endpoints
      BY <1>0, RequestFacts, Fields DEF Does, Keeps
    <3> QED  BY <3>1, <1>0, EndpointFacts DEF EndpointOK, Does, Keeps
  <2>10. EnvironmentsRead(w)'
    BY <2>1, <2>4, <2>5, <2>7, <2>9, <1>0 DEF HandlerInv, EnvironmentsRead, Serving
  <2>11. loses => Does(w) \in {"change", "expel"}
    BY <2>1, <1>0 DEF loses, Keeps
  <2>12. MemberRead(w)'
    BY <2>1, <2>2, <2>4, <2>5, <2>6, <2>7, <2>11, <1>0 DEF HandlerInv, MemberRead, Serving, Does
  <2>13. StillAllowed(w)'
    <3>1. request[w].alone => L \subseteq members
      BY <2>2, <2>7, <1>0 DEF HandlerInv, StillAllowed
    <3>2. loses <=> LosesOwner(w)'
      BY <2>4, <2>5 DEF LosesOwner, Does, loses
    <3>3. (request'[w].pc = "commit" /\ LosesOwner(w)') => FALSE
      BY <2>4, <2>5, <3>2
    <3>4. request[w].doing # CreateOrganization
      BY <1>0, Fields DEF Does, Keeps
    <3>5. Does(w) # "configure"
      BY <1>0 DEF Keeps
    <3>6. request'[w].alone => StillAllowed(w) /\ Allowed(request[w].user, request[w].row, request[w].doing)
      BY <3>4, <2>4, <2>5, <2>7, <1>0 DEF HandlerInv, StillAllowed
    <3>7. Allowed(request[w].user, request[w].row, request[w].doing) =>
            Allowed(request[w].user, request[w].row, request[w].doing)'
      BY <2>1, <2>4, <2>5
      DEF Allowed, RowOf, ParentsOf,
         require_org_role, require_project_role, require_environment_role, require_api_key_role,
         require_flag_role, require_namespace_role, require_change_request_role
    <3>8. Does(w)' # "configure"
      BY <3>5, <2>4, <2>5 DEF Does
    <3>9. request'[w].alone => request'[w].loaded \subseteq members'
      BY <3>1, <2>1, <2>4, <2>5
    <3> QED
      BY <3>3, <3>6, <3>7, <3>8, <3>9 DEF StillAllowed
  <2>14. HandlerInv(w)'
    BY <2>8, <2>10, <2>12, <2>13 DEF HandlerInv
  <2> QED  BY <2>1, <2>4, <2>14, <1>0, LocalKeeps
<1> QED  BY <1>1, <1>2

LEMMA CountOwnersKeeps ==
  ASSUME TenancyInv, NEW w \in Handlers, CountOwners(w)
  PROVE  TenancyInv'
<1>0. Serving(w) /\ request[w].pc = "count"
  BY DEF CountOwners, Serving
<1>1. CASE StopUnchanged(w)
  BY <1>0, <1>1, StopKeeps
<1>2. CASE ~StopUnchanged(w)
  <2> DEFINE q == [request[w] EXCEPT !.pc = "commit"]
  <2>1. /\ request' = [request EXCEPT ![w] = q]
        /\ ~(Cardinality(Owners(request[w].row)) <= 1)
        /\ UNCHANGED <<objects, settings, members, handled, raced>>
    BY <1>2 DEF CountOwners, TenancyInv, TenancyShapes
  <2>2. Cardinality(Owners(request[w].row)) > 1
    <3>1. IsFiniteSet(members)  BY DEF TenancyInv, TenancyShapes
    <3>2. IsFiniteSet(Owners(request[w].row))  BY <3>1, FS_Subset DEF Owners
    <3>3. Cardinality(Owners(request[w].row)) \in Nat  BY <3>2, FS_CardinalityType
    <3> QED  BY <3>3, <2>1
  <2>4. /\ q \in RequestRecords /\ q.n = request[w].n /\ q.loaded = request[w].loaded /\ q.pc = "commit"
        /\ q.row = request[w].row /\ q.env = request[w].env /\ q.doing = request[w].doing
        /\ q.envs = request[w].envs /\ q.user = request[w].user /\ q.target = request[w].target
        /\ q.role = request[w].role /\ q.alone = request[w].alone
    BY RequestFacts DEF RequestRecords
  <2>5. request'[w] = q  BY <2>1 DEF TenancyInv, TenancyShapes
  <2> HIDE DEF q
  <2>6. \A v \in Handlers : request'[v].n = request[v].n /\ (Serving(v)' => Serving(v))
    BY <2>1, <2>4, <1>0 DEF TenancyInv, TenancyShapes, Serving
  <2>7. HandlerInv(w)
    BY DEF TenancyInv
  <2>8. Does(w) \in {"change", "expel"} /\ request[w].doing.child # "flag"
    <3>1. Does(w) \in {"change", "expel"}
      BY <2>7, <1>0 DEF HandlerInv, MemberRead
    <3>2. request[w].doing \in Endpoints
      BY <3>1, <1>0, RequestFacts, Fields DEF Does
    <3> QED  BY <3>1, <3>2, EndpointFacts DEF EndpointOK, Does
  <2>9. Aims(w)'
    BY <2>1, <2>4, <2>5, <2>6, <2>7, <1>0 DEF HandlerInv, Aims, Serving, Does, RowOf, Settled
  <2>10. EnvironmentsRead(w)'
    BY <2>1, <2>4, <2>5, <2>7, <2>8, <1>0 DEF HandlerInv, EnvironmentsRead, Serving
  <2>11. MemberRead(w)'
    <3>1. \A m \in request[w].loaded : Settled(m.id)'
      BY <2>1, <2>6, <2>7, <1>0 DEF HandlerInv, MemberRead, Settled
    <3> QED  BY <3>1, <2>1, <2>4, <2>5, <2>7, <1>0 DEF HandlerInv, MemberRead, Serving, Does
  <2>12. StillAllowed(w)'
    <3>1. (Cardinality(Owners(request[w].row)) > 1)'
      BY <2>1, <2>2, <2>4, <2>5 DEF Owners
    <3> QED
      BY <3>1, <2>1, <2>4, <2>5, <2>7, <1>0
      DEF HandlerInv, StillAllowed, Serving, Does, Allowed, RowOf, ParentsOf,
         require_org_role, require_project_role, require_environment_role, require_api_key_role,
         require_flag_role, require_namespace_role, require_change_request_role
  <2>13. HandlerInv(w)'
    BY <2>9, <2>10, <2>11, <2>12 DEF HandlerInv
  <2> QED  BY <2>1, <2>4, <2>13, <1>0, LocalKeeps
<1> QED  BY <1>1, <1>2

LEMMA ReadEnvironmentsKeeps ==
  ASSUME TenancyInv, NEW w \in Handlers, ReadEnvironments(w)
  PROVE  TenancyInv'
<1>0. Serving(w) /\ request[w].pc = "read" /\ request[w].doing.child = "flag"
  BY DEF ReadEnvironments, Serving
<1> DEFINE E == {r \in objects : r.kind = "environment" /\ r.parent = request[w].row}
           q == [request[w] EXCEPT !.envs = E, !.pc = "commit"]
<1>1. /\ request' = [request EXCEPT ![w] = q]
      /\ UNCHANGED <<objects, settings, members, handled, raced>>
  BY DEF ReadEnvironments, TenancyInv, TenancyShapes, RequestRecords
<1>2. /\ E \subseteq ObjectRows
      /\ \A e \in E : e.kind = "environment" /\ e.parent = request[w].row
      /\ \A e \in objects : e.kind = "environment" /\ e.parent = request[w].row => e \in E
  BY DEF TenancyInv, TenancyShapes
<1> HIDE DEF E
<1>4. /\ q \in RequestRecords /\ q.n = request[w].n /\ q.loaded = request[w].loaded /\ q.pc = "commit"
      /\ q.row = request[w].row /\ q.env = request[w].env /\ q.doing = request[w].doing
      /\ q.envs = E /\ q.user = request[w].user /\ q.target = request[w].target
      /\ q.role = request[w].role /\ q.alone = request[w].alone
  BY <1>2, RequestFacts DEF RequestRecords
<1>5. request'[w] = q  BY <1>1 DEF TenancyInv, TenancyShapes
<1> HIDE DEF q
<1>6. \A v \in Handlers : request'[v].n = request[v].n /\ (Serving(v)' => Serving(v))
  BY <1>1, <1>4, <1>0 DEF TenancyInv, TenancyShapes, Serving
<1>7. HandlerInv(w)
  BY DEF TenancyInv
<1>8. Does(w) = "create"
  <2>1. CASE request[w].doing \in Endpoints
    BY <2>1, <1>0, EndpointFacts DEF EndpointOK, Does
  <2>2. CASE request[w].doing = CreateOrganization
    BY <2>2, <1>0, Fields
  <2> QED  BY <2>1, <2>2, <1>0, RequestFacts
<1>9. Aims(w)'
  BY <1>1, <1>4, <1>5, <1>6, <1>7, <1>0 DEF HandlerInv, Aims, Serving, Does, RowOf, Settled
<1>10. EnvironmentsRead(w)'
  BY <1>1, <1>2, <1>4, <1>5, <1>0 DEF EnvironmentsRead, Serving
<1>11. MemberRead(w)'
  <2>1. request[w].loaded = {} /\ request[w].user \in People /\ Does(w) \notin Keeps
    BY <1>7, <1>8, <1>0 DEF HandlerInv, MemberRead, Keeps
  <2> QED  BY <2>1, <1>4, <1>5, <1>0 DEF MemberRead, Serving, Does
<1>12. StillAllowed(w)'
  BY <1>1, <1>4, <1>5, <1>7, <1>8, <1>0
  DEF HandlerInv, StillAllowed, Serving, Does, Allowed, RowOf, ParentsOf,
     require_org_role, require_project_role, require_environment_role, require_api_key_role,
     require_flag_role, require_namespace_role, require_change_request_role
<1>13. HandlerInv(w)'
  BY <1>9, <1>10, <1>11, <1>12 DEF HandlerInv
<1> QED  BY <1>1, <1>4, <1>13, <1>0, LocalKeeps

-----------------------------------------------------------------------------
(* A request begins.                                                        *)

LEMMA BeginFacts ==
  ASSUME TenancyInv, NEW w \in Handlers, ~Serving(w), NEW q \in RequestRecords, q.pc # "idle", Begin(w, q)
  PROVE  /\ request'[w] \in RequestRecords /\ request'[w].n = handled + 1 /\ Serving(w)'
         /\ request'[w].pc = q.pc /\ request'[w].user = q.user /\ request'[w].row = q.row
         /\ request'[w].env = q.env /\ request'[w].doing = q.doing
         /\ request'[w].target = q.target /\ request'[w].role = q.role
         /\ request'[w].loaded = q.loaded /\ request'[w].envs = q.envs
         /\ request'[w].alone = q.alone
         /\ \A v \in Handlers : v # w => request'[v] = request[v]
         /\ request' \in [Handlers -> RequestRecords]
         /\ UNCHANGED <<objects, settings, members>> /\ handled' = handled + 1
         /\ raced \subseteq raced'
         /\ \A v \in Handlers : Serving(v) => {request[v].n, handled + 1} \in raced'
         /\ SettledStays
<1> USE DEF TenancyInv, TenancyShapes
<1> DEFINE m == handled + 1
           r == [q EXCEPT !.n = m]
<1>0. m \in Nat  OBVIOUS
<1>1. /\ request' = [request EXCEPT ![w] = r]
      /\ UNCHANGED <<objects, settings, members>> /\ handled' = m
      /\ raced' = raced \cup {{m, request[v].n} : v \in Busy}
  BY DEF Begin
<1> HIDE DEF m
<1>2. /\ r \in RequestRecords /\ r.n = m /\ r.pc = q.pc /\ r.user = q.user /\ r.row = q.row
      /\ r.env = q.env /\ r.doing = q.doing /\ r.target = q.target /\ r.role = q.role
      /\ r.loaded = q.loaded /\ r.envs = q.envs /\ r.alone = q.alone
  BY <1>0 DEF RequestRecords
<1> HIDE DEF r
<1>3. /\ request'[w] = r /\ \A v \in Handlers : v # w => request'[v] = request[v]
      /\ request' \in [Handlers -> RequestRecords]
  BY <1>1, <1>2
<1>4. Serving(w)'
  BY <1>2, <1>3 DEF Serving
<1>5. \A v \in Handlers : Serving(v) => {request[v].n, m} \in raced'
  <2> SUFFICES ASSUME NEW v \in Handlers, Serving(v) PROVE {request[v].n, m} \in raced'
    OBVIOUS
  <2>1. v \in Busy  BY DEF Busy, Serving
  <2>2. {m, request[v].n} \in {{m, request[x].n} : x \in Busy}  BY <2>1
  <2>3. {m, request[v].n} = {request[v].n, m}  OBVIOUS
  <2> QED  BY <2>2, <2>3, <1>1
<1>6. SettledStays
  BY <1>0, <1>1, <1>2, <1>3 DEF SettledStays, Settled, Serving, m
<1> QED  BY <1>1, <1>2, <1>3, <1>4, <1>5, <1>6 DEF m

LEMMA BeginKeeps ==
  ASSUME TenancyInv, NEW w \in Handlers, ~Serving(w), NEW q \in RequestRecords, q.pc # "idle", Begin(w, q),
         HandlerInv(w)'
  PROVE  TenancyInv'
<1>0. /\ request'[w].n = handled + 1 /\ Serving(w)'
      /\ \A v \in Handlers : v # w => request'[v] = request[v]
      /\ request' \in [Handlers -> RequestRecords]
      /\ UNCHANGED <<objects, settings, members>> /\ handled' = handled + 1
      /\ raced \subseteq raced'
      /\ \A v \in Handlers : Serving(v) => {request[v].n, handled + 1} \in raced'
      /\ SettledStays
  BY BeginFacts
<1> HIDE DEF Begin
<1>1. TenancyShapes'
  BY <1>0 DEF TenancyInv, TenancyShapes
<1>2. HandlerNumbers'
  <2>0. handled \in Nat /\ HandlerNumbers /\ \A v \in Handlers : request[v].n \in Nat
    BY RequestFacts DEF TenancyInv, TenancyShapes
  <2>1. \A v \in Handlers : request'[v].n \in 0..handled' /\ (Serving(v)' => request'[v].n # 0)
    BY <1>0, <2>0 DEF HandlerNumbers, Serving
  <2>2. \A v, x \in Handlers : v # x /\ Serving(v)' /\ Serving(x)' => request'[v].n # request'[x].n
    BY <1>0, <2>0 DEF HandlerNumbers, Serving
  <2>3. ASSUME NEW v \in Handlers, Serving(v)', NEW k \in (request'[v].n + 1)..handled'
        PROVE  {request'[v].n, k} \in raced'
    <3>1. CASE v = w
      BY <3>1, <1>0, <2>0
    <3>2. CASE v # w /\ k = handled + 1
      BY <3>2, <1>0, <2>3 DEF Serving
    <3>3. CASE v # w /\ k # handled + 1
      <4>1. k \in (request[v].n + 1)..handled /\ Serving(v)
        BY <3>3, <1>0, <2>0, <2>3 DEF Serving
      <4>2. {request[v].n, k} \in raced
        BY <4>1, <2>0 DEF HandlerNumbers
      <4> QED  BY <4>2, <3>3, <1>0
    <3> QED  BY <3>1, <3>2, <3>3
  <2> QED  BY <2>1, <2>2, <2>3 DEF HandlerNumbers
<1>3. RowsRooted' /\ MembersUnique' /\ SettingsCoherent' /\ SettingsComplete'
  BY <1>0, TablesKeep
<1>4. \A v \in Handlers : HandlerInv(v)'
  <2>1. ASSUME NEW v \in Handlers, v # w PROVE HandlerInv(v)'
    BY <2>1, <1>0, OtherKeeps DEF TenancyInv
  <2> QED  BY <2>1
<1> QED  BY <1>1, <1>2, <1>3, <1>4 DEF TenancyInv

LEMMA NoRowSettled ==
  ASSUME TenancyInv
  PROVE  NoRow \in Ids /\ Settled(NoRow[1]) /\ RowOf(NoRow) = {}
<1>1. NoRow \in Ids  BY NoRequestOK DEF NoRequest, RequestRecords
<1>2. Settled(0)
  BY DEF TenancyInv, TenancyShapes, HandlerNumbers, Settled
<1> QED  BY <1>1, <1>2 DEF NoRow, TenancyInv, RowsRooted, RowOf

LEMMA StartOrganizationKeeps ==
  ASSUME TenancyInv, NEW w \in Handlers, ~Serving(w), NEW u \in People, StartOrganization(w, u)
  PROVE  TenancyInv'
<1> DEFINE q == [NoRequest EXCEPT !.pc = "commit", !.user = u, !.doing = CreateOrganization]
<1>1. Begin(w, q)  BY DEF StartOrganization, CreateOrganization
<1>2. /\ q \in RequestRecords /\ q.pc = "commit" /\ q.row = NoRow /\ q.env = NoRow
      /\ q.doing = CreateOrganization /\ q.loaded = {} /\ q.envs = {} /\ q.user = u
  BY NoRequestOK DEF NoRequest, RequestRecords
<1> HIDE DEF q
<1>3. /\ request'[w].pc = "commit" /\ request'[w].row = NoRow /\ request'[w].env = NoRow
      /\ request'[w].doing = CreateOrganization /\ request'[w].loaded = {}
      /\ request'[w].envs = {} /\ request'[w].user = u
      /\ UNCHANGED <<objects, members>> /\ SettledStays
  BY <1>1, <1>2, BeginFacts
<1>4. CreateOrganization.does = "create" /\ CreateOrganization.child = "organization"
      /\ CreateOrganization # NoEndpoint
  BY Fields
<1>5. RowOf(NoRow)' = {} /\ Settled(NoRow[1])'
  BY <1>3, NoRowSettled DEF SettledStays, RowOf, NoRow
<1>6. Aims(w)'
  BY <1>3, <1>4, <1>5 DEF Aims, Does, Settles, RowOf, Settled
<1>7. EnvironmentsRead(w)'
  BY <1>3, <1>4 DEF EnvironmentsRead
<1>8. MemberRead(w)'
  BY <1>3, <1>4 DEF MemberRead, Does, Keeps
<1>9. StillAllowed(w)'
  BY <1>3, <1>4 DEF StillAllowed, Does
<1>10. HandlerInv(w)'  BY <1>6, <1>7, <1>8, <1>9 DEF HandlerInv
<1> QED  BY <1>1, <1>2, <1>10, BeginKeeps

\* What a request that names a row has of it.
LEMMA RowOfOne ==
  ASSUME TenancyInv, NEW r \in objects
  PROVE  r.id \in Ids /\ r.id[1] \in Int /\ Settled(r.id[1]) /\ r.id # NoRow /\ RowOf(r.id) = {r}
BY DEF TenancyInv, TenancyShapes, ObjectRows, Ids, RowsRooted, RowOf

LEMMA StartHandlerKeeps ==
  ASSUME TenancyInv, NEW w \in Handlers, ~Serving(w), NEW u \in People, NEW r \in objects,
         NEW e \in Of(r, {"create", "delete", "write"}), StartHandler(w, u, r.id, e)
  PROVE  TenancyInv'
<1> DEFINE pc == IF e.child = "flag" THEN "read" ELSE "commit"
           q == [NoRequest EXCEPT !.pc = pc, !.user = u, !.row = r.id, !.doing = e]
<1>1. Begin(w, q) /\ Allowed(u, r.id, e)  BY DEF StartHandler
<1>2. e \in Endpoints /\ e.on = r.kind /\ e.does \in {"create", "delete", "write"}
  BY DEF Of
<1>3. /\ q \in RequestRecords /\ q.pc = pc /\ q.row = r.id /\ q.env = NoRow /\ q.user = u
      /\ q.doing = e /\ q.loaded = {} /\ q.envs = {}
  BY <1>2, NoRequestOK, RowOfOne DEF NoRequest, RequestRecords
<1> HIDE DEF q
<1>4. /\ request'[w].pc = pc /\ request'[w].row = r.id /\ request'[w].env = NoRow
      /\ request'[w].doing = e /\ request'[w].loaded = {} /\ request'[w].user = u
      /\ request'[w].envs = {} /\ UNCHANGED <<objects, members>> /\ SettledStays
  BY <1>1, <1>3, BeginFacts
<1>5. e.does \notin Settles \cup Keeps /\ e # CreateOrganization /\ e # NoEndpoint
  BY <1>2, EndpointFacts DEF EndpointOK, Settles, Keeps
<1>6. Settled(r.id[1])' /\ Settled(NoRow[1])' /\ RowOf(r.id) = {r}
  BY <1>4, NoRowSettled, RowOfOne DEF SettledStays, NoRow
<1>7. Aims(w)'
  BY <1>2, <1>4, <1>5, <1>6 DEF Aims, Does, Settles, RowOf, Settled
<1>8. EnvironmentsRead(w)'
  BY <1>4 DEF EnvironmentsRead
<1>9. MemberRead(w)'
  BY <1>4, <1>5 DEF MemberRead, Does
<1>10. StillAllowed(w)'
  <2>1. Allowed(u, r.id, e)'
    BY <1>1, <1>4
    DEF Allowed, RowOf, ParentsOf,
       require_org_role, require_project_role, require_environment_role, require_api_key_role,
       require_flag_role, require_namespace_role, require_change_request_role
  <2>2. Does(w)' \notin {"configure", "change", "expel"}
    BY <1>4, <1>5 DEF Does, Settles, Keeps
  <2>3. Allowed(request[w].user, request[w].row, request[w].doing)'
    BY <2>1, <1>4 DEF Allowed, RowOf, ParentsOf,
       require_org_role, require_project_role, require_environment_role, require_api_key_role,
       require_flag_role, require_namespace_role, require_change_request_role
  <2> QED  BY <2>2, <2>3, <1>4 DEF StillAllowed
<1>11. HandlerInv(w)'  BY <1>7, <1>8, <1>9, <1>10 DEF HandlerInv
<1> QED  BY <1>1, <1>3, <1>11, BeginKeeps DEF pc

LEMMA StartMemberKeeps ==
  ASSUME TenancyInv, NEW w \in Handlers, ~Serving(w), NEW u \in People, NEW r \in objects,
         NEW e \in Of(r, Keeps), NEW target \in People, NEW role \in Roles,
         StartMember(w, u, r.id, e, target, role)
  PROVE  TenancyInv'
<1> DEFINE L == {m \in members : m.org = r.id /\ m.user = u}
           q == [NoRequest EXCEPT !.pc = "read", !.user = u, !.row = r.id, !.doing = e,
                   !.target = target, !.role = role, !.loaded = L]
<1>1. Begin(w, q) /\ Allowed(u, r.id, e)  BY DEF StartMember
<1>2. e \in Endpoints /\ e.on = r.kind /\ e.does \in Keeps
  BY DEF Of
<1>3. /\ L \subseteq MemberRows /\ L \subseteq members
      /\ \A m \in L : m.org = r.id /\ m.user = u
  BY DEF TenancyInv, TenancyShapes
<1> HIDE DEF L
<1>4. /\ q \in RequestRecords /\ q.pc = "read" /\ q.row = r.id /\ q.env = NoRow /\ q.user = u
      /\ q.doing = e /\ q.loaded = L /\ q.envs = {} /\ q.target = target
  BY <1>2, <1>3, NoRequestOK, RowOfOne DEF NoRequest, RequestRecords
<1> HIDE DEF q
<1>5. /\ request'[w].pc = "read" /\ request'[w].row = r.id /\ request'[w].env = NoRow
      /\ request'[w].doing = e /\ request'[w].loaded = L /\ request'[w].user = u
      /\ request'[w].envs = {} /\ request'[w].target = target
      /\ UNCHANGED <<objects, members>> /\ SettledStays
  BY <1>1, <1>4, BeginFacts
<1>6. e.does \notin Settles \cup {"create"} /\ e # CreateOrganization /\ e # NoEndpoint
  BY <1>2, EndpointFacts DEF EndpointOK, Settles, Keeps
<1>7. Settled(r.id[1])' /\ Settled(NoRow[1])' /\ RowOf(r.id) = {r}
  BY <1>5, NoRowSettled, RowOfOne DEF SettledStays, NoRow
<1>8. Aims(w)'
  BY <1>2, <1>5, <1>6, <1>7 DEF Aims, Does, Settles, RowOf, Settled
<1>9. EnvironmentsRead(w)'
  BY <1>5 DEF EnvironmentsRead
<1>10. MemberRead(w)'
  <2>1. \A m \in L : Settled(m.id)'
    BY <1>3, <1>5 DEF TenancyInv, MembersUnique, SettledStays, MemberRows
  <2>2. \A m \in L, k \in members : k.id = m.id => k = m
    BY <1>3 DEF TenancyInv, MembersUnique
  <2> QED  BY <2>1, <2>2, <1>2, <1>3, <1>5 DEF MemberRead, Does
<1>11. StillAllowed(w)'
  <2>1. Allowed(request[w].user, request[w].row, request[w].doing)'
    BY <1>1, <1>5
    DEF Allowed, RowOf, ParentsOf,
       require_org_role, require_project_role, require_environment_role, require_api_key_role,
       require_flag_role, require_namespace_role, require_change_request_role
  <2>2. Does(w)' # "configure"
    BY <1>5, <1>6 DEF Does, Settles
  <2> QED  BY <2>1, <2>2, <1>3, <1>5 DEF StillAllowed
<1>12. HandlerInv(w)'  BY <1>8, <1>9, <1>10, <1>11 DEF HandlerInv
<1> QED  BY <1>1, <1>4, <1>12, BeginKeeps

LEMMA StartSettingKeeps ==
  ASSUME TenancyInv, NEW w \in Handlers, ~Serving(w), NEW u \in People, NEW r \in objects,
         NEW e \in Of(r, Settles), NEW x \in objects, StartSetting(w, u, r.id, x.id, e)
  PROVE  TenancyInv'
<1> DEFINE q == [NoRequest EXCEPT !.pc = "commit", !.user = u, !.row = r.id, !.env = x.id,
                   !.doing = e]
<1>1. /\ Begin(w, q) /\ Allowed(u, r.id, e)
      /\ e.does = "configure" =>
           require_environment_role(u, {y \in RowOf(x.id) : y.kind = "environment"}, e.min)
      /\ e.does # "configure" => SameProject(r.id, x.id)
  BY DEF StartSetting
<1>2. e \in Endpoints /\ e.on = r.kind /\ e.does \in Settles
  BY DEF Of
<1>3. /\ q \in RequestRecords /\ q.pc = "commit" /\ q.row = r.id /\ q.env = x.id /\ q.user = u
      /\ q.doing = e /\ q.loaded = {} /\ q.envs = {}
  BY <1>2, NoRequestOK, RowOfOne DEF NoRequest, RequestRecords
<1> HIDE DEF q
<1>4. /\ request'[w].pc = "commit" /\ request'[w].row = r.id /\ request'[w].env = x.id
      /\ request'[w].doing = e /\ request'[w].loaded = {} /\ request'[w].user = u
      /\ request'[w].envs = {} /\ UNCHANGED <<objects, members>> /\ SettledStays
  BY <1>1, <1>3, BeginFacts
<1>5. /\ e.does \notin Keeps \cup {"create"} /\ e # CreateOrganization /\ e # NoEndpoint
      /\ e.child = "none"
  BY <1>2, EndpointFacts DEF EndpointOK, Settles, Keeps
<1>6. /\ Settled(r.id[1])' /\ Settled(x.id[1])' /\ RowOf(r.id) = {r} /\ RowOf(x.id) = {x}
  BY <1>4, RowOfOne DEF SettledStays
<1>7. x.kind = "environment" /\ (e.does # "configure" => r.parent = x.parent)
  <2>1. CASE e.does = "configure"
    <3>1. {y \in RowOf(x.id) : y.kind = "environment"} # {}
      BY <1>1, <2>1 DEF require_environment_role, require_project_role, require_org_role, ParentsOf
    <3> QED  BY <3>1, <1>6, <2>1
  <2>2. CASE e.does # "configure"
    BY <2>2, <1>1, <1>6 DEF SameProject
  <2> QED  BY <2>1, <2>2
<1>8. Aims(w)'
  BY <1>2, <1>4, <1>5, <1>6, <1>7 DEF Aims, Does, RowOf, Settled
<1>9. EnvironmentsRead(w)'
  BY <1>4, <1>5 DEF EnvironmentsRead
<1>10. MemberRead(w)'
  BY <1>4, <1>5 DEF MemberRead, Does
<1>11. StillAllowed(w)'
  <2>1. Allowed(request[w].user, request[w].row, request[w].doing)'
    BY <1>1, <1>4
    DEF Allowed, RowOf, ParentsOf,
       require_org_role, require_project_role, require_environment_role, require_api_key_role,
       require_flag_role, require_namespace_role, require_change_request_role
  <2>2. Does(w)' = "configure" =>
          require_environment_role(request[w].user,
            {y \in RowOf(request[w].env) : y.kind = "environment"}, request[w].doing.min)'
    BY <1>1, <1>4
    DEF Does, RowOf, ParentsOf, require_org_role, require_project_role, require_environment_role
  <2>3. Does(w)' \notin {"change", "expel"}
    BY <1>4, <1>5 DEF Does, Keeps
  <2> QED  BY <2>1, <2>2, <2>3, <1>4 DEF StillAllowed
<1>12. HandlerInv(w)'  BY <1>8, <1>9, <1>10, <1>11 DEF HandlerInv
<1> QED  BY <1>1, <1>3, <1>12, BeginKeeps

LEMMA StartRequestKeeps ==
  ASSUME TenancyInv, NEW w \in Handlers, StartRequest(w)
  PROVE  TenancyInv'
<1>1. ~Serving(w)  BY DEF StartRequest, Serving
<1>2. PICK u \in People :
        \/ StartOrganization(w, u)
        \/ \E r \in objects :
            \/ \E e \in Of(r, {"create", "delete", "write"}) : StartHandler(w, u, r.id, e)
            \/ \E e \in Of(r, Keeps), target \in People, role \in Roles :
                 StartMember(w, u, r.id, e, target, role)
            \/ \E e \in Of(r, Settles), q \in objects : StartSetting(w, u, r.id, q.id, e)
  BY DEF StartRequest
<1> QED
  BY <1>1, <1>2, StartOrganizationKeeps, StartHandlerKeeps, StartMemberKeeps, StartSettingKeeps

-----------------------------------------------------------------------------
(* A request commits.                                                       *)

\* What a commit of w leaves to the others: rows it adds bear its number, and
\* members it changes are the same persons.
AddsOwn(w) ==
  /\ \A r \in objects' : r \in objects \/ r.id[1] = request[w].n
  /\ \A m \in members' : m.id = request[w].n
                          \/ \E k \in members : k.id = m.id /\ k.org = m.org /\ k.user = m.user

LEMMA DoneFacts ==
  ASSUME TenancyInv, NEW w \in Handlers, Serving(w), Done(w)
  PROVE  /\ request' \in [Handlers -> RequestRecords] /\ ~Serving(w)'
         /\ \A v \in Handlers : v # w =>
              /\ request'[v] = [request[v] EXCEPT !.alone = FALSE]
              /\ request'[v].n = request[v].n /\ (Serving(v)' <=> Serving(v))
              /\ ~request'[v].alone
              /\ v # w /\ Serving(v) => request[v].n # request[w].n
         /\ handled' = handled /\ raced' = raced
         /\ HandlerNumbers' /\ SettledStays
         /\ request[w].n \in Nat \ {0} /\ ~Settled(request[w].n)
         /\ \A n \in Int : n = request[w].n => Settled(n)'
<1> USE DEF TenancyInv
<1>1. \A v \in Handlers : v # w =>
        /\ request'[v] = [request[v] EXCEPT !.alone = FALSE]
        /\ request'[v] \in RequestRecords
        /\ request'[v].n = request[v].n /\ (Serving(v)' <=> Serving(v)) /\ ~request'[v].alone
  BY RequestFacts DEF Done, Serving, RequestRecords
<1>2. request'[w] = NoRequest /\ NoRequest.n = 0 /\ ~Serving(w)'
  BY DEF Done, NoRequest, Serving
<1>3. request' \in [Handlers -> RequestRecords]
  <2>1. \A v \in Handlers : request'[v] \in RequestRecords  BY <1>1, <1>2, NoRequestOK
  <2>2. request' = [v \in Handlers |-> request'[v]]  BY DEF Done
  <2> QED  BY <2>1, <2>2
<1>4. handled' = handled /\ raced' = raced  BY DEF Done
<1>5. /\ request[w].n \in Nat \ {0} /\ ~Settled(request[w].n) /\ request[w].n <= handled
      /\ \A v \in Handlers : v # w /\ Serving(v) => request[v].n # request[w].n
  BY RequestFacts DEF HandlerNumbers, Settled, TenancyShapes
<1>6. \A v \in Handlers : Serving(v)' => v # w /\ Serving(v) /\ request'[v].n = request[v].n
  BY <1>1, <1>2
<1>7. SettledStays
  BY <1>4, <1>6 DEF SettledStays, Settled
<1>8. ASSUME NEW n \in Int, n = request[w].n PROVE Settled(n)'
  BY <1>4, <1>5, <1>8, <1>6 DEF Settled
<1>9. HandlerNumbers'
  <2>1. \A v \in Handlers : request'[v].n \in 0..handled' /\ (Serving(v)' => request'[v].n # 0)
    <3>1. \A v \in Handlers : request[v].n \in 0..handled /\ (Serving(v) => request[v].n # 0)
      BY DEF HandlerNumbers
    <3>2. \A v \in Handlers : v # w => request'[v].n = request[v].n  BY <1>1
    <3>3. request'[w].n = 0 /\ handled \in Nat  BY <1>2 DEF TenancyShapes
    <3> QED  BY <3>1, <3>2, <3>3, <1>4, <1>6
  <2>2. \A v, x \in Handlers : v # x /\ Serving(v)' /\ Serving(x)' => request'[v].n # request'[x].n
    BY <1>6 DEF HandlerNumbers
  <2>3. \A v \in Handlers : Serving(v)' =>
          \A k \in (request'[v].n + 1)..handled' : {request'[v].n, k} \in raced'
    BY <1>6, <1>4 DEF HandlerNumbers
  <2> QED  BY <2>1, <2>2, <2>3 DEF HandlerNumbers
<1> QED  BY <1>1, <1>2, <1>3, <1>4, <1>5, <1>7, <1>8, <1>9

LEMMA DoneOthers ==
  ASSUME TenancyInv, NEW w \in Handlers, Serving(w), Done(w), AddsOwn(w)
  PROVE  \A v \in Handlers : HandlerInv(v)'
<1>0. /\ ~Serving(w)' /\ SettledStays /\ raced' = raced /\ HandlerNumbers /\ handled \in Nat
      /\ request[w].n \in Nat \ {0} /\ ~Settled(request[w].n)
  BY DoneFacts DEF TenancyInv, TenancyShapes
<1>1. HandlerInv(w)'
  BY <1>0, HandlerIdles
<1>2. ASSUME NEW v \in Handlers, v # w, Serving(v), Serving(v)'
      PROVE  HandlerInv(v)'
  <2>0. /\ request'[v] = [request[v] EXCEPT !.alone = FALSE] /\ ~request'[v].alone
        /\ request[v].n # request[w].n /\ request[v] \in RequestRecords
    BY <1>2, DoneFacts, RequestFacts
  <2>1. /\ request'[v].pc = request[v].pc /\ request'[v].n = request[v].n
        /\ request'[v].row = request[v].row /\ request'[v].env = request[v].env
        /\ request'[v].doing = request[v].doing /\ request'[v].user = request[v].user
        /\ request'[v].target = request[v].target /\ request'[v].loaded = request[v].loaded
        /\ request'[v].envs = request[v].envs /\ ~request'[v].alone
    BY <2>0 DEF RequestRecords
  <2>2. /\ HandlerInv(v)
        /\ Settled(request[v].row[1]) /\ Settled(request[v].env[1])
        /\ request[v].row[1] \in Int /\ request[v].env[1] \in Int /\ request[v].n \in Nat
        /\ \A m \in request[v].loaded : m.id \in Int
    BY <1>2, RequestFacts DEF TenancyInv, MemberRows
  <2>3. Aims(v)'
    <3>1. \A r \in objects' : r.id = request[v].row \/ r.id = request[v].env => r \in objects
      BY <2>2, <1>0 DEF AddsOwn
    <3>2. Settled(request[v].row[1])' /\ Settled(request[v].env[1])'
      BY <2>1, <2>2, <1>0 DEF SettledStays, Settled
    <3>3. /\ request[v].doing # NoEndpoint
          /\ request[v].doing = CreateOrganization => request[v].row = NoRow
          /\ \A r \in objects : r.id = request[v].row => r.kind = request[v].doing.on
          /\ Does(v) \in Settles => \A e \in objects : e.id = request[v].env => e.kind = "environment"
          /\ Does(v) \in {"ensure", "target"} =>
               \A f, e \in objects : f.id = request[v].row /\ e.id = request[v].env =>
                 f.parent = e.parent
      BY <2>2, <1>2 DEF HandlerInv, Aims, RowOf
    <3> QED  BY <3>1, <3>2, <3>3, <2>1 DEF Aims, Does, RowOf
  <2>4. EnvironmentsRead(v)'
    <3>1. \A e \in objects' : e.id[1] < request[v].n /\ {e.id[1], request[v].n} \notin raced =>
            e \in objects
      <4> SUFFICES ASSUME NEW e \in objects', e.id[1] = request[w].n, e.id[1] < request[v].n
                   PROVE  {e.id[1], request[v].n} \in raced
        BY DEF AddsOwn
      <4>1. request[v].n \in (request[w].n + 1)..handled
        BY <2>2, <1>0 DEF HandlerNumbers
      <4> QED  BY <4>1, <1>0 DEF HandlerNumbers
    <3> QED  BY <3>1, <2>1, <2>2, <1>0, <1>2 DEF HandlerInv, EnvironmentsRead
  <2>5. MemberRead(v)'
    <3>1. ASSUME NEW q \in request[v].loaded, NEW m \in members', m.id = q.id
          PROVE  m.org = q.org /\ m.user = q.user
      <4>1. Settled(q.id) /\ \A k \in members : k.id = q.id => k.org = q.org /\ k.user = q.user
        BY <2>2, <1>2 DEF HandlerInv, MemberRead
      <4> QED  BY <3>1, <4>1, <1>0 DEF AddsOwn
    <3>2. \A q \in request[v].loaded : Settled(q.id)'
      BY <2>2, <1>0, <1>2 DEF HandlerInv, MemberRead, SettledStays
    <3> QED  BY <3>1, <3>2, <2>1, <2>2, <1>2 DEF HandlerInv, MemberRead, Does
  <2>6. StillAllowed(v)'
    BY <2>1 DEF StillAllowed
  <2> QED  BY <2>3, <2>4, <2>5, <2>6 DEF HandlerInv
<1>3. \A v \in Handlers : v # w /\ ~Serving(v) => ~Serving(v)'
  BY DoneFacts
<1> QED  BY <1>1, <1>2, <1>3, HandlerIdles

\* A commit keeps the invariant if it keeps what the tables say of themselves.
LEMMA DoneKeeps ==
  ASSUME TenancyInv, NEW w \in Handlers, Serving(w), Done(w), AddsOwn(w),
         objects' \subseteq ObjectRows, settings' \subseteq [flag : Ids, env : Ids],
         members' \subseteq MemberRows, IsFiniteSet(members'),
         RowsRooted', MembersUnique', SettingsCoherent', SettingsComplete'
  PROVE  TenancyInv'
<1>1. TenancyShapes'
  BY DoneFacts DEF TenancyInv, TenancyShapes
<1>2. \A v \in Handlers : HandlerInv(v)'
  BY DoneOthers
<1> QED  BY <1>1, <1>2, DoneFacts DEF TenancyInv

LEMMA CommitWriteKeeps ==
  ASSUME TenancyInv, NEW w \in Handlers, CommitWrite(w)
  PROVE  TenancyInv'
<1>0. Serving(w)  BY DEF CommitWrite, Commits, Serving
<1>1. CASE StopUnchanged(w)
  BY <1>0, <1>1, StopKeeps
<1>2. CASE Done(w) /\ UNCHANGED <<objects, settings, members>>
  <2>1. AddsOwn(w)  BY <1>2 DEF AddsOwn
  <2>2. RowsRooted' /\ MembersUnique' /\ SettingsCoherent' /\ SettingsComplete'
    BY <1>0, <1>2, DoneFacts, TablesKeep
  <2> QED  BY <2>1, <2>2, <1>0, <1>2, DoneKeeps DEF TenancyInv, TenancyShapes
<1> QED  BY <1>1, <1>2 DEF CommitWrite

\* Commits that change members only.
LEMMA MembersStep ==
  ASSUME TenancyInv, NEW w \in Handlers, Serving(w), Done(w), UNCHANGED <<objects, settings>>,
         members' \subseteq MemberRows, IsFiniteSet(members'),
         \A m \in members' : \/ m.id = request[w].n /\ RowOf(m.org) # {}
                             \/ \E k \in members : k.id = m.id /\ k.org = m.org /\ k.user = m.user,
         \A m, k \in members' : m.id = k.id \/ (m.org = k.org /\ m.user = k.user) => m = k
  PROVE  TenancyInv'
<1>1. AddsOwn(w)  BY DEF AddsOwn
<1>2. SettledStays /\ (\A n \in Int : n = request[w].n => Settled(n)') /\ raced' = raced
  BY DoneFacts
<1>3. RowsRooted'
  <2>1. \A r \in objects : r.id[1] \in Int /\ Settled(r.id[1])
    BY RowOfOne
  <2>2. \A r \in objects : Settled(r.id[1])'
    BY <2>1, <1>2 DEF SettledStays
  <2> QED  BY <2>2 DEF TenancyInv, RowsRooted
<1>4. MembersUnique'
  <2>1. \A m \in members' : Settled(m.id)' /\ RowOf(m.org)' # {}
    <3> SUFFICES ASSUME NEW m \in members' PROVE Settled(m.id)' /\ RowOf(m.org)' # {}
      OBVIOUS
    <3>1. m.id \in Int  BY DEF MemberRows
    <3>2. CASE m.id = request[w].n /\ RowOf(m.org) # {}
      BY <3>1, <3>2, <1>2 DEF RowOf
    <3>3. CASE \E k \in members : k.id = m.id /\ k.org = m.org /\ k.user = m.user
      <4>1. Settled(m.id) /\ RowOf(m.org) # {}
        BY <3>3 DEF TenancyInv, MembersUnique
      <4> QED  BY <4>1, <3>1, <1>2 DEF SettledStays, RowOf
    <3> QED  BY <3>2, <3>3
  <2> QED  BY <2>1 DEF MembersUnique
<1>5. SettingsCoherent' /\ SettingsComplete'
  BY <1>2 DEF TenancyInv, SettingsCoherent, SettingsComplete, SameProject, RowOf
<1> QED  BY <1>1, <1>3, <1>4, <1>5, DoneKeeps DEF TenancyInv, TenancyShapes

LEMMA CommitAddKeeps ==
  ASSUME TenancyInv, NEW w \in Handlers, CommitAdd(w)
  PROVE  TenancyInv'
<1>0. Serving(w)  BY DEF CommitAdd, Commits, Serving
<1>1. CASE StopUnchanged(w)
  BY <1>0, <1>1, StopKeeps
<1>2. CASE ~StopUnchanged(w)
  <2> DEFINE new == [id |-> request[w].n, org |-> request[w].row, user |-> request[w].target,
                     role |-> request[w].role]
  <2>1. /\ Done(w) /\ UNCHANGED <<objects, settings>> /\ members' = members \cup {new}
        /\ RowOf(request[w].row) # {} /\ Does(w) = "add"
        /\ \A m \in members : ~(m.org = request[w].row /\ m.user = request[w].target)
    BY <1>2 DEF CommitAdd, Commits, Does
  <2>2. new \in MemberRows
    BY <2>1, <1>0, RequestFacts DEF TenancyInv, HandlerInv, MemberRead, Keeps, RequestRecords, MemberRows
  <2>3. /\ new.id = request[w].n /\ new.org = request[w].row /\ new.user = request[w].target
    OBVIOUS
  <2> HIDE DEF new
  <2>4. members' \subseteq MemberRows /\ IsFiniteSet(members')
    BY <2>1, <2>2, FS_AddElement DEF TenancyInv, TenancyShapes
  <2>5. \A m \in members : m.id # new.id
    BY <2>3, <1>0, <2>1, DoneFacts DEF TenancyInv, MembersUnique
  <2>6. \A m, k \in members' : m.id = k.id \/ (m.org = k.org /\ m.user = k.user) => m = k
    BY <2>1, <2>3, <2>5 DEF TenancyInv, MembersUnique
  <2>7. \A m \in members' : \/ m.id = request[w].n /\ RowOf(m.org) # {}
                            \/ \E k \in members : k.id = m.id /\ k.org = m.org /\ k.user = m.user
    BY <2>1, <2>3
  <2> QED  BY <2>1, <2>4, <2>6, <2>7, <1>0, MembersStep
<1> QED  BY <1>1, <1>2

LEMMA CommitChangeKeeps ==
  ASSUME TenancyInv, NEW w \in Handlers, CommitChange(w)
  PROVE  TenancyInv'
<1>0. Serving(w) /\ request[w].role \in Roles
  BY RequestFacts DEF CommitChange, Commits, Serving, RequestRecords
<1>1. CASE StopUnchanged(w)
  BY <1>0, <1>1, StopKeeps
<1>2. CASE Done(w) /\ UNCHANGED <<objects, settings, members>>
  BY <1>0, <1>2, MembersStep DEF TenancyInv, TenancyShapes, MembersUnique
<1>3. CASE /\ Done(w) /\ UNCHANGED <<objects, settings>>
           /\ members' = (members \ Current(w)) \cup
                {[m EXCEPT !.role = request[w].role] : m \in Current(w)}
  <2> DEFINE C == Current(w)
             new(m) == [m EXCEPT !.role = request[w].role]
             T == {new(m) : m \in C}
  <2>1. C \subseteq members /\ C \subseteq MemberRows /\ IsFiniteSet(members)
    BY DEF Current, TenancyInv, TenancyShapes
  <2>2. \A m \in MemberRows : /\ new(m) \in MemberRows
                              /\ new(m).id = m.id /\ new(m).org = m.org /\ new(m).user = m.user
    BY <1>0 DEF MemberRows
  <2>3. IsFiniteSet(C)  BY <2>1, FS_Subset
  <2> HIDE DEF C, new
  <2>4. IsFiniteSet(T)
    <3> DEFINE f == [m \in C |-> new(m)]
    <3>1. f \in Surjection(C, T)  BY DEF Surjection
    <3> HIDE DEF f, T
    <3> QED  BY <3>1, <2>3, FS_Surjection
  <2>5. members' = (members \ C) \cup T  BY <1>3 DEF C, new
  <2>6. members' \subseteq MemberRows
    BY <2>1, <2>2, <2>5 DEF TenancyInv, TenancyShapes
  <2>7. IsFiniteSet(members')
    BY <2>1, <2>4, <2>5, FS_Difference, FS_Union
  <2>8. \A m \in members' : \E k \in members :
          /\ k.id = m.id /\ k.org = m.org /\ k.user = m.user
          /\ m = IF k \in C THEN new(k) ELSE k
    BY <2>1, <2>2, <2>5
  <2>9. \A m, k \in members' : m.id = k.id \/ (m.org = k.org /\ m.user = k.user) => m = k
    BY <2>8 DEF TenancyInv, MembersUnique
  <2> QED  BY <2>6, <2>7, <2>8, <2>9, <1>0, <1>3, MembersStep
<1> QED  BY <1>1, <1>2, <1>3 DEF CommitChange

LEMMA CommitExpelKeeps ==
  ASSUME TenancyInv, NEW w \in Handlers, CommitExpel(w)
  PROVE  TenancyInv'
<1>0. Serving(w)  BY DEF CommitExpel, Commits, Serving
<1>1. /\ Done(w) /\ UNCHANGED <<objects, settings>> /\ members' \subseteq members
  BY DEF CommitExpel
<1>2. members' \subseteq MemberRows /\ IsFiniteSet(members')
  BY <1>1, FS_Subset DEF TenancyInv, TenancyShapes
<1> QED  BY <1>0, <1>1, <1>2, MembersStep DEF TenancyInv, MembersUnique

\* Rows that bear the number of the request, below rows that are there.
LEMMA AddRows ==
  ASSUME TenancyInv, NEW w \in Handlers, Serving(w), Done(w),
         NEW N \in SUBSET ObjectRows, objects' = objects \cup N,
         \A r \in N : r.id[1] = request[w].n /\ Rooted(r, objects \cup N),
         \A r, q \in N : r.id = q.id => r = q
  PROVE  objects' \subseteq ObjectRows /\ RowsRooted'
<1>0. /\ SettledStays /\ (\A n \in Int : n = request[w].n => Settled(n)')
      /\ request[w].n \in Nat \ {0} /\ ~Settled(request[w].n)
  BY DoneFacts
<1>1. \A r \in objects : r.id[1] # request[w].n /\ r.id[1] \in Int
  BY <1>0, RowOfOne
<1>2. \A r \in objects' : Settled(r.id[1])'
  BY <1>0, <1>1, RowOfOne DEF SettledStays
<1>3. \A r \in objects' : r.id # NoRow
  <2>1. \A r \in N : r.id # NoRow  BY <1>0 DEF NoRow
  <2> QED  BY <2>1, RowOfOne
<1>4. \A r \in objects' : Rooted(r, objects')
  BY RootedMore DEF TenancyInv, RowsRooted
<1>5. \A r, q \in objects' : r.id = q.id => r = q
  BY <1>1 DEF TenancyInv, RowsRooted
<1> QED  BY <1>2, <1>3, <1>4, <1>5 DEF TenancyInv, TenancyShapes, RowsRooted

\* What create_* writes.
LEMMA CreatedFacts ==
  ASSUME TenancyInv, NEW w \in Handlers, Serving(w), Does(w) = "create",
         request[w].doing.child # "organization" => RowOf(request[w].row) # {}
  PROVE  /\ Created(w) \subseteq ObjectRows
         /\ \A r \in Created(w) :
              /\ r.id[1] = request[w].n /\ Rooted(r, objects \cup Created(w))
              /\ r.kind = "organization" <=> request[w].doing.child = "organization"
              /\ r.kind = "flag" => r = Row(<<request[w].n, "row">>, "flag", request[w].row)
              /\ r.kind \notin {"organization", "environment"} => r.parent = request[w].row
              /\ \/ r.kind = request[w].doing.child /\ r.parent = request[w].row
                 \/ /\ r.kind = "environment" /\ request[w].doing.child = "project"
                    /\ r.parent = <<request[w].n, "row">>
         /\ \A r, q \in Created(w) : r.id = q.id => r = q
         /\ Row(<<request[w].n, "row">>, request[w].doing.child, request[w].row) \in Created(w)
<1> DEFINE n == request[w].n
           child == request[w].doing.child
           row == request[w].row
           id == <<n, "row">>
           top == Row(id, child, row)
           envs == {Row(<<n, e>>, "environment", id) : e \in Environments}
<1>0. /\ n \in Nat /\ row \in Ids
      /\ request[w].doing \in Endpoints \/ request[w].doing = CreateOrganization
  BY RequestFacts
<1>1. /\ top.id = id /\ top.kind = child /\ top.parent = row
      /\ \A r \in envs : /\ r.kind = "environment" /\ r.parent = id
                         /\ \E e \in Environments : r = Row(<<n, e>>, "environment", id)
  BY DEF Row
<1>2. Created(w) = {top} \cup (IF child = "project" THEN envs ELSE {})
  BY DEF Created
<1>3. /\ child \in RowKinds
      /\ \/ child = "organization" /\ row = NoRow
         \/ /\ child # "organization"
            /\ \E p \in objects : p.id = row /\ <<child, p.kind>> \in BelongsTo
  <2>1. CASE request[w].doing = CreateOrganization
    <3>1. HandlerInv(w)  BY DEF TenancyInv
    <3>2. row = NoRow  BY <3>1, <2>1 DEF HandlerInv, Aims
    <3> QED  BY <3>2, <2>1, Fields DEF RowKinds
  <2>2. CASE request[w].doing \in Endpoints
    <3>1. <<child, request[w].doing.on>> \in BelongsTo
      BY <2>2, EndpointFacts DEF EndpointOK, Does
    <3>2. child \in RowKinds /\ child # "organization"
      BY <3>1 DEF BelongsTo, RowKinds, Leaves
    <3>3. PICK p \in RowOf(row) : TRUE  BY <3>2
    <3>4. p.kind = request[w].doing.on /\ p \in objects /\ p.id = row
      BY <3>3 DEF TenancyInv, HandlerInv, Aims, RowOf
    <3> QED  BY <3>1, <3>2, <3>4
  <2> QED  BY <1>0, <2>1, <2>2
<1>4. id \in Ids /\ \A e \in Environments : <<n, e>> \in Ids
  BY <1>0 DEF Ids, Names
<1>5. top \in ObjectRows /\ envs \subseteq ObjectRows
  BY <1>0, <1>3, <1>4 DEF Row, ObjectRows, RowKinds
<1>6. Rooted(top, objects \cup Created(w))
  BY <1>1, <1>3 DEF Rooted
<1>7. child = "project" => \A r \in envs : Rooted(r, objects \cup Created(w))
  BY <1>1, <1>2 DEF Rooted, BelongsTo
<1>8. \A r \in envs : r.id[1] = n /\ r.id # id
  BY DEF Row, Environments
<1>9. \A r, q \in envs : r.id = q.id => r = q
  BY DEF Row
<1> HIDE DEF top, envs
<1>10. \A r, q \in Created(w) : r.id = q.id => r = q
  BY <1>1, <1>2, <1>8, <1>9
<1>11. ASSUME NEW r \in Created(w)
       PROVE  /\ r.id[1] = n /\ Rooted(r, objects \cup Created(w))
              /\ r.kind = "organization" <=> child = "organization"
              /\ r.kind = "flag" => r = top
              /\ r.kind \notin {"organization", "environment"} => r.parent = row
              /\ \/ r.kind = child /\ r.parent = row
                 \/ r.kind = "environment" /\ child = "project" /\ r.parent = id
  <2>1. CASE r = top
    <3>1. r.id[1] = n  BY <2>1, <1>1
    <3> QED  BY <2>1, <3>1, <1>1, <1>6
  <2>2. CASE child = "project" /\ r \in envs
    BY <2>2, <1>1, <1>7, <1>8
  <2> QED  BY <2>1, <2>2, <1>2
<1> QED  BY <1>2, <1>5, <1>10, <1>11, <1>1 DEF top, Row

LEMMA CommitRowsKeeps ==
  ASSUME TenancyInv, NEW w \in Handlers, CommitRows(w)
  PROVE  TenancyInv'
<1>0. Serving(w) /\ request[w].pc = "commit" /\ Does(w) = "create"
  BY DEF CommitRows, Commits, Serving, Does
<1>1. CASE StopUnchanged(w)
  BY <1>0, <1>1, StopKeeps
<1>2. CASE ~StopUnchanged(w)
  <2> DEFINE n == request[w].n
             N == Created(w)
             child == request[w].doing.child
             row == request[w].row
             flag == Row(<<n, "row">>, "flag", row)
  <2>1. /\ Done(w) /\ objects' = objects \cup N
        /\ settings' = settings \cup SettingsOf(w) /\ members' = members \cup Founder(w)
        /\ child # "organization" => RowOf(row) # {}
        /\ request[w].envs \subseteq objects
    BY <1>2 DEF CommitRows
  <2>2. /\ N \subseteq ObjectRows
        /\ \A r \in N : /\ r.id[1] = n /\ Rooted(r, objects \cup N)
                        /\ r.kind = "flag" => r = flag /\ child = "flag"
        /\ \A r, q \in N : r.id = q.id => r = q
        /\ Row(<<n, "row">>, child, row) \in N
    BY <2>1, <1>0, CreatedFacts
  <2>3. flag.id = <<n, "row">> /\ flag.kind = "flag" /\ flag.parent = row
    BY DEF Row
  <2>4. /\ SettledStays /\ (\A k \in Int : k = n => Settled(k)')
        /\ n \in Nat \ {0} /\ ~Settled(n) /\ raced' = raced
    BY <2>1, <1>0, DoneFacts
  <2>5. /\ \A r \in objects : r.id[1] # n /\ r.id[1] \in Nat /\ r.id[1] <= handled
        /\ \A r \in objects, e \in objects : r.id = e.id => r = e
    BY <2>4, RowOfOne DEF TenancyInv, RowsRooted, Settled, TenancyShapes, ObjectRows, Ids
  <2>6. /\ \A e \in request[w].envs : e.kind = "environment" /\ e.parent = row /\ e \in objects
        /\ request[w].envs # {} => child = "flag"
        /\ child = "flag" =>
             \A e \in objects :
               (e.kind = "environment" /\ e.parent = row /\ e.id[1] < n /\ {e.id[1], n} \notin raced)
                 => e \in request[w].envs
    BY <2>1, <1>0 DEF TenancyInv, HandlerInv, EnvironmentsRead
  <2> HIDE DEF N, flag
  <2>7. objects' \subseteq ObjectRows /\ RowsRooted'
    BY <2>1, <2>2, <1>0, AddRows
  <2>8. settings' \subseteq [flag : Ids, env : Ids]
    <3>1. \A e \in request[w].envs : <<n, "row">> \in Ids /\ e.id \in Ids
      BY <2>4, RequestFacts DEF Ids, Names, ObjectRows
    <3> QED  BY <3>1, <2>1 DEF SettingsOf, SettingOf, TenancyInv, TenancyShapes
  <2>9. SettingsCoherent'
    <3>1. ASSUME NEW s \in settings PROVE SameProject(s.flag, s.env)'
      BY <2>1 DEF TenancyInv, SettingsCoherent, SameProject, RowOf
    <3>2. ASSUME NEW e \in request[w].envs
          PROVE  \E f \in objects', x \in objects' :
                   /\ f.id = <<n, "row">> /\ x.id = e.id
                   /\ f.kind = "flag" /\ x.kind = "environment" /\ f.parent = x.parent
      <4>1. child = "flag" /\ e \in objects /\ e.kind = "environment" /\ e.parent = row
        BY <2>6
      <4>2. flag \in N  BY <4>1, <2>2 DEF flag
      <4>3. flag \in objects' /\ e \in objects'  BY <4>1, <4>2, <2>1
      <4> QED  BY <4>1, <4>3, <2>3
    <3>3. ASSUME NEW s \in settings' PROVE SameProject(s.flag, s.env)'
      BY <3>1, <3>2, <2>1 DEF SettingsOf, SettingOf, SameProject, RowOf
    <3> QED  BY <3>3 DEF SettingsCoherent
  <2>10. SettingsComplete'
    <3> SUFFICES ASSUME NEW f \in objects', NEW e \in objects',
                        f.kind = "flag", e.kind = "environment", f.parent = e.parent,
                        e.id[1] < f.id[1], {e.id[1], f.id[1]} \notin raced
                 PROVE  SettingOf(f.id, e.id) \in settings'
      BY <2>4 DEF SettingsComplete
    <3>1. CASE f \in objects /\ e \in objects
      <4>1. SettingsComplete  BY DEF TenancyInv
      <4>2. SettingOf(f.id, e.id) \in settings  BY <3>1, <4>1 DEF SettingsComplete
      <4> QED  BY <4>2, <2>1
    <3>2. CASE f \in N /\ e \in objects
      <4>1. f = flag /\ f.id[1] = n  BY <3>2, <2>2
      <4>2. child = "flag"  BY <3>2, <2>2
      <4>3. e \in request[w].envs
        BY <4>1, <4>2, <2>6, <2>3, <3>2
      <4> QED  BY <4>1, <4>3, <2>1, <2>3 DEF SettingsOf
    <3>3. CASE f \in objects /\ e \in N
      <4>1. e.id[1] = n /\ f.id[1] \in (n + 1)..handled
        BY <3>3, <2>2, <2>4, <2>5 DEF TenancyInv, TenancyShapes
      <4>2. {n, f.id[1]} \in raced
        BY <4>1, <1>0 DEF TenancyInv, HandlerNumbers
      <4> QED  BY <4>1, <4>2
    <3>4. CASE f \in N /\ e \in N
      BY <3>4, <2>2, <2>4
    <3> QED  BY <3>1, <3>2, <3>3, <3>4, <2>1
  <2>11. members' \subseteq MemberRows /\ IsFiniteSet(members') /\ MembersUnique' /\ AddsOwn(w)
    <3>1. \A m \in Founder(w) :
            /\ m.id = n /\ m.org = <<n, "row">> /\ m.user \in People /\ m.role \in Roles
            /\ child = "organization"
      <4>1. request[w].user \in People
        BY <1>0 DEF TenancyInv, HandlerInv, MemberRead
      <4> QED  BY <4>1, Ranks DEF Founder
    <3>2. Founder(w) \subseteq MemberRows
      <4>1. <<n, "row">> \in Ids /\ n \in Int  BY <2>4 DEF Ids, Names
      <4>2. request[w].user \in People
        BY <1>0 DEF TenancyInv, HandlerInv, MemberRead
      <4> QED  BY <4>1, <4>2, Ranks DEF Founder, MemberRows
    <3>3. \A m, k \in Founder(w) : m = k  BY DEF Founder
    <3>4. \A m \in members : m.id # n /\ m.org # <<n, "row">> /\ RowOf(m.org) # {} /\ Settled(m.id)
      <4>1. \A m \in members : RowOf(m.org) # {} /\ Settled(m.id)
        BY DEF TenancyInv, MembersUnique
      <4>2. \A r \in objects : r.id # <<n, "row">>  BY <2>5
      <4> QED  BY <4>1, <4>2, <2>4 DEF RowOf
    <3>5. members' \subseteq MemberRows /\ IsFiniteSet(members')
      <4>1. IsFiniteSet(Founder(w))
        BY FS_EmptySet, FS_Singleton DEF Founder
      <4> QED  BY <4>1, <3>2, <2>1, FS_Union DEF TenancyInv, TenancyShapes
    <3>6. AddsOwn(w)
      BY <3>1, <2>1, <2>2 DEF AddsOwn
    <3>7. \A m \in members' : Settled(m.id)' /\ RowOf(m.org)' # {}
      <4>1. ASSUME NEW m \in members PROVE Settled(m.id)' /\ RowOf(m.org)' # {}
        <5>1. m.id \in Int  BY DEF TenancyInv, TenancyShapes, MemberRows
        <5> QED  BY <5>1, <3>4, <2>1, <2>4 DEF SettledStays, RowOf
      <4>2. ASSUME NEW m \in Founder(w) PROVE Settled(m.id)' /\ RowOf(m.org)' # {}
        <5>1. m.id = n /\ m.org = <<n, "row">>  BY <3>1
        <5>2. Row(<<n, "row">>, child, row).id = <<n, "row">>  BY DEF Row
        <5>3. \E r \in objects' : r.id = m.org  BY <5>1, <5>2, <2>1, <2>2
        <5>4. Settled(m.id)'  BY <5>1, <2>4
        <5> QED  BY <5>3, <5>4 DEF RowOf
      <4> QED  BY <4>1, <4>2, <2>1
    <3>8. \A m, k \in members' : m.id = k.id \/ (m.org = k.org /\ m.user = k.user) => m = k
      BY <3>1, <3>3, <3>4, <2>1 DEF TenancyInv, MembersUnique
    <3> QED  BY <3>5, <3>6, <3>7, <3>8 DEF MembersUnique
  <2> QED  BY <2>1, <2>7, <2>8, <2>9, <2>10, <2>11, <1>0, DoneKeeps
<1> QED  BY <1>1, <1>2

LEMMA CommitDeleteKeeps ==
  ASSUME TenancyInv, NEW w \in Handlers, CommitDelete(w)
  PROVE  TenancyInv'
<1>0. Serving(w)  BY DEF CommitDelete, Commits, Serving
<1> DEFINE C == Cascade(request[w].row)
           gone == {r.id : r \in C}
<1>1. /\ Done(w) /\ objects' = objects \ C
      /\ members' = {m \in members : m.org \notin gone}
      /\ settings' = {s \in settings : s.flag \notin gone /\ s.env \notin gone}
  BY DEF CommitDelete
<1>2. /\ C \subseteq objects
      /\ \A r \in objects, p \in C : r.parent = p.id => r \in C
      /\ \A r, q \in objects : r.id = q.id => r = q
      /\ \A r \in objects : r.id # NoRow /\ Settled(r.id[1]) /\ Rooted(r, objects) /\ r.id[1] \in Int
  BY CascadeInOrg, CascadeClosed, RowOfOne DEF TenancyInv, RowsRooted
<1> HIDE DEF C
<1>3. \A r \in objects : r.id \notin gone <=> r \notin C
  BY <1>2
<1> HIDE DEF gone
<1>4. SettledStays /\ raced' = raced
  BY <1>0, <1>1, DoneFacts
<1>5. RowsRooted'
  <2>1. ASSUME NEW r \in objects' PROVE Rooted(r, objects') /\ r.id # NoRow
    BY <1>1, <1>2 DEF Rooted
  <2>2. \A r \in objects' : Settled(r.id[1])'
    BY <1>1, <1>2, <1>4 DEF SettledStays
  <2> QED  BY <2>1, <2>2, <1>1, <1>2 DEF RowsRooted
<1>6. MembersUnique'
  <2>1. ASSUME NEW m \in members' PROVE Settled(m.id)' /\ RowOf(m.org)' # {}
    <3>1. m.id \in Int /\ Settled(m.id) /\ RowOf(m.org) # {} /\ m.org \notin gone
      BY <1>1 DEF TenancyInv, MembersUnique, TenancyShapes, MemberRows
    <3>2. RowOf(m.org)' # {}  BY <3>1, <1>1, <1>3 DEF RowOf
    <3>3. Settled(m.id)'  BY <3>1, <1>4 DEF SettledStays
    <3> QED  BY <3>2, <3>3
  <2> QED  BY <2>1, <1>1 DEF TenancyInv, MembersUnique
<1>7. SettingsCoherent'
  BY <1>1, <1>3 DEF TenancyInv, SettingsCoherent, SameProject, RowOf
<1>8. SettingsComplete'
  <2> SUFFICES ASSUME NEW f \in objects', NEW e \in objects',
                      f.kind = "flag", e.kind = "environment", f.parent = e.parent,
                      e.id[1] < f.id[1], {e.id[1], f.id[1]} \notin raced
               PROVE  SettingOf(f.id, e.id) \in settings'
    BY <1>4 DEF SettingsComplete
  <2>1. SettingOf(f.id, e.id) \in settings
    BY <1>1 DEF TenancyInv, SettingsComplete
  <2>2. f.id \notin gone /\ e.id \notin gone  BY <1>1, <1>3
  <2> QED  BY <2>1, <2>2, <1>1 DEF SettingOf
<1>9. members' \subseteq MemberRows /\ IsFiniteSet(members')
      /\ objects' \subseteq ObjectRows /\ settings' \subseteq [flag : Ids, env : Ids]
  BY <1>1, FS_Subset DEF TenancyInv, TenancyShapes
<1>10. AddsOwn(w)
  BY <1>1 DEF AddsOwn
<1> QED  BY <1>0, <1>1, <1>5, <1>6, <1>7, <1>8, <1>9, <1>10, DoneKeeps

LEMMA CommitSettingKeeps ==
  ASSUME TenancyInv, NEW w \in Handlers, CommitSetting(w)
  PROVE  TenancyInv'
<1>0. Serving(w) /\ Does(w) \in Settles
  BY DEF CommitSetting, Commits, Serving, Does
<1> DEFINE s == SettingOf(request[w].row, request[w].env)
           gated == IsProduction(s.env) /\ Does(w) \in {"configure", "target"}
           new == Row(<<request[w].n, "row">>, "change_request", s.env)
           N == IF gated THEN {new} ELSE {}
           S == IF Does(w) = "configure" THEN {} ELSE {s}
<1>1. CASE StopUnchanged(w)
  BY <1>0, <1>1, StopKeeps
<1>2. CASE ~StopUnchanged(w)
  <2>1. /\ Done(w) /\ RowOf(s.flag) # {} /\ RowOf(s.env) # {} /\ members' = members
        /\ objects' = objects \cup N /\ settings' = settings \cup S
    BY <1>2 DEF CommitSetting, Does
  <2>2. /\ s.flag = request[w].row /\ s.env = request[w].env
        /\ request[w].row \in Ids /\ request[w].env \in Ids /\ request[w].n \in Nat
    BY RequestFacts DEF SettingOf
  <2>3. /\ \A f \in RowOf(s.flag) : f.kind = "flag"
        /\ \A e \in RowOf(s.env) : e.kind = "environment"
        /\ Does(w) # "configure" => \A f \in RowOf(s.flag), e \in RowOf(s.env) : f.parent = e.parent
    <3>1. request[w].doing \in Endpoints
      BY <1>0, RequestFacts, Fields DEF Does, Settles
    <3>2. request[w].doing.on = "flag"
      BY <3>1, <1>0, EndpointFacts DEF EndpointOK, Does
    <3>3. Does(w) # "configure" => Does(w) \in {"ensure", "target"}
      BY <1>0 DEF Settles
    <3> QED  BY <3>2, <3>3, <2>2, <1>0 DEF TenancyInv, HandlerInv, Aims
  <2>4. /\ new.id = <<request[w].n, "row">> /\ new.kind = "change_request" /\ new.parent = s.env
        /\ new \in ObjectRows
    <3>1. <<request[w].n, "row">> \in Ids /\ "change_request" \in RowKinds
      BY <2>2 DEF Ids, Names, RowKinds, Leaves
    <3> QED  BY <3>1, <2>2 DEF Row, ObjectRows
  <2>5. new.id[1] = request[w].n  BY <2>4
  <2>6. s \in [flag : Ids, env : Ids]  BY <2>2 DEF SettingOf
  <2> HIDE DEF s, new
  <2>7. /\ N \subseteq ObjectRows
        /\ \A r \in N : /\ r.id[1] = request[w].n /\ Rooted(r, objects \cup N)
                        /\ r.kind = "change_request"
        /\ \A r, q \in N : r.id = q.id => r = q
    BY <2>1, <2>3, <2>4, <2>5 DEF Rooted, RowOf, BelongsTo
  <2>8. settings' \subseteq [flag : Ids, env : Ids]
    BY <2>1, <2>6 DEF TenancyInv, TenancyShapes
  <2>9. SettingsCoherent'
    <3>1. ASSUME NEW x \in settings PROVE SameProject(x.flag, x.env)'
      BY <2>1 DEF TenancyInv, SettingsCoherent, SameProject, RowOf
    <3>2. S # {} => \E f \in RowOf(s.flag), e \in RowOf(s.env) :
            f.kind = "flag" /\ e.kind = "environment" /\ f.parent = e.parent
      BY <2>1, <2>3
    <3>3. ASSUME NEW x \in S PROVE SameProject(x.flag, x.env)'
      <4>1. x = s  OBVIOUS
      <4>2. PICK f \in objects, e \in objects :
              /\ f.id = x.flag /\ e.id = x.env
              /\ f.kind = "flag" /\ e.kind = "environment" /\ f.parent = e.parent
        BY <3>2, <4>1 DEF RowOf
      <4> QED  BY <4>2, <2>1 DEF SameProject, RowOf
    <3> QED  BY <3>1, <3>3, <2>1 DEF SettingsCoherent
  <2> HIDE DEF N, S
  <2>10. objects' \subseteq ObjectRows /\ RowsRooted'
    BY <2>1, <2>7, <1>0, AddRows
  <2>11. SettledStays /\ raced' = raced
    BY <2>1, <1>0, DoneFacts
  <2>12. SettingsComplete'
    BY <2>1, <2>7, <2>11 DEF TenancyInv, SettingsComplete
  <2>13. MembersUnique'
    <3>1. ASSUME NEW m \in members PROVE Settled(m.id)' /\ RowOf(m.org)' # {}
      <4>1. m.id \in Int /\ Settled(m.id) /\ RowOf(m.org) # {}
        BY DEF TenancyInv, MembersUnique, TenancyShapes, MemberRows
      <4> QED  BY <4>1, <2>1, <2>11 DEF SettledStays, RowOf
    <3> QED  BY <3>1, <2>1 DEF TenancyInv, MembersUnique
  <2>14. AddsOwn(w)
    BY <2>1, <2>7 DEF AddsOwn
  <2> QED  BY <2>1, <2>8, <2>9, <2>10, <2>12, <2>13, <2>14, <1>0, DoneKeeps DEF TenancyInv, TenancyShapes
<1> QED  BY <1>1, <1>2

-----------------------------------------------------------------------------
(* The invariant, and what it gives.                                        *)

LEMMA StepKeeps == TenancyInv /\ [TenancyNext]_tenancyVars => TenancyInv'
<1> SUFFICES ASSUME TenancyInv, [TenancyNext]_tenancyVars PROVE TenancyInv'
  OBVIOUS
<1>1. ASSUME NEW w \in Handlers, StartRequest(w) PROVE TenancyInv'
  BY <1>1, StartRequestKeeps
<1>2. ASSUME NEW w \in Handlers, Proceed(w) PROVE TenancyInv'
  BY <1>2, ReadMemberKeeps, CountOwnersKeeps, ReadEnvironmentsKeeps, CommitRowsKeeps,
     CommitDeleteKeeps, CommitWriteKeeps, CommitSettingKeeps, CommitAddKeeps, CommitChangeKeeps,
     CommitExpelKeeps
  DEF Proceed
<1>3. ASSUME NEW w \in Handlers, Break(w) PROVE TenancyInv'
  BY <1>3, StopKeeps DEF Break, Serving
<1>4. CASE UNCHANGED tenancyVars
  <2>1. SettledStays  BY <1>4 DEF tenancyVars, SettledStays, Settled, Serving
  <2>2. RowsRooted' /\ MembersUnique' /\ SettingsCoherent' /\ SettingsComplete'
    BY <1>4, <2>1, TablesKeep DEF tenancyVars
  <2>3. \A v \in Handlers : HandlerInv(v)'
    BY <1>4, <2>1, OtherKeeps DEF tenancyVars, TenancyInv
  <2>4. TenancyShapes' /\ HandlerNumbers'
    BY <1>4 DEF tenancyVars, TenancyInv, TenancyShapes, HandlerNumbers, Serving
  <2> QED  BY <2>2, <2>3, <2>4 DEF TenancyInv
<1> QED  BY <1>1, <1>2, <1>3, <1>4 DEF TenancyNext

\* The inductive invariant: rows have one root, requests aim at what they were
\* let in for, and what they have checked holds until somebody else commits.
THEOREM TenancyInvariant == TenancySpec => []TenancyInv
<1>1. TenancyInit => TenancyInv  BY InitHolds
<1>2. TenancyInv /\ [TenancyNext]_tenancyVars => TenancyInv'  BY StepKeeps
<1> QED  BY <1>1, <1>2, PTL DEF TenancySpec

\* Whatever is there belongs to exactly one organisation, settings and members
\* refer to rows that are there, and nobody is twice a member, after any number
\* of overlapping requests.
THEOREM TenancyTypeCorrect == TenancySpec => []TenancyTypeOK
<1>1. TenancyInv => TenancyTypeOK
  <2> SUFFICES ASSUME TenancyInv PROVE TenancyTypeOK
    OBVIOUS
  <2>1. \A r \in objects : Cardinality(OrgOf(r)) = 1
    BY OneOrganization, FS_Singleton DEF TenancyInv
  <2>2. \A s \in settings : RowOf(s.flag) # {} /\ RowOf(s.env) # {}
    BY DEF TenancyInv, SettingsCoherent, SameProject
  <2>3. \A m \in members : m.user \in People /\ m.role \in Roles
    BY DEF TenancyInv, TenancyShapes, MemberRows
  <2>4. \A w \in Handlers : request[w].pc \in {"idle", "read", "count", "commit"}
    BY DEF TenancyInv, TenancyShapes, RequestRecords
  <2> QED  BY <2>1, <2>2, <2>3, <2>4 DEF TenancyInv, RowsRooted, MembersUnique, TenancyTypeOK
<1> QED  BY <1>1, TenancyInvariant, PTL

\* No request, by any endpoint, makes a setting join a flag and an environment of
\* different projects.
THEOREM SettingsStayCoherent == TenancySpec => []SettingsCoherent
<1>1. TenancyInv => SettingsCoherent  BY DEF TenancyInv
<1> QED  BY <1>1, TenancyInvariant, PTL

\* A flag has a setting in every environment that was there when its request
\* began: the requests whose environment it may lack ran at the same time.
THEOREM SettingsStayComplete == TenancySpec => []SettingsComplete
<1>1. TenancyInv => SettingsComplete  BY DEF TenancyInv
<1> QED  BY <1>1, TenancyInvariant, PTL

\* What is left of the owners of an organisation that stays.
LEMMA OwnersLeft ==
  ASSUME TenancyInv, [TenancyNext]_tenancyVars, NEW o \in objects, o \in objects',
         o.kind = "organization", Owners(o.id) # {},
         \A w \in Handlers : Writing(w) /\ request[w].row = o.id => request[w].alone
  PROVE  Owners(o.id)' # {}
<1>1. CASE members \subseteq members'
  BY <1>1 DEF Owners
<1>2. ASSUME NEW w \in Handlers, CommitDelete(w) PROVE Owners(o.id)' # {}
  <2> DEFINE C == Cascade(request[w].row)
  <2>1. /\ objects' = objects \ C
        /\ members' = {m \in members : m.org \notin {r.id : r \in C}}
        /\ C \subseteq objects
    BY <1>2, CascadeInOrg DEF CommitDelete, TenancyInv
  <2> HIDE DEF C
  <2>2. o.id \notin {r.id : r \in C}
    BY <2>1 DEF TenancyInv, RowsRooted
  <2> QED  BY <2>1, <2>2 DEF Owners
<1>3. ASSUME NEW w \in Handlers, Serving(w), Writing(w), Does(w) \in {"change", "expel"},
             NEW X, members' = (members \ Current(w)) \cup X,
             Does(w) = "expel" => X = {},
             Does(w) = "change" => X = {[m EXCEPT !.role = request[w].role] : m \in Current(w)}
      PROVE  Owners(o.id)' # {}
  <2>0. HandlerInv(w)  BY DEF TenancyInv
  <2>1. \A q \in request[w].loaded : q.org = request[w].row /\ q.user = request[w].target
    BY <2>0, <1>3 DEF HandlerInv, MemberRead, Writing
  <2>2. \A m \in Current(w) : m \in members /\ m.org = request[w].row
    BY <2>0, <2>1, <1>3 DEF HandlerInv, MemberRead, Current
  <2>3. CASE request[w].row # o.id
    BY <2>2, <2>3, <1>3 DEF Owners
  <2>4. CASE request[w].row = o.id
    <3>1. request[w].loaded \subseteq members /\ (LosesOwner(w) => Cardinality(Owners(o.id)) > 1)
      BY <2>0, <2>4, <1>3 DEF HandlerInv, StillAllowed, Writing
    <3>2. Current(w) = request[w].loaded /\ \A m, k \in Current(w) : m = k
      BY <3>1, <2>1 DEF TenancyInv, MembersUnique, Current
    <3>3. CASE LosesOwner(w)
      <4>1. PICK c \in Current(w) : TRUE
        BY <3>2, <3>3 DEF LosesOwner
      <4>2. Current(w) = {c}  BY <4>1, <3>2
      <4>3. IsFiniteSet(Owners(o.id))
        BY FS_Subset DEF Owners, TenancyInv, TenancyShapes
      <4>4. Owners(o.id) \ {c} # {}
        <5>1. Owners(o.id) # {c} /\ Owners(o.id) # {}
          BY <3>1, <3>3, <4>3, FS_Singleton
        <5> QED  BY <5>1
      <4> QED  BY <4>2, <4>4, <1>3 DEF Owners
    <3>4. CASE ~LosesOwner(w)
      <4>1. PICK m \in Owners(o.id) : TRUE  OBVIOUS
      <4>2. CASE m \notin Current(w)
        BY <4>1, <4>2, <1>3 DEF Owners
      <4>3. CASE m \in Current(w)
        <5>1. Does(w) = "change" /\ request[w].role = "OWNER"
          BY <4>1, <4>3, <3>2, <3>4, <1>3 DEF LosesOwner, Owners
        <5> DEFINE k == [m EXCEPT !.role = request[w].role]
        <5>2. k \in members'  BY <4>3, <5>1, <1>3
        <5>3. m \in MemberRows /\ m.org = o.id
          BY <4>1 DEF Owners, TenancyInv, TenancyShapes
        <5>4. k.org = o.id /\ k.role = "OWNER"  BY <5>1, <5>3 DEF MemberRows
        <5> QED  BY <5>2, <5>4 DEF Owners
      <4> QED  BY <4>2, <4>3
    <3> QED  BY <3>3, <3>4
  <2> QED  BY <2>3, <2>4
<1>4. ASSUME NEW w \in Handlers, CommitChange(w) PROVE Owners(o.id)' # {}
  <2>1. Serving(w) /\ Writing(w) /\ Does(w) = "change"
    BY <1>4 DEF CommitChange, Commits, Serving, Writing, Does
  <2>2. CASE members' = members
    BY <2>2, <1>1
  <2>3. CASE members' = (members \ Current(w)) \cup
               {[m EXCEPT !.role = request[w].role] : m \in Current(w)}
    BY <2>1, <2>3, <1>3
  <2> QED  BY <1>4, <2>2, <2>3 DEF CommitChange, StopUnchanged
<1>5. ASSUME NEW w \in Handlers, CommitExpel(w) PROVE Owners(o.id)' # {}
  <2>1. Serving(w) /\ Writing(w) /\ Does(w) = "expel"
    BY <1>5 DEF CommitExpel, Commits, Serving, Writing, Does
  <2>2. members' = (members \ Current(w)) \cup {}
    BY <1>5 DEF CommitExpel
  <2> QED  BY <2>1, <2>2, <1>3
<1>6. ASSUME NEW w \in Handlers, StartRequest(w) PROVE members' = members
  BY <1>6 DEF StartRequest, StartOrganization, StartHandler, StartMember, StartSetting, Begin
<1>7. ASSUME NEW w \in Handlers,
             ReadMember(w) \/ CountOwners(w) \/ ReadEnvironments(w) \/ CommitWrite(w) \/ Break(w)
      PROVE  members' = members
  BY <1>7 DEF ReadMember, CountOwners, ReadEnvironments, CommitWrite, Break, StopUnchanged
<1>8. ASSUME NEW w \in Handlers, CommitRows(w) \/ CommitAdd(w) \/ CommitSetting(w)
      PROVE  members \subseteq members'
  BY <1>8 DEF CommitRows, CommitAdd, CommitSetting, StopUnchanged
<1>9. CASE UNCHANGED tenancyVars
  BY <1>9, <1>1 DEF tenancyVars
<1> QED  BY <1>1, <1>2, <1>4, <1>5, <1>6, <1>7, <1>8, <1>9 DEF TenancyNext, Proceed

\* "Cannot remove the only owner": an organisation that stays loses its last owner
\* only by a request that another commit overtook after it had counted.
THEOREM LastOwnerStays == TenancySpec => OwnersNeedOverlap
<1> DEFINE A == \A o \in objects \cap objects' :
       (/\ o.kind = "organization" /\ Owners(o.id) # {}
        /\ \A w \in Handlers : Writing(w) /\ request[w].row = o.id => request[w].alone)
       => Owners(o.id)' # {}
<1>1. TenancyInv /\ [TenancyNext]_tenancyVars => A
  BY OwnersLeft
<1> QED  BY <1>1, TenancyInvariant, PTL DEF TenancySpec, OwnersNeedOverlap

-----------------------------------------------------------------------------
(* Who makes rows appear and disappear.                                     *)

\* m gives w's user the role that a row of this kind needs, in one of Orgs.
Entitled(w, m, kind, Orgs) ==
  /\ m \in members /\ m.user = request[w].user
  /\ ROLE_RANK[m.role] >= ROLE_RANK[Needed(kind)]
  /\ \E o \in Orgs : o.id = m.org

\* Organisations go only when they are deleted themselves; nothing is below a
\* segment.
LEMMA CascadeKinds ==
  ASSUME RowsRooted, NEW id, NEW r \in Cascade(id)
  PROVE  /\ r.kind = "organization" => r \in RowOf(id)
         /\ \A q \in RowOf(id) : q.kind = "segment" => r \in RowOf(id)
<1> DEFINE S == RowOf(id)
           A == Below(S)
           B == Below(A)
           C == Below(B)
<1>0. Cascade(id) = C /\ S \subseteq objects /\ \A q, x \in S : q = x
  BY DEF Cascade, RowOf, RowsRooted
<1>1. A \subseteq objects /\ B \subseteq objects /\ C \subseteq objects
  BY DEF Below, RowOf
<1>2. /\ \A q \in A : q \in S \/ \E x \in S : q.parent = x.id
      /\ \A q \in B : q \in A \/ \E x \in A : q.parent = x.id
      /\ \A q \in C : q \in B \/ \E x \in B : q.parent = x.id
  BY DEF Below
<1> HIDE DEF S, A, B, C
<1>3. r.kind = "organization" => r \in S
  BY <1>0, <1>1, <1>2, ParentKinds DEF RowsRooted
<1>4. \A x \in objects, q \in objects : x.kind = "segment" => q.parent # x.id
  <2> SUFFICES ASSUME NEW x \in objects, NEW q \in objects, x.kind = "segment", q.parent = x.id
               PROVE  FALSE
    OBVIOUS
  <2>1. q.kind # "organization"  BY ParentKinds DEF RowsRooted
  <2>2. q.kind \in {"project", "environment", "flag", "segment"} \cup Leaves
    BY <2>1, ParentKinds DEF RowKinds
  <2> QED  BY <2>2, ParentKinds
<1>5. ASSUME NEW q \in S, q.kind = "segment" PROVE r \in S
  <2>1. \A x \in S : x.kind = "segment"  BY <1>0, <1>5
  <2>2. A \subseteq S  BY <1>0, <1>1, <1>2, <1>4, <2>1
  <2>3. B \subseteq S  BY <1>0, <1>1, <1>2, <1>4, <2>1, <2>2
  <2>4. C \subseteq S  BY <1>0, <1>1, <1>2, <1>4, <2>1, <2>3
  <2> QED  BY <2>4, <1>0
<1> QED  BY <1>3, <1>5 DEF S

LEMMA GoneByMembers ==
  ASSUME TenancyInv, NEW w \in Handlers, CommitDelete(w), request[w].alone,
         NEW r \in Cascade(request[w].row)
  PROVE  \E m \in members : Entitled(w, m, r.kind, OrgOf(r))
<1> DEFINE u == request[w].user
           row == request[w].row
           e == request[w].doing
<1>1. RowsRooted /\ Serving(w) /\ e.does = "delete"
  BY DEF CommitDelete, Commits, Serving, TenancyInv
<1>2. e \in Endpoints
  BY <1>1, RequestFacts, Fields
<1>3. Allowed(u, row, e)
  <2>1. StillAllowed(w)  BY DEF TenancyInv, HandlerInv
  <2>2. e # CreateOrganization  BY <1>2, EndpointFacts DEF EndpointOK
  <2> QED  BY <2>1, <2>2, <1>1 DEF StillAllowed
<1>4. PICK q \in RowOf(row) : q.kind = e.on /\ MemberAbove(u, q, e.min)
  BY <1>1, <1>2, <1>3, AllowedMember
<1>5. OrgOf(r) = OrgOf(q) /\ r \in objects /\ \A x \in RowOf(row) : x = q
  BY <1>1, CascadeInOrg DEF RowOf, RowsRooted
<1>6. PICK m \in members, o \in OrgOf(q) :
        m.org = o.id /\ m.user = u /\ ROLE_RANK[m.role] >= ROLE_RANK[e.min]
  BY <1>4 DEF MemberAbove
<1>7. ROLE_RANK[e.min] >= ROLE_RANK[Needed(r.kind)] /\ e.min \in Roles
  <2>1. /\ r.kind = "organization" => r = q
        /\ q.kind = "segment" => r = q
    BY <1>1, <1>5, CascadeKinds
  <2>2. <<e.on, e.min>> \in {<<"organization", "OWNER">>, <<"project", "ADMIN">>,
                            <<"environment", "ADMIN">>, <<"segment", "DEVELOPER">>}
    BY <1>1, <1>2, EndpointFacts DEF EndpointOK
  <2> QED  BY <2>1, <2>2, <1>4, Ranks DEF Needed
<1>8. /\ ROLE_RANK[m.role] \in Int /\ ROLE_RANK[e.min] \in Int
      /\ ROLE_RANK[Needed(r.kind)] \in Int
  <2>1. m.role \in Roles  BY DEF TenancyInv, TenancyShapes, MemberRows
  <2> QED  BY <2>1, <1>7, Ranks DEF Needed
<1>9. ROLE_RANK[m.role] >= ROLE_RANK[Needed(r.kind)]
  BY <1>6, <1>7, <1>8
<1> QED  BY <1>5, <1>6, <1>9 DEF Entitled

\* The same of any state.
OrgsFollow == RowsRooted => \A r, p \in objects : r.parent = p.id => OrgOf(r) = OrgOf(p)

LEMMA OrgOfChildAll == OrgsFollow
BY OrgOfChild DEF OrgsFollow

LEMMA OrgOfChildNext == OrgsFollow'
BY OrgOfChildAll, PTL

LEMMA OrgOfGrows ==
  ASSUME objects \subseteq objects', NEW q
  PROVE  OrgOf(q) \subseteq OrgOf(q)'
BY DEF OrgOf, RowOf

LEMMA CreatedByMembers ==
  ASSUME TenancyInv, TenancyInv', NEW w \in Handlers, CommitRows(w), request[w].alone,
         NEW r \in objects', r \notin objects, r.kind # "organization"
  PROVE  \E m \in members : Entitled(w, m, r.kind, OrgOf(r)')
<1> DEFINE u == request[w].user
           row == request[w].row
           e == request[w].doing
<1>1. RowsRooted /\ Serving(w) /\ e.does = "create"
  BY DEF CommitRows, Commits, Serving, TenancyInv
<1>2. /\ e.child # "organization" => RowOf(row) # {}
      /\ objects' = objects \cup Created(w)
  BY DEF CommitRows, StopUnchanged
<1>3. /\ r \in Created(w) /\ Row(<<request[w].n, "row">>, e.child, row) \in Created(w)
      /\ \/ r.kind = e.child /\ r.parent = row
         \/ r.kind = "environment" /\ e.child = "project" /\ r.parent = <<request[w].n, "row">>
  BY <1>1, <1>2, CreatedFacts DEF Does
<1>4. PICK top \in Created(w) : top.id = <<request[w].n, "row">> /\ top.parent = row
  BY <1>3 DEF Row
<1>5. e \in Endpoints
  BY <1>1, <1>3, RequestFacts, Fields
<1>6. Allowed(u, row, e)
  <2>1. StillAllowed(w)  BY DEF TenancyInv, HandlerInv
  <2>2. e # CreateOrganization  BY <1>5, EndpointFacts DEF EndpointOK
  <2> QED  BY <2>1, <2>2, <1>1 DEF StillAllowed
<1>7. PICK q \in RowOf(row) : q.kind = e.on /\ MemberAbove(u, q, e.min)
  BY <1>1, <1>5, <1>6, AllowedMember
<1>8. PICK m \in members, o \in OrgOf(q) :
        m.org = o.id /\ m.user = u /\ ROLE_RANK[m.role] >= ROLE_RANK[e.min]
  BY <1>7 DEF MemberAbove
<1>9. \A x, p \in objects' : x.parent = p.id => OrgOf(x)' = OrgOf(p)'
  <2>1. RowsRooted'  BY DEF TenancyInv
  <2> QED  BY <2>1, OrgOfChildNext DEF OrgsFollow
<1>10. OrgOf(r)' = OrgOf(q)'
  <2>1. q \in objects' /\ q.id = row  BY <1>2, <1>7 DEF RowOf
  <2>2. top \in objects'  BY <1>2
  <2>3. CASE r.parent = row
    BY <2>1, <2>3, <1>9
  <2>4. CASE r.parent = top.id
    <3>1. OrgOf(r)' = OrgOf(top)'  BY <2>2, <2>4, <1>9
    <3>2. OrgOf(top)' = OrgOf(q)'  BY <2>1, <2>2, <1>4, <1>9
    <3> QED  BY <3>1, <3>2
  <2> QED  BY <2>3, <2>4, <1>3, <1>4
<1>11. o \in OrgOf(r)'
  <2>1. objects \subseteq objects'  BY <1>2
  <2> QED  BY <2>1, <1>10, OrgOfGrows
<1>12. ROLE_RANK[m.role] >= ROLE_RANK[Needed(r.kind)]
  <2>1. /\ e.min \in Roles /\ ROLE_RANK[e.min] >= ROLE_RANK[Needed(e.child)]
        /\ e.child = "project" => e.min = "ADMIN"
    BY <1>1, <1>5, EndpointFacts DEF EndpointOK
  <2>2. ROLE_RANK[e.min] >= ROLE_RANK[Needed(r.kind)]
    BY <2>1, <1>3, Ranks DEF Needed
  <2>3. m.role \in Roles  BY DEF TenancyInv, TenancyShapes, MemberRows
  <2>4. ROLE_RANK[m.role] \in Int /\ ROLE_RANK[e.min] \in Int /\ ROLE_RANK[Needed(r.kind)] \in Int
    BY <2>1, <2>3, Ranks DEF Needed
  <2> QED  BY <2>2, <2>4, <1>8
<1> QED  BY <1>8, <1>11, <1>12 DEF Entitled

LEMMA GatedByMembers ==
  ASSUME TenancyInv, TenancyInv', NEW w \in Handlers, CommitSetting(w), request[w].alone,
         NEW r \in objects', r \notin objects
  PROVE  \E m \in members : Entitled(w, m, r.kind, OrgOf(r)')
<1> DEFINE u == request[w].user
           row == request[w].row
           env == request[w].env
           e == request[w].doing
           s == SettingOf(row, env)
<1>1. RowsRooted /\ Serving(w) /\ e.does \in Settles
  BY DEF CommitSetting, Commits, Serving, TenancyInv
<1>2. s.env = env /\ s.flag = row  BY DEF SettingOf
<1>3. /\ RowOf(row) # {} /\ RowOf(env) # {} /\ e.does \in {"configure", "target"}
      /\ objects' = objects \cup {Row(<<request[w].n, "row">>, "change_request", env)}
  BY <1>2 DEF CommitSetting, StopUnchanged
<1>4. r.kind = "change_request" /\ r.parent = env
  BY <1>3 DEF Row
<1>5. e \in Endpoints
  BY <1>1, RequestFacts, Fields DEF Settles
<1>6. /\ e.min = "DEVELOPER" /\ e.on = "flag" /\ e # CreateOrganization
  BY <1>1, <1>3, <1>5, EndpointFacts DEF EndpointOK
<1>7. PICK x \in objects : x.id = env  BY <1>3 DEF RowOf
<1>8. /\ x.kind = "environment" /\ RowOf(env) = {x}
      /\ e.does = "target" => \A f \in RowOf(row) : f.parent = x.parent
  <2>1. Aims(w)  BY DEF TenancyInv, HandlerInv
  <2>2. x \in RowOf(env)  BY <1>7 DEF RowOf
  <2>3. RowOf(env) = {x}  BY <1>1, <1>7 DEF RowOf, RowsRooted
  <2> QED  BY <2>1, <2>2, <2>3, <1>1 DEF Aims, Does
<1>9. StillAllowed(w)  BY DEF TenancyInv, HandlerInv
<1>10. MemberAbove(u, x, "DEVELOPER")
  <2>1. CASE e.does = "configure"
    <3> DEFINE S == {y \in RowOf(env) : y.kind = "environment"}
    <3>1. S = {x}  BY <1>8
    <3>2. require_environment_role(u, S, e.min)
      BY <2>1, <1>1, <1>9 DEF StillAllowed, Does
    <3>3. require_project_role(u, ParentsOf(S), e.min)
      BY <3>2 DEF require_environment_role
    <3>4. S \subseteq objects /\ \A y \in S : y.kind = "environment"  BY <3>1, <1>7, <1>8
    <3> HIDE DEF S
    <3>5. \E y \in S : MemberAbove(u, y, e.min)
      BY <3>3, <3>4, <1>1, InProjectRole
    <3> QED  BY <3>1, <3>5, <1>6
  <2>2. CASE e.does = "target"
    <3>1. Allowed(u, row, e)
      BY <2>2, <1>1, <1>6, <1>9 DEF StillAllowed
    <3>2. PICK f \in RowOf(row) : f.kind = "flag" /\ MemberAbove(u, f, "DEVELOPER")
      BY <3>1, <1>1, <1>5, <1>6, AllowedMember
    <3>3. f \in objects /\ f.parent = x.parent  BY <3>2, <2>2, <1>8 DEF RowOf
    <3>4. PICK p \in objects : p.id = f.parent
      BY <3>2, <3>3, <1>1, ParentKinds
    <3>5. OrgOf(f) = OrgOf(p) /\ OrgOf(x) = OrgOf(p)
      BY <3>3, <3>4, <1>1, <1>7, OrgOfChild
    <3> QED  BY <3>2, <3>5 DEF MemberAbove
  <2> QED  BY <1>3, <2>1, <2>2
<1>11. PICK m \in members, o \in OrgOf(x) :
         m.org = o.id /\ m.user = u /\ ROLE_RANK[m.role] >= ROLE_RANK["DEVELOPER"]
  BY <1>10 DEF MemberAbove
<1>12. OrgOf(r)' = OrgOf(x)'
  <2>1. RowsRooted' /\ x \in objects'  BY <1>3, <1>7 DEF TenancyInv
  <2>2. \A y, p \in objects' : y.parent = p.id => OrgOf(y)' = OrgOf(p)'
    BY <2>1, OrgOfChildNext DEF OrgsFollow
  <2> QED  BY <2>1, <2>2, <1>4, <1>7
<1>13. o \in OrgOf(r)'
  <2>1. objects \subseteq objects'  BY <1>3
  <2> QED  BY <2>1, <1>12, OrgOfGrows
<1>14. Needed(r.kind) = "DEVELOPER"  BY <1>4 DEF Needed
<1> QED  BY <1>11, <1>13, <1>14 DEF Entitled

\* The steps that change no row of an organisation.
LEMMA RowsUntouched ==
  ASSUME NEW w \in Handlers,
         \/ StartRequest(w) \/ Break(w) \/ ReadMember(w) \/ CountOwners(w) \/ ReadEnvironments(w)
         \/ CommitWrite(w) \/ CommitAdd(w) \/ CommitChange(w) \/ CommitExpel(w)
  PROVE  objects' = objects
<1>1. StartRequest(w) => objects' = objects
  BY DEF StartRequest, StartOrganization, StartHandler, StartMember, StartSetting, Begin
<1>2. (Break(w) \/ ReadMember(w) \/ CountOwners(w) \/ ReadEnvironments(w)) => objects' = objects
  BY DEF Break, StopUnchanged, ReadMember, CountOwners, ReadEnvironments
<1>3. (CommitWrite(w) \/ CommitAdd(w)) => objects' = objects
  BY DEF CommitWrite, CommitAdd, StopUnchanged
<1>4. (CommitChange(w) \/ CommitExpel(w)) => objects' = objects
  BY DEF CommitChange, CommitExpel, StopUnchanged
<1> QED  BY <1>1, <1>2, <1>3, <1>4

\* Isolation of organisations: whoever makes a row appear or disappear, directly
\* or by cascade, has the role for it in the row's own organisation at that moment,
\* unless another request has committed since it was let in.
THEOREM ChangesAreByMembers == TenancySpec => ChangesByMembers
<1> DEFINE A == \A r \in (objects \ objects') \cup (objects' \ objects) : Governed(r) =>
       \E w \in Handlers : Writing(w) /\
         (\/ ~request[w].alone
          \/ \E m \in members :
               /\ m.user = request[w].user
               /\ ROLE_RANK[m.role] >= ROLE_RANK[Needed(r.kind)]
               /\ (\E o \in OrgOf(r) : o.id = m.org)
                    \/ (\E o \in OrgOf(r)' : o.id = m.org))
<1>1. TenancyInv /\ TenancyInv' /\ [TenancyNext]_tenancyVars => A
  <2> SUFFICES ASSUME TenancyInv, TenancyInv', [TenancyNext]_tenancyVars,
                      NEW r \in (objects \ objects') \cup (objects' \ objects), Governed(r)
               PROVE  \E w \in Handlers : Writing(w) /\
                        (~request[w].alone
                         \/ \E m \in members : \/ Entitled(w, m, r.kind, OrgOf(r))
                                               \/ Entitled(w, m, r.kind, OrgOf(r)'))
    BY DEF Entitled
  <2>1. PICK w \in Handlers : CommitRows(w) \/ CommitDelete(w) \/ CommitSetting(w)
    BY RowsUntouched DEF TenancyNext, Proceed, tenancyVars
  <2>2. Writing(w)
    BY <2>1 DEF CommitRows, CommitDelete, CommitSetting, Commits, Writing
  <2>3. ASSUME CommitDelete(w), request[w].alone
        PROVE  \E m \in members : Entitled(w, m, r.kind, OrgOf(r))
    <3>1. r \in Cascade(request[w].row)  BY <2>3 DEF CommitDelete
    <3> QED  BY <3>1, <2>3, GoneByMembers
  <2>4. ASSUME CommitRows(w) \/ CommitSetting(w), request[w].alone
        PROVE  \E m \in members : Entitled(w, m, r.kind, OrgOf(r)')
    <3>1. objects \subseteq objects'
      BY <2>4 DEF CommitRows, CommitSetting, StopUnchanged
    <3>2. r \in objects' /\ r \notin objects  BY <3>1
    <3>3. r.kind # "organization"  BY <3>2 DEF Governed
    <3> QED  BY <3>2, <3>3, <2>4, CreatedByMembers, GatedByMembers
  <2> QED  BY <2>1, <2>2, <2>3, <2>4
<1> HIDE DEF A
<1>2. TenancySpec => [][A]_tenancyVars
  BY <1>1, TenancyInvariant, PTL DEF TenancySpec
<1> QED  BY <1>2 DEF A, ChangesByMembers
=============================================================================
