---------------------------- MODULE FlagServing ----------------------------
(***************************************************************************)
(* One flag in one environment, edited by one request after the other, and *)
(* evaluated: by the API, by the SDK from the serialised ruleset, by the   *)
(* simulation of the dashboard and by the impact analysis of a change      *)
(* request.  Targeting has the same edits side by side.                    *)
(***************************************************************************)
EXTENDS Evaluation

CONSTANTS
  Tree,        \* condition trees by name; what rows hold is the name
  Keys,        \* segment keys
  SegmentTrees, \* SegmentTrees[k]: the trees clients save as segment k
  Variations,  \* the variations of the flag, in the order of their creation
  RuleSets,    \* sets of rules clients send
  Settings,    \* settings clients send
  Named,       \* context keys of overrides
  Contexts,    \* contexts of requests
  HashedKey,   \* the value an event's hashed key has, the key of no user
  MaxRules     \* bound on the rules ever saved

VARIABLES
  setting,     \* flag_environment_setting: enabled, default, off, bucketing
  rules,       \* rows of targeting_rule
  overrides,   \* rows of individual_override, a function from context keys
  segments,    \* rows of segment, a function from keys to [tree, first]
  lastId,      \* ids given to rules so far
  checked      \* history: the rules went through set_targeting_rules_atomic

fsvars == <<setting, rules, overrides, segments, lastId, checked>>

NoSegment == "none"
AllRefs == {"key", "id"} \X Keys
Own == {Variations[i] : i \in DOMAIN Variations}

\* The rules that requests and payloads contain.
Entries == [variation : STRING, weight : Int]
RuleFields ==
  [priority : Int, conditions : DOMAIN Tree, segment : Keys \cup {NoSegment}, distribution : Seq(Entries)]

\* Trees are of nodes, and the one segments start with is valid.
ASSUME TreeAssumption ==
  /\ Tree \in [DOMAIN Tree -> Nodes]
  /\ "everybody" \in DOMAIN Tree /\ ValidTree(Tree["everybody"])
  /\ \A k \in Keys : SegmentTrees[k] \subseteq DOMAIN Tree

\* A variation has a key.
ASSUME VariationsAssumption == Variations \in Seq(STRING \ {NoVariation})

ASSUME RequestsAssumption ==
  /\ \A R \in RuleSets : R \subseteq RuleFields /\ IsFiniteSet(R)
  /\ MaxRules \in Nat

ASSUME ContextsAssumption ==
  \A raw \in Contexts : raw.attributes = [a \in DOMAIN raw.attributes |-> raw.attributes[a]]

\* A flag whose environment was created after it, with the row of
\* get_or_create_flag_setting.
FlagServingInit ==
  /\ setting = [enabled |-> FALSE, default |-> NoVariation, off |-> NoVariation,
                bucketing |-> "userId"]
  /\ rules = {}
  /\ overrides = [c \in {} |-> NoVariation]
  /\ segments = [k \in Keys |-> [tree |-> "everybody", first |-> TRUE]]
  /\ lastId = 0
  /\ checked = TRUE

\* The rows a reference names: by key, or by the id of the first row of a key.
RowsOfRef(ref) ==
  {k \in DOMAIN segments : k = ref[2] /\ (ref[1] = "id" => segments[k].first)}

\* The segments of a ruleset, under their keys and their ids.
SegmentsByRef ==
  [ref \in {r \in {"key", "id"} \X DOMAIN segments : RowsOfRef(r) # {}} |->
     Tree[segments[ref[2]].tree]]

-----------------------------------------------------------------------------
(* Edits.                                                                   *)

UniquePriorities(R) == \A r, q \in R : r.priority = q.priority => r = q

\* The segment a rule names must be there, for the foreign key too.
SegmentsThere(R) == \A r \in R : r.segment # NoSegment => r.segment \in DOMAIN segments

OwnVariations(R) == \A r \in R : \A i \in DOMAIN r.distribution : r.distribution[i].variation \in Own

\* The checks of set_targeting_rules_atomic.
Accepted(R) ==
  /\ UniquePriorities(R)
  /\ OwnVariations(R)
  /\ SegmentsThere(R)
  /\ \A r \in R :
       /\ ValidDistribution(r.distribution)
       /\ ValidTree(Tree[r.conditions])
       /\ \A ref \in SegmentRefs(Tree[r.conditions]) : RowsOfRef(ref) # {}

\* New rows: every rule gets a new id, by priority.
Inserted(R) ==
  {[id |-> lastId + Cardinality({q \in R : q.priority <= r.priority}),
    priority |-> r.priority, conditions |-> r.conditions, segment |-> r.segment,
    distribution |-> r.distribution] : r \in R}

Replace(R) ==
  /\ lastId + Cardinality(R) <= MaxRules
  /\ rules' = Inserted(R)
  /\ lastId' = lastId + Cardinality(R)
  /\ UNCHANGED <<setting, overrides, segments>>

set_targeting_rules_atomic(R) ==
  /\ Accepted(R)
  /\ Replace(R)
  /\ checked' = TRUE

\* _execute_payload_mutations: only the constraints of the table are checked.
ApplyRules(R) ==
  /\ UniquePriorities(R) /\ SegmentsThere(R)
  /\ Replace(R)
  /\ checked' = FALSE

\* A payload, or a request, overwrites what it names; the API refuses foreign
\* variations and the change request does not.
SettingAfter(old, new) ==
  [enabled |-> new.enabled,
   default |-> IF new.default = NoVariation THEN old.default ELSE new.default,
   off |-> IF new.off = NoVariation THEN old.off ELSE new.off,
   bucketing |-> new.bucketing]

update_flag_setting(new) ==
  /\ {new.default, new.off} \subseteq Own \cup {NoVariation}
  /\ setting' = SettingAfter(setting, new)
  /\ UNCHANGED <<rules, overrides, segments, lastId, checked>>

ApplySetting(new) ==
  /\ setting' = SettingAfter(setting, new)
  /\ UNCHANGED <<rules, overrides, segments, lastId, checked>>

\* check_cyclic_segment_reference follows the references of the new conditions,
\* and remembers on each path the references and the keys it has met.
Cyclic(k, t) ==
  LET cyclic[s \in DOMAIN Tree, visited \in SUBSET AllRefs] ==
        \E ref \in SegmentRefs(Tree[s]) :
          \/ ref \in visited
          \/ \E q \in RowsOfRef(ref) : cyclic[segments[q].tree, visited \cup {ref, <<"key", q>>}]
  IN  cyclic[t, {<<"key", k>>}]

\* create_segment or update_segment.
SaveSegment(k, t) ==
  /\ ValidTree(Tree[t])
  /\ ~Cyclic(k, t)
  /\ segments' = [q \in DOMAIN segments \cup {k} |->
       IF q # k THEN segments[q]
       ELSE [tree |-> t, first |-> k \in DOMAIN segments /\ segments[k].first]]
  /\ UNCHANGED <<setting, rules, overrides, lastId, checked>>

\* delete_segment asks nobody who refers to it; the foreign key sets NULL.
delete_segment(k) ==
  /\ k \in DOMAIN segments
  /\ segments' = Without(segments, k)
  /\ rules' = {[r EXCEPT !.segment = IF @ = k THEN NoSegment ELSE @] : r \in rules}
  /\ UNCHANGED <<setting, overrides, lastId, checked>>

create_individual_override(c, v) ==
  /\ v \in Own
  /\ overrides' = [x \in DOMAIN overrides \cup {c} |-> IF x = c THEN v ELSE overrides[x]]
  /\ UNCHANGED <<setting, rules, segments, lastId, checked>>

delete_individual_override(c) ==
  /\ c \in DOMAIN overrides
  /\ overrides' = Without(overrides, c)
  /\ UNCHANGED <<setting, rules, segments, lastId, checked>>

FlagServingNext ==
  \/ \E R \in RuleSets : set_targeting_rules_atomic(R) \/ ApplyRules(R)
  \/ \E new \in Settings : update_flag_setting(new) \/ ApplySetting(new)
  \/ \E k \in Keys : \E t \in SegmentTrees[k] : SaveSegment(k, t)
  \/ \E k \in Keys : delete_segment(k)
  \/ \E c \in Named, v \in Own : create_individual_override(c, v)
  \/ \E c \in Named : delete_individual_override(c)

FlagServingSpec == FlagServingInit /\ [][FlagServingNext]_fsvars

-----------------------------------------------------------------------------
(* Rulesets.                                                                *)

\* Entries of foreign variations are dropped when a ruleset is built.
Known(d) ==
  LET kept[i \in 0..Len(d)] ==
        IF i = 0 THEN <<>>
        ELSE IF d[i].variation \in Own THEN Append(kept[i - 1], d[i]) ELSE kept[i - 1]
  IN  kept[Len(d)]

EngineRule(r, tree) ==
  [id |-> r.id, priority |-> r.priority, tree |-> tree, distribution |-> Known(r.distribution)]

Mine(v) == IF v \in Own THEN v ELSE NoVariation

\* load_ruleset_bundle: a variation that is not set falls back.
BundleOf(set, R) ==
  LET default == IF set.default = NoVariation THEN Variations[1] ELSE Mine(set.default)
  IN  [enabled |-> set.enabled, default |-> default,
       off |-> IF set.off = NoVariation THEN default ELSE Mine(set.off),
       bucketing |-> set.bucketing,
       rules |-> {EngineRule(r, Tree[r.conditions]) : r \in R},
       overrides |-> overrides, segments |-> SegmentsByRef]

Bundle == BundleOf(setting, rules)

Server(raw) == evaluate(Bundle, ServerContext(raw))

\* get_ruleset_payload: variations become ids.
Payload == Bundle

\* parse_ruleset: an id it does not know becomes the default variation.
Parse(payload) ==
  LET resolve(v) == IF v \in Own THEN v ELSE payload.default
      entries(d) == [i \in DOMAIN d |-> [d[i] EXCEPT !.variation = resolve(@)]]
  IN  [payload EXCEPT
         !.rules = {[r EXCEPT !.distribution = entries(@)] : r \in @},
         !.overrides = [c \in DOMAIN @ |-> resolve(@[c])]]

\* The SDK carries its own copy of the engine, which is line by line the same.
SdkEvaluate(rs, ctx) == evaluate(rs, ctx)

\* get_evaluation in the process of the application: an exception becomes the
\* default value of the caller.
Sdk(raw) ==
  LET result == SdkEvaluate(Parse(Payload), SdkContext(raw))
  IN  IF result.reason = Raises THEN Result(NoVariation, "ERROR", NoRule) ELSE result

\* simulate_flag_evaluation adds a rule's own segment to its conditions, which
\* the other evaluations ignore, and knows no fallback.
InSegment(k) ==
  [operator |-> "IS_ONE_OF_SEGMENT", attribute |-> "", values |-> {}, ref |-> <<"key", k>>,
   conditions |-> <<>>, children |-> <<>>]

WithSegment(n, k) ==
  IF k = NoSegment THEN n
  ELSE IF n.operator \in {"AND", "OR"} THEN [n EXCEPT !.conditions = Append(@, InSegment(k))]
  ELSE [InSegment(k) EXCEPT
          !.operator = "AND", !.ref = <<"key", "">>,
          !.conditions = <<InSegment(k)>> \o
            IF n.operator = "LIST" THEN n.conditions ELSE <<n>>]

Simulation(raw) ==
  LET rs == [Bundle EXCEPT !.default = Mine(setting.default), !.off = Mine(setting.off),
                           !.rules = {EngineRule(r, WithSegment(Tree[r.conditions], r.segment)) : r \in rules}]
  IN  evaluate(rs, SimulationContext(raw))

\* Mutant of SimulatedRules: the rules are tried on a flag that is on.
SimulatedRulesOn(R) ==
  [Bundle EXCEPT !.enabled = TRUE, !.rules =
     {[id |-> NoRule, priority |-> r.priority, tree |-> Tree[r.conditions],
       distribution |-> Known(r.distribution)] : r \in R}]

\* _build_simulated_flag_ruleset, for rules and for a setting; all the rules it
\* makes have the id sim-rule.
SimulatedRules(R) ==
  [Bundle EXCEPT !.rules =
     {[id |-> NoRule, priority |-> r.priority, tree |-> Tree[r.conditions],
       distribution |-> Known(r.distribution)] : r \in R}]

SimulatedSetting(new) ==
  [Bundle EXCEPT !.enabled = new.enabled, !.bucketing = new.bucketing,
     !.default = IF new.default \in Own THEN new.default ELSE @,
     !.off = IF new.off \in Own THEN new.off ELSE @]

Impact(ruleset, raw) == evaluate(ruleset, ImpactContext(raw, HashedKey))

-----------------------------------------------------------------------------
(* Properties.                                                              *)

\* Names of rules, segments and variations in the rows.
FlagServingTypeOK ==
  /\ setting.default \in Own \cup {NoVariation} \cup {s.default : s \in Settings}
  /\ \A r \in rules : r.id \in 1..lastId /\ r.conditions \in DOMAIN Tree
  /\ DOMAIN segments \subseteq Keys /\ \A k \in DOMAIN segments : segments[k].tree \in DOMAIN Tree
  /\ DOMAIN overrides \subseteq Named /\ \A c \in DOMAIN overrides : overrides[c] \in Own
  /\ lastId \in 0..MaxRules /\ checked \in BOOLEAN

\* A chain of n references, from a tree.
Chain(tree, length) ==
  LET chain[n \in 0..length] ==
        {t \in DOMAIN Tree :
           n = 0 \/ \E ref \in SegmentRefs(Tree[t]) :
                      n = 1 \/ \E k \in RowsOfRef(ref) : segments[k].tree \in chain[n - 1]}
  IN  tree \in chain[length]

ShortChains == \A r \in rules : ~Chain(r.conditions, MaxSegmentDepth + 1)

Plain(raw) ==
  /\ \A a \in Fields(raw) : ~raw.fields[a].nan
  /\ \A a \in DOMAIN raw.attributes : ~raw.attributes[a].nan

PlainTrees == \A n \in Nodes : n.operator \in Numeric => ~The(n.values).nan

\* What the checks of set_targeting_rules_atomic and of the segments accept, the
\* engine evaluates for every context, whatever edits follow: it raises only for
\* a NaN, or a chain of more than three segments, which nothing refuses.
AcceptedEvaluates ==
  (checked /\ ShortChains /\ PlainTrees) =>
    \A raw \in Contexts : Plain(raw) => Server(raw).reason # Raises

\* The SDK answers what the API answers, and the caller's default where the API
\* fails, although it rebuilds the ruleset from ids.
SdkAgrees ==
  \A raw \in Contexts :
    LET server == Server(raw)
        sdk == Sdk(raw)
    IN  IF server.reason = Raises THEN sdk.reason = "ERROR" ELSE sdk = server

\* "Simulate evaluation of a flag": the dashboard shows what the SDKs get, unless
\* a rule names a segment of its own, a variation is not set, or the context has
\* both userId and targetingKey.
SimulationAgrees ==
  (/\ \A r \in rules : r.segment = NoSegment
   /\ NoVariation \notin {setting.default, setting.off}) =>
     \A raw \in Contexts :
       ~({"userId", "targetingKey"} \subseteq Fields(raw)) => Simulation(raw) = Server(raw)

\* An event tells the key of its user under exactly one of the names that
\* simulate_impact knows: beside targeting_key the API reads only the object
\* attributes, beside targetingKey everything but it; simulate_impact reads the
\* object first.
Traceable(raw) ==
  \E name \in EventKeys :
    /\ EventKeys \cap Fields(raw) = {name} /\ ~Falsy(raw.fields[name])
    /\ name = "targeting_key" => Fields(raw) = {name} \/ DOMAIN raw.attributes # {}
    /\ name = "targetingKey" => DOMAIN raw.attributes = {}

Predicts(predicted, actual) == predicted.reason # "SPLIT" => predicted.variant = actual.variant

\* The impact analysis predicts the variation every traceable user gets once
\* the change request is applied, unless the user is in a percentage rollout
\* (the rules will have other ids) or the payload names a foreign variation.
ImpactPredicts ==
  LET Foretold(simulated, applied) ==
        \A raw \in {c \in Contexts : Traceable(c)} :
          Predicts(Impact(simulated, raw), evaluate(applied, ServerContext(raw)))
  IN  /\ \A R \in RuleSets : (UniquePriorities(R) /\ SegmentsThere(R)) =>
           Foretold(SimulatedRules(R), BundleOf(setting, Inserted(R)))
      /\ \A new \in Settings : {new.default, new.off} \subseteq Own =>
           Foretold(SimulatedSetting(new), BundleOf(SettingAfter(setting, new), rules))

\* What a tree means, by quantifiers: no order, no depth; fuel ends cycles.
Means(tree, ctx, segs) ==
  LET means[p \in Nodes \X (0..MaxSegmentDepth)] ==
        LET n == p[1]
            fuel == p[2]
            condition(c) ==
              IF c.operator = "IS_ONE_OF_SEGMENT"
              THEN fuel > 0 /\ c.ref \in DOMAIN segs /\ means[<<segs[c.ref], fuel - 1>>]
              ELSE apply_operator(c.operator, Lookup(ctx, c.attribute), c.values) = Yes
        IN  IF n.operator \in {"AND", "LIST"}
            THEN /\ \A i \in DOMAIN n.conditions : condition(n.conditions[i])
                 /\ \A i \in DOMAIN n.children : means[<<n.children[i], fuel>>]
            ELSE \/ \E i \in DOMAIN n.conditions : condition(n.conditions[i])
                 \/ \E i \in DOMAIN n.children : means[<<n.children[i], fuel>>]
  IN  means[<<tree, MaxSegmentDepth>>]

\* The rule that decides, if any, is the one of the least priority among those
\* whose conditions are true of the context; a disabled flag and an override
\* leave it no say.
FollowsRules ==
  \A raw \in Contexts :
    LET ctx == ServerContext(raw)
        true == {r \in rules : Means(Tree[r.conditions], ctx, SegmentsByRef)}
        result == Server(raw)
        silent == ~setting.enabled \/ BucketingValue(Bundle, ctx) \in DOMAIN overrides
    IN  result.reason # Raises =>
          IF silent \/ true = {} THEN result.rule = NoRule
          ELSE \E r \in true : result.rule = r.id /\ \A q \in true : r.priority <= q.priority

\* Whoever is bucketed into an entry lies in the share of that entry: nobody gets
\* a variation with weight 0, and the fallback to the last entry is never used.
SharesRespected ==
  \A r \in rules : LET d == Known(r.distribution) IN ValidDistribution(d) =>
    \A x \in DOMAIN Hash :
      LET b == (Hash[x] % Resolution) * Unit IN
      \E i \in DOMAIN d : /\ bucket(d, Hash[x]) = d[i].variation
                           /\ Weight(d, i - 1) <= b /\ b < Weight(d, i)

\* A request that only widens the share of the first variation of a rule.
Widened(r, q) ==
  /\ q.priority = r.priority /\ q.conditions = r.conditions /\ q.segment = r.segment
  /\ [i \in DOMAIN q.distribution |-> q.distribution[i].variation]
       = [i \in DOMAIN r.distribution |-> r.distribution[i].variation]
  /\ q.distribution[1].weight > r.distribution[1].weight

OnlyWidens ==
  /\ UNCHANGED <<setting, overrides, segments>>
  /\ Cardinality(rules) = Cardinality(rules')
  /\ \A r \in rules : \E q \in rules' : Widened(r, q)

\* ADR-007: when a rollout is raised from 10 to 20 percent, all users of the 10
\* percent must stay in the 20 percent.
RolloutMonotone ==
  [][OnlyWidens =>
       \A raw \in Contexts : \A r \in rules :
         (/\ Server(raw).rule = r.id
          /\ Server(raw).variant = r.distribution[1].variation) =>
            Server(raw)'.variant = r.distribution[1].variation]_fsvars
=============================================================================
