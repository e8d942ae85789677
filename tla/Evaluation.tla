----------------------------- MODULE Evaluation -----------------------------
(***************************************************************************)
(* The evaluation engine: operators, condition trees, segments, bucketing  *)
(* and the order in which a flag is decided.  Everything here is a pure    *)
(* function; FlagServing has the state.                                    *)
(*                                                                         *)
(* A value is what the conversions of the engine make of it: its text, the *)
(* number Python compares it as, its Decimal and its Version, each a set   *)
(* with at most one element; truth tells Booleans apart, nan is Decimal's  *)
(* NaN.  Relations between texts are constants.                            *)
(***************************************************************************)
EXTENDS Integers, Sequences, FiniteSets, SequencesExt

CONSTANTS
  TextContains,  \* pairs of texts <<p, t>>: p occurs in t
  TextStarts,    \* p is a prefix of t
  TextEnds,      \* p is a suffix of t
  RegexFinds,    \* the pattern p compiles and is found in t in time
  Hash,          \* Hash[<<r, t>>]: the unsigned MurmurHash3 of flag, rule r and text t
  Nodes          \* the nodes of condition trees

ASSUME HashAssumption == Hash \in [DOMAIN Hash -> Nat]

\* The parts of a node are nodes.
ASSUME NodesAssumption == \A n \in Nodes : n.conditions \in Seq(Nodes) /\ n.children \in Seq(Nodes)

MaxDepth == 5
MaxSegmentDepth == 3
Resolution == 10000    \* buckets
Unit == 10             \* weights are in thousandths of a percent: Unit for one bucket
Whole == Resolution * Unit

Yes == "yes"
No  == "no"
Raises == "raises"

-----------------------------------------------------------------------------
(* Operators: c is the value of the context, r the one of the rule.         *)

IsDecimal(v) == v.number # {} \/ v.nan

Equal(c, r) ==
  IF c.truth # "none" \/ r.truth # "none" THEN c.truth = r.truth
  ELSE IF IsDecimal(c) /\ IsDecimal(r) THEN c.number \cap r.number # {}
  ELSE c.text = r.text

\* Python's == on numbers and Booleans, or equal texts.
InList(c, rs) == \E r \in rs : c.python \cap r.python # {} \/ c.text = r.text

Numeric == {"GT", "GTE", "LT", "LTE"}
Semver  == {"SEMVER_EQ", "SEMVER_NEQ", "SEMVER_GT", "SEMVER_GTE", "SEMVER_LT", "SEMVER_LTE"}

Compares(op, x, y) ==
  \/ op \in {"GT", "SEMVER_GT"} /\ x > y
  \/ op \in {"GTE", "SEMVER_GTE"} /\ x >= y
  \/ op \in {"LT", "SEMVER_LT"} /\ x < y
  \/ op \in {"LTE", "SEMVER_LTE"} /\ x <= y
  \/ op = "SEMVER_EQ" /\ x = y
  \/ op = "SEMVER_NEQ" /\ x # y

\* A value that does not convert compares with nothing.
Ordered(op, c, r) ==
  \/ op \in Numeric /\ \E x \in c.number, y \in r.number : Compares(op, x, y)
  \/ op \in Semver /\ \E x \in c.version, y \in r.version : Compares(op, x, y)

TextMatches(op, c, r) ==
  LET pair == <<r.text, c.text>> IN
  \/ op = "CONTAINS" /\ pair \in TextContains
  \/ op = "NOT_CONTAINS" /\ pair \notin TextContains
  \/ op = "STARTS_WITH" /\ pair \in TextStarts
  \/ op = "ENDS_WITH" /\ pair \in TextEnds
  \/ op = "MATCHES_REGEX" /\ pair \in RegexFinds
  \/ op = "NOT_MATCHES_REGEX" /\ pair \notin RegexFinds

\* The only value of a condition that is not a list.
The(S) == CHOOSE x \in S : TRUE

Holds(op, c, rs) ==
  \/ op = "EQ" /\ Equal(c, The(rs))
  \/ op = "NEQ" /\ ~Equal(c, The(rs))
  \/ op = "IN" /\ InList(c, rs)
  \/ op = "NOT_IN" /\ ~InList(c, rs)
  \/ op = "EXISTS"
  \/ op \in Numeric \cup Semver /\ Ordered(op, c, The(rs))
  \/ TextMatches(op, c, The(rs))

OPERATORS == {"EQ", "NEQ", "IN", "NOT_IN", "EXISTS", "NOT_EXISTS", "CONTAINS", "NOT_CONTAINS",
              "STARTS_WITH", "ENDS_WITH", "MATCHES_REGEX", "NOT_MATCHES_REGEX"}
             \cup Numeric \cup Semver

\* Decimal orders no NaN: it raises.
OrdersNaN(op, c, r) == op \in Numeric /\ IsDecimal(c) /\ IsDecimal(r) /\ (c.nan \/ r.nan)

\* present is the set of the attribute's value: empty if the context lacks it.
apply_operator(op, present, rs) ==
  IF present = {} THEN (IF op = "NOT_EXISTS" THEN Yes ELSE No)
  ELSE IF OrdersNaN(op, The(present), The(rs)) THEN Raises
  ELSE IF Holds(op, The(present), rs) THEN Yes ELSE No

-----------------------------------------------------------------------------
(* Condition trees.  A node stands for a JSON object: a condition uses       *)
(* operator, attribute, values and ref, a group uses operator, conditions    *)
(* and children; a bare list has the operator LIST.  Nodes holds the parts   *)
(* of its nodes, and what the code computes by recursion is a function on it. *)

Groups == {"AND", "OR", "LIST"}

\* What a sequence of outcomes comes to when the first that is not pass decides.
Settle(outcomes, pass) ==
  LET others == {i \in DOMAIN outcomes : outcomes[i] # pass}
  IN  IF others = {} THEN pass
      ELSE outcomes[CHOOSE i \in others : \A j \in others : i <= j]

\* EvaluationContext.get, as the set of the value found.
Lookup(ctx, a) ==
  IF a \in DOMAIN ctx.attributes THEN {ctx.attributes[a]}
  ELSE IF a \in {"targetingKey", "targeting_key"} THEN ctx.key
  ELSE {}

\* A segment that does not exist matches nothing; group matches the others.
match_condition(n, ctx, segs, sdepth, group) ==
  IF n.operator # "IS_ONE_OF_SEGMENT" THEN apply_operator(n.operator, Lookup(ctx, n.attribute), n.values)
  ELSE IF sdepth > MaxSegmentDepth THEN Raises
  ELSE IF n.ref \notin DOMAIN segs THEN No
  ELSE group[<<segs[n.ref], 1, sdepth + 1>>]

\* A place of the recursion: a node, its depth and the depth of its segment.
Places == Nodes \X (1..MaxDepth + 1) \X (1..MaxSegmentDepth + 1)

\* Whatever is not AND or a list is decided like OR.
match_condition_group(ctx, segs) ==
  LET group[p \in Places] ==
        LET n == p[1]
            depth == p[2]
            sdepth == p[3]
        IN  IF depth > MaxDepth THEN Raises
            ELSE Settle(
              [i \in DOMAIN n.conditions |-> match_condition(n.conditions[i], ctx, segs, sdepth, group)]
              \o [i \in DOMAIN n.children |-> group[<<n.children[i], depth + 1, sdepth>>]],
              IF n.operator \in {"AND", "LIST"} THEN Yes ELSE No)
  IN  group

Matches(n, ctx, segs) == match_condition_group(ctx, segs)[<<n, 1, 1>>]

\* Mutant of ValidTree: children do not count as a level.
ValidTreeFlat(tree) ==
  LET valid[n \in Nodes] ==
        IF n.operator \in Groups \/ n.children # <<>>
        THEN /\ \A i \in DOMAIN n.conditions : valid[n.conditions[i]]
             /\ \A i \in DOMAIN n.children : valid[n.children[i]]
        ELSE n.operator \in OPERATORS \cup {"IS_ONE_OF_SEGMENT"}
  IN  valid[tree]

\* validate_condition_tree: groups among the conditions count no level.
ValidTree(tree) ==
  LET valid[p \in Nodes \X (1..MaxDepth + 1)] ==
        LET n == p[1]
            depth == p[2]
        IN  /\ depth <= MaxDepth
            /\ IF n.operator \in Groups \/ n.children # <<>>
               THEN /\ \A i \in DOMAIN n.conditions : valid[<<n.conditions[i], depth>>]
                    /\ \A i \in DOMAIN n.children : valid[<<n.children[i], depth + 1>>]
               ELSE n.operator \in OPERATORS \cup {"IS_ONE_OF_SEGMENT"}
  IN  valid[<<tree, 1>>]

\* _extract_segment_refs.
SegmentRefs(tree) ==
  LET refs[n \in Nodes] ==
        (IF n.operator = "IS_ONE_OF_SEGMENT" THEN {n.ref} ELSE {})
        \cup UNION {refs[part] : part \in Range(n.conditions) \cup Range(n.children)}
  IN  refs[tree]

-----------------------------------------------------------------------------
(* Bucketing: a distribution is a sequence of variations with weights.      *)

\* What the first i entries weigh together.
Weight(d, i) ==
  LET cumulative[j \in 0..Len(d)] == IF j = 0 THEN 0 ELSE cumulative[j - 1] + d[j].weight
  IN  cumulative[i]

ValidDistribution(d) ==
  /\ d # <<>>
  /\ \A i \in DOMAIN d : d[i].weight >= 0
  /\ Weight(d, Len(d)) \in Whole - 1 .. Whole + 1

\* Mutant of Slot: a bucket at the limit of a share belongs to it.
SlotInclusive(d, b) == {i \in DOMAIN d : b * Unit <= Weight(d, i)}

\* The entries whose cumulated share reaches beyond the bucket.
Slot(d, b) == {i \in DOMAIN d : b * Unit < Weight(d, i)}

\* The first such entry; the last of all to guard against rounding.
bucket(d, h) ==
  LET slot == Slot(d, h % Resolution)
  IN  IF slot = {} THEN Last(d).variation
      ELSE d[CHOOSE i \in slot : \A j \in slot : i <= j].variation

-----------------------------------------------------------------------------
(* Flags.  A ruleset has the flag's variations, its setting, a set of rules, *)
(* overrides (a function from texts) and segments (a function from refs).    *)

NoVariation == ""

Result(variant, reason, rule) == [variant |-> variant, reason |-> reason, rule |-> rule]
NoRule == 0

TextOf(values) == IF values = {} THEN "" ELSE The(values).text

\* str(context.get(bucketing_key, targeting_key))
BucketingValue(rs, ctx) ==
  LET found == Lookup(ctx, rs.bucketing)
  IN  TextOf(IF found = {} THEN ctx.key ELSE found)

ByRule(r, value) ==
  IF Len(r.distribution) = 1 /\ r.distribution[1].weight = Whole
  THEN Result(r.distribution[1].variation, "TARGETING_MATCH", r.id)
  ELSE IF ValidDistribution(r.distribution)
  THEN Result(bucket(r.distribution, Hash[<<r.id, value>>]), "SPLIT", r.id)
  ELSE Result(NoVariation, Raises, r.id)

Hit(rs, ctx) == {r \in rs.rules : Matches(r.tree, ctx, rs.segments) # No}

\* Mutant of Decisive: the last rule that matches wins.
DecisiveLast(rs, ctx) ==
  LET hit == Hit(rs, ctx) IN {r \in hit : \A q \in hit : q.priority <= r.priority}

\* The first rule, by priority, that does not fail to match.
Decisive(rs, ctx) ==
  LET hit == Hit(rs, ctx) IN {r \in hit : \A q \in hit : r.priority <= q.priority}

\* The order of the decisions: disabled, override, rules by priority, default.
evaluate(rs, ctx) ==
  LET value == BucketingValue(rs, ctx) IN
  IF ~rs.enabled THEN Result(rs.off, "DISABLED", NoRule)
  ELSE IF value \in DOMAIN rs.overrides
  THEN Result(rs.overrides[value], "TARGETING_MATCH", NoRule)
  ELSE LET first == Decisive(rs, ctx) IN
  IF first = {} THEN Result(rs.default, "DEFAULT", NoRule)
  ELSE LET r == The(first) IN
       IF Matches(r.tree, ctx, rs.segments) = Raises THEN Result(NoVariation, Raises, r.id)
       ELSE ByRule(r, value)

-----------------------------------------------------------------------------
(* Contexts.  raw is the JSON of a request: named fields with values, and    *)
(* the object attributes that goes with targeting_key.                       *)

Without(f, x) == [a \in DOMAIN f \ {x} |-> f[a]]
Fields(raw) == DOMAIN raw.fields
Keyed(raw, a) == [key |-> {raw.fields[a]}, attributes |-> Without(raw.fields, a)]

\* _build_evaluation_context.
ServerContext(raw) ==
  IF "targeting_key" \in Fields(raw)
  THEN [key |-> {raw.fields["targeting_key"]}, attributes |-> raw.attributes]
  ELSE IF "targetingKey" \in Fields(raw) THEN Keyed(raw, "targetingKey")
  ELSE IF "userId" \in Fields(raw) THEN Keyed(raw, "userId")
  ELSE [key |-> {}, attributes |-> raw.fields]

\* Mutant of SdkContext: userId is preferred to targetingKey.
SdkContextUserFirst(raw) ==
  IF "userId" \in Fields(raw) THEN Keyed(raw, "userId")
  ELSE IF "targetingKey" \in Fields(raw) THEN Keyed(raw, "targetingKey")
  ELSE [key |-> {}, attributes |-> raw.fields]

\* _to_evaluation_context of the SDK.
SdkContext(raw) ==
  IF "targeting_key" \in Fields(raw)
  THEN [key |-> {raw.fields["targeting_key"]}, attributes |-> raw.attributes]
  ELSE IF "targetingKey" \in Fields(raw) THEN Keyed(raw, "targetingKey")
  ELSE IF "userId" \in Fields(raw) THEN Keyed(raw, "userId")
  ELSE [key |-> {}, attributes |-> raw.fields]

\* Mutant of SimulationContext: the key stays among the attributes.
SimulationContextKeeps(raw) ==
  LET keys == {"userId", "targetingKey"} \cap Fields(raw)
  IN  [key |-> {raw.fields[k] : k \in keys}, attributes |-> raw.fields]

\* simulate_flag_evaluation looks for userId before targetingKey.
SimulationContext(raw) ==
  IF "targeting_key" \in Fields(raw)
  THEN [key |-> {raw.fields["targeting_key"]}, attributes |-> raw.attributes]
  ELSE IF "userId" \in Fields(raw) THEN Keyed(raw, "userId")
  ELSE IF "targetingKey" \in Fields(raw) THEN Keyed(raw, "targetingKey")
  ELSE [key |-> {}, attributes |-> raw.fields]

\* Python's falsy values: the empty text, zero and False.
Falsy(v) == v.text = "" \/ 0 \in v.python

EventKeys == {"targetingKey", "targeting_key"}

\* simulate_impact reads the context stored with an event; without a targeting
\* key it takes the hash of the event's key, a text of no user.
ImpactContext(raw, hashed) ==
  LET keys == {k \in EventKeys \cap Fields(raw) : ~Falsy(raw.fields[k])}
      rest == [a \in Fields(raw) \ EventKeys |-> raw.fields[a]]
  IN  [key |-> IF "targetingKey" \in keys THEN {raw.fields["targetingKey"]}
               ELSE IF keys # {} THEN {raw.fields["targeting_key"]} ELSE {hashed},
       attributes |-> IF DOMAIN raw.attributes # {} THEN raw.attributes ELSE rest]
=============================================================================
