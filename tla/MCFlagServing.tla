--------------------------- MODULE MCFlagServing ---------------------------
(* A small instance of FlagServing: trees at the limits of depth, a chain   *)
(* and a cycle of segments, hashes at the limits of the shares.              *)
EXTENDS FlagServing

Text(t) == [text |-> t, python |-> {}, number |-> {}, version |-> {}, truth |-> "none", nan |-> FALSE]
Number(t, n) == [Text(t) EXCEPT !.python = {n}, !.number = {n}]
Numeral(t, n) == [Text(t) EXCEPT !.number = {n}]
Release(t, n) == [Text(t) EXCEPT !.version = {n}]
NaN == [Text("nan") EXCEPT !.nan = TRUE]
True == [Text("true") EXCEPT !.python = {1}, !.truth = "true"]

Leaf(op, a, values) ==
  [operator |-> op, attribute |-> a, values |-> values, ref |-> <<"key", "">>,
   conditions |-> <<>>, children |-> <<>>]
In(ref) == [Leaf("IS_ONE_OF_SEGMENT", "", {}) EXCEPT !.ref = ref]
Group(op, conditions, children) ==
  [Leaf(op, "", {}) EXCEPT !.conditions = conditions, !.children = children]
List(conditions) == Group("LIST", conditions, <<>>)

VN == Leaf("EQ", "country", {Text("VN")})
Adult == Leaf("GTE", "age", {Numeral("18", 18)})
NotVN == Leaf("NOT_IN", "country", {Text("VN"), Text("US")})
NoAge == Leaf("NOT_EXISTS", "age", {})
New == Leaf("SEMVER_GT", "version", {Release("1.9.0", 9)})
Staff == Leaf("ENDS_WITH", "userId", {Text("@x")})
AOf(n) == Group("AND", <<>>, <<n>>)

MCTree ==
  [everybody |-> List(<<>>), nobody |-> Group("OR", <<>>, <<>>),
   vn |-> List(<<VN>>), bare |-> VN, noAge |-> List(<<NoAge>>),
   mixed |-> Group("AND", <<NotVN>>, <<Group("OR", <<Adult, Staff>>, <<List(<<New>>)>>)>>),
   inner |-> Group("AND", <<Group("OR", <<VN>>, <<>>)>>, <<>>),
   deep5 |-> AOf(AOf(AOf(AOf(List(<<VN>>))))),
   deep6 |-> AOf(AOf(AOf(AOf(AOf(List(<<VN>>)))))),
   inA |-> Group("OR", <<In(<<"key", "A">>), NotVN>>, <<>>),
   inB |-> List(<<In(<<"key", "B">>)>>), inC |-> List(<<In(<<"id", "C">>)>>),
   againA |-> Group("OR", <<NoAge, In(<<"id", "A">>)>>, <<>>)]

\* The nodes of these trees, and of those the simulation makes of them.
Parts(n) == {n.conditions[i] : i \in DOMAIN n.conditions} \cup {n.children[i] : i \in DOMAIN n.children}
MCNodes ==
  LET grown[level \in 0..6] ==
        IF level = 0 THEN UNION {{n, WithSegment(n, "A")} : n \in Range(MCTree)}
        ELSE LET nodes == grown[level - 1] IN nodes \cup UNION {Parts(n) : n \in nodes}
  IN  grown[6]

MCSegmentTrees == [A |-> {"inB"}, B |-> {"inC"}, C |-> {"againA"}]
MCVariations == <<"on", "off">>

Share(v, w) == [variation |-> v, weight |-> w]
Rule(p, t, s, d) == [priority |-> p, conditions |-> t, segment |-> s, distribution |-> d]
All == <<Share("on", Whole)>>
Ten == <<Share("on", 10000), Share("off", 90000)>>
Twenty == <<Share("on", 20000), Share("off", 80000)>>
Round == <<Share("off", 0), Share("on", 33330), Share("off", 66669)>>
Foreign == <<Share("on", 50000), Share("other", 50000)>>

MCRuleSets ==
  {{Rule(1, "everybody", "none", Ten)}, {Rule(1, "everybody", "none", Twenty)},
   {Rule(1, "mixed", "none", All), Rule(2, "deep5", "none", Round)},
   {Rule(1, "vn", "A", All), Rule(2, "deep6", "none", All)},
   {Rule(1, "inA", "none", All), Rule(2, "noAge", "none", Ten)},
   {Rule(1, "bare", "none", All), Rule(2, "inner", "none", Foreign)}}

Setting(e, d, o, b) == [enabled |-> e, default |-> d, off |-> o, bucketing |-> b]
MCSettings ==
  {Setting(TRUE, "", "", "targetingKey"), Setting(FALSE, "on", "off", "userId"),
   Setting(TRUE, "other", "off", "country")}

Raw(fields, attributes) == [fields |-> fields, attributes |-> attributes]
Empty == [a \in {} |-> NaN]
U1 == Text("u1@x")
U2 == Text("u2")
MCContexts ==
  {Raw([targetingKey |-> U1, country |-> Text("VN"), age |-> Number("18", 18)], Empty),
   Raw([userId |-> U1, country |-> Text("FR"), age |-> Numeral("17", 17)], Empty),
   Raw([userId |-> U2, targetingKey |-> U1, version |-> Release("1.10.0", 10), country |-> Text("FR")], Empty),
   Raw([targeting_key |-> U2, age |-> Number("18", 18)], [country |-> Text("VN"), userId |-> U1]),
   Raw([targeting_key |-> U1], Empty), Raw([targetingKey |-> Text(""), country |-> Text("FR")], Empty),
   Raw([targetingKey |-> U2, age |-> Number("18", 18)], [country |-> Text("VN")]),
   Raw([targetingKey |-> U2, age |-> NaN, country |-> Text("DE")], Empty),
   Raw([country |-> True], Empty)}

MCTextEnds == {<<"@x", "u1@x">>}
MCHash == [x \in (0..3) \X {"", "u1@x", "u2", "VN", "FR", "DE", "true", "#"} |->
  CASE x[2] = "u1@x" -> <<1000, 999, 2000, 9999>>[x[1] + 1]
    [] x[2] = "u2" -> <<10999, 11999, 9998, 4000>>[x[1] + 1]
    [] OTHER -> <<0, 0, 3333, 6666>>[x[1] + 1]]
MCHashedKey == Text("#")
=============================================================================
