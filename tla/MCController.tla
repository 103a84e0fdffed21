---------------------------- MODULE MCController ----------------------------
(* Three sources that need each other's topics; each may commit, publish its    *)
(* output before or after, bound to the revision or not, or leave it out.       *)
EXTENDS Controller

MCTexts == {"m0", "m1"}
MCIdentities == [t \in MCTexts |-> NoReqs]
MCDocOf == NoReqs
MCNeeds == <<{"a"}, {"a"}, {"b", "c"}>>
MCOutputs == <<{"b"}, {"c"}, {}>>
Fact(topic, bound) == [kind |-> "publish", topic |-> topic, bound |-> bound]
Model == [kind |-> "commit", text |-> "m1"]
Publications(topic) ==
  UNION {{<<>>, <<Fact(topic, bound)>>, <<Model, Fact(topic, bound)>>,
          <<Fact(topic, bound), Model>>} : bound \in BOOLEAN}
MCEffects == <<Publications("b") \cup {<<Fact("b", FALSE), Fact("a", TRUE)>>},
               Publications("c"), {<<>>, <<Model>>, <<Fact("a", FALSE)>>}>>
MCSeeds == <<Fact("a", TRUE)>>
=============================================================================
