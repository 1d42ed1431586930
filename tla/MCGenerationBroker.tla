------------------------- MODULE MCGenerationBroker -------------------------
EXTENDS GenerationBroker

\* Two jobs in the two lanes that compete.
TwoJobs == {"p1", "s1"}
TwoLanes == [j \in TwoJobs |-> IF j = "s1" THEN "standard" ELSE "priority"]

\* One job in each of the three lanes.
ThreeJobs == {"p1", "s1", "b1"}
ThreeLanes == [j \in ThreeJobs |->
                  CASE j = "s1" -> "standard" [] j = "b1" -> "browse-only" [] OTHER -> "priority"]
=============================================================================
