----------------------------- MODULE MCStudioChat -----------------------------
EXTENDS StudioChat, TLC
CONSTANTS c1, c2, s1, s2, t1, t2

TwoSends == {s1, s2, "edit", "regenerate", "delete"}
MayFail == {s1, s2, "edit", "fetch"}

Alike == Permutations({c1, c2}) \cup Permutations({s1, s2})
===============================================================================
