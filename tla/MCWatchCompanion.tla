--------------------------- MODULE MCWatchCompanion ---------------------------
EXTENDS WatchCompanion, TLC
CONSTANTS m1, m2, a1, a2, b1, r1, r2, c1, c2

OneHome == a1 :> m1 @@ a2 :> m1
TwoHomes == a1 :> m1 @@ b1 :> m2

\* Something to recommend beside a section with nothing to report, and
\* nothing found at all.
Busy == [s \in Sections |-> IF s = "apps" THEN "loud"
                            ELSE IF s = "security" THEN "quiet" ELSE "empty"]
Bare == [s \in Sections |-> "empty"]

TwoContents == {Busy, Bare}

Alike == Permutations({a1, a2}) \cup Permutations({r1, r2}) \cup Permutations({c1, c2})
===============================================================================
