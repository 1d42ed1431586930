---------------------------- MODULE MCStudioStore ----------------------------
EXTENDS StudioStore, TLC

CONSTANTS p1, p2, m1, m2, g1, g2, s1

\* g1 and g2 are about one job, which m1 changes too.
FourRecords == (m1 :> "job" @@ m2 :> "user" @@ g1 :> "job" @@ g2 :> "job" @@ s1 :> "audit")

Setup(a, b, cancels) == [calls |-> (p1 :> a @@ p2 :> b), cancels |-> cancels]

\* One process makes every kind of call; two make no mutate and are cancelled.
CarefulSetups == {Setup({m1, m2, g1, s1}, {}, FALSE), Setup({g1, s1}, {g2}, TRUE)}

\* A web process makes a mutate while a worker updates a job.
SplitSetups == {Setup({m2}, {g2}, FALSE)}
=============================================================================
