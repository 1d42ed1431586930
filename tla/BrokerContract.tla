--------------------------- MODULE BrokerContract ---------------------------
(***************************************************************************)
(* What the generation broker promises its callers, whatever it is built   *)
(* from: a job id is in at most one place, waiting or claimed; it is       *)
(* claimed only out of the waiting set; it comes back from a claim only by *)
(* recovery.  The docstring of generation_broker.py states the promise,    *)
(* GenerationBroker is the Redis structure that has to keep it.            *)
(***************************************************************************)
CONSTANT Jobs

VARIABLE place   \* job -> "out" | "queued" | "claimed"

Places == {"out", "queued", "claimed"}

Init == place = [j \in Jobs |-> "out"]

Move(j, from, to) ==
    /\ place[j] \in from
    /\ place' = [place EXCEPT ![j] = to]

Enqueue(j) == Move(j, {"out"}, "queued")
Claim(j)   == Move(j, {"queued"}, "claimed")
Recover(j) == Move(j, {"claimed"}, "queued")
Finish(j)  == Move(j, {"claimed"}, "out")
Discard(j) == Move(j, {"queued", "claimed"}, "out")

Next == \E j \in Jobs : Enqueue(j) \/ Claim(j) \/ Recover(j) \/ Finish(j) \/ Discard(j)

Spec == Init /\ [][Next]_place
=============================================================================
