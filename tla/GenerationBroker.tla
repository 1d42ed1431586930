-------------------------- MODULE GenerationBroker --------------------------
(***************************************************************************)
(* The Redis generation broker of Studio: three FIFO lanes, an index of    *)
(* the queued ids, and two tables for the claimed ids (heartbeat score and *)
(* priority).  Each Lua script or MULTI pipeline is one atomic step; what  *)
(* a method does with several round trips is several steps, and the calls  *)
(* of the other processes come in between.                                 *)
(*                                                                         *)
(* Every worker runs one maintenance loop, which makes one broker call at  *)
(* a time, beside the tasks that render its jobs, which call complete.     *)
(***************************************************************************)
EXTENDS Integers, Sequences, FiniteSets, SequencesExt

CONSTANTS
    Jobs,        \* job ids
    Workers,     \* worker processes
    LaneOf,      \* the queue_priority stored with each job
    BurstLimit,  \* _PRIORITY_BURST_LIMIT of the dispatcher
    Capacity     \* how many jobs a worker's dispatcher holds at once

Lanes == {"priority", "standard", "browse-only"}

ASSUME BrokerAssumption ==
    /\ LaneOf \in [Jobs -> Lanes]
    /\ BurstLimit \in Nat \ {0}
    /\ Capacity \in Nat \ {0}

VARIABLES
    queue,            \* lane -> ids, oldest first         (queued:<lane>)
    queuedIndex,      \* ids in some lane                  (queued:index)
    claimedScore,     \* id -> "none" | "fresh" | "stale"  (claimed:scores)
    claimedPriority,  \* id -> lane or "none"              (claimed:priority)
    active,           \* worker -> ids its dispatcher is tracking
    phase,            \* worker -> the call its maintenance loop is in
    lane,             \* worker -> the lane that call has picked
    target,           \* worker -> the id that call is handling, or NoJob
    stale,            \* worker -> ids still to be recovered by that call
    streak,           \* worker -> _broker_priority_streak, saturating
    passing,          \* worker -> its call picked priority past a waiting standard job
    overtaken         \* worker -> such calls in a row that returned

broker   == <<queue, queuedIndex, claimedScore, claimedPriority>>
progress == <<phase, lane, target, stale>>
dispatch == <<streak, passing, overtaken>>
vars     == <<broker, active, progress, dispatch>>

Phases == {"idle", "dequeue", "accept", "recover", "requeue"}
NoJob  == "no job"

-----------------------------------------------------------------------------
(* The scripts and pipelines, each on the four Redis keys at once.         *)

Waiting(l) == Len(queue[l]) > 0
IsClaimed(j) == claimedScore[j] # "none" \/ claimedPriority[j] # "none"

\* An id occurs once in a lane, so LREM of all its occurrences removes one.
Without(ids, j) ==
    IF j \in ToSet(ids) THEN RemoveAt(ids, CHOOSE i \in DOMAIN ids : ids[i] = j) ELSE ids

AddToQueue(j, l) ==
    /\ queuedIndex' = queuedIndex \cup {j}
    /\ queue' = [queue EXCEPT ![l] = Append(@, j)]

DropClaim(j) ==
    /\ claimedScore' = [claimedScore EXCEPT ![j] = "none"]
    /\ claimedPriority' = [claimedPriority EXCEPT ![j] = "none"]

\* Mutant: only the index is consulted.
EnqueueClaimed(j, l) ==
    /\ j \notin queuedIndex
    /\ AddToQueue(j, l)
    /\ UNCHANGED <<claimedScore, claimedPriority>>

EnqueueScript(j, l) ==
    /\ j \notin queuedIndex
    /\ claimedScore[j] = "none"
    /\ claimedPriority[j] = "none"
    /\ AddToQueue(j, l)
    /\ UNCHANGED <<claimedScore, claimedPriority>>

ClaimNextScript(l) ==
    LET j == Head(queue[l]) IN
    /\ Waiting(l)
    /\ queue' = [queue EXCEPT ![l] = Tail(@)]
    /\ queuedIndex' = queuedIndex \ {j}
    /\ claimedScore' = [claimedScore EXCEPT ![j] = "fresh"]
    /\ claimedPriority' = [claimedPriority EXCEPT ![j] = l]

\* Mutant: a plain ZADD, whoever holds the id.
HeartbeatAnything(j) ==
    /\ claimedScore' = [claimedScore EXCEPT ![j] = "fresh"]
    /\ UNCHANGED <<queue, queuedIndex, claimedPriority>>

HeartbeatScript(j) ==
    /\ IsClaimed(j)
    /\ claimedScore' = [claimedScore EXCEPT ![j] = "fresh"]
    /\ UNCHANGED <<queue, queuedIndex, claimedPriority>>

CompletePipeline(j) == DropClaim(j) /\ UNCHANGED <<queue, queuedIndex>>

RequeueScript(j, l) ==
    /\ DropClaim(j)
    /\ IF claimedScore[j] # "none" /\ j \notin queuedIndex
       THEN AddToQueue(j, l)
       ELSE UNCHANGED <<queue, queuedIndex>>

\* Mutant: the SREM of the index is missing.
DiscardKeepingIndex(j) ==
    /\ queue' = [l \in Lanes |-> Without(queue[l], j)]
    /\ DropClaim(j)
    /\ UNCHANGED queuedIndex

DiscardPipeline(j) ==
    /\ queuedIndex' = queuedIndex \ {j}
    /\ queue' = [l \in Lanes |-> Without(queue[l], j)]
    /\ DropClaim(j)

-----------------------------------------------------------------------------
(* Any process: the web process that created the job, maintenance putting  *)
(* it back, shutdown recovery; compensation and reconciliation discard.    *)

Enqueue(j) ==
    /\ EnqueueScript(j, LaneOf[j])
    /\ UNCHANGED <<active, progress, dispatch>>

Discard(j) ==
    /\ DiscardPipeline(j)
    /\ UNCHANGED <<active, progress, dispatch>>

\* Time passes without a heartbeat until the score is behind every cutoff.
ClaimGoesStale(j) ==
    /\ claimedScore[j] = "fresh"
    /\ claimedScore' = [claimedScore EXCEPT ![j] = "stale"]
    /\ UNCHANGED <<queue, queuedIndex, claimedPriority, active, progress, dispatch>>

\* The loop is between two broker calls.
Rest(w) ==
    /\ phase' = [phase EXCEPT ![w] = "idle"]
    /\ lane' = [lane EXCEPT ![w] = "standard"]
    /\ target' = [target EXCEPT ![w] = NoJob]
    /\ stale' = [stale EXCEPT ![w] = {}]

-----------------------------------------------------------------------------
(* dequeue_next: read the lane lengths, choose, then claim from that lane. *)

\* Mutant: the limit is off by one.
ChooseLaneLate(w) ==
    CASE Waiting("priority") /\ ~(Waiting("standard") /\ streak[w] > BurstLimit) -> "priority"
      [] Waiting("standard") /\ (Waiting("priority") => streak[w] > BurstLimit) -> "standard"
      [] ~Waiting("priority") /\ ~Waiting("standard") /\ Waiting("browse-only") -> "browse-only"
      [] OTHER -> "none"

\* _choose_priority: the lane to serve, "none" when all are empty.
ChooseLane(w) ==
    CASE Waiting("priority") /\ ~(Waiting("standard") /\ streak[w] >= BurstLimit) -> "priority"
      [] Waiting("standard") /\ (Waiting("priority") => streak[w] >= BurstLimit) -> "standard"
      [] ~Waiting("priority") /\ ~Waiting("standard") /\ Waiting("browse-only") -> "browse-only"
      [] OTHER -> "none"

\* Mutant: the streak is never counted.
NoStreak(w, l) == 0

NextStreak(w, l) ==
    IF l = "priority" THEN (IF streak[w] < BurstLimit THEN streak[w] + 1 ELSE BurstLimit) ELSE 0

\* The dispatcher stores the next streak once the call has returned, and only
\* then. passing and overtaken are history (overtaken is capped once it exceeds
\* the limit).
Returns(w, l) ==
    /\ streak' = [streak EXCEPT ![w] = NextStreak(w, l)]
    /\ overtaken' = [overtaken EXCEPT ![w] =
                        IF ~passing[w] THEN 0 ELSE IF @ > BurstLimit THEN @ ELSE @ + 1]
    /\ passing' = [passing EXCEPT ![w] = FALSE]

ReadSizes(w) ==
    LET l == ChooseLane(w) IN
    /\ phase[w] = "idle"
    /\ Cardinality(active[w]) < Capacity
    /\ IF l = "none"
       THEN Returns(w, l) /\ UNCHANGED <<phase, lane>>
       ELSE /\ phase' = [phase EXCEPT ![w] = "dequeue"]
            /\ lane' = [lane EXCEPT ![w] = l]
            /\ passing' = [passing EXCEPT ![w] = l = "priority" /\ Waiting("standard")]
            /\ UNCHANGED <<streak, overtaken>>
    /\ UNCHANGED <<broker, active, target, stale>>

ClaimNext(w) ==
    /\ phase[w] = "dequeue"
    /\ ClaimNextScript(lane[w])
    /\ Returns(w, lane[w])
    /\ target' = [target EXCEPT ![w] = Head(queue[lane[w]])]
    /\ phase' = [phase EXCEPT ![w] = "accept"]
    /\ lane' = [lane EXCEPT ![w] = "standard"]
    /\ UNCHANGED <<active, stale>>

\* Another process emptied the lane between the two round trips.
ClaimFindsNothing(w) ==
    /\ phase[w] = "dequeue"
    /\ ~Waiting(lane[w])
    /\ Returns(w, lane[w])
    /\ Rest(w)
    /\ UNCHANGED <<broker, active>>

\* The script took effect and its answer is lost: the call raises, the id stays
\* claimed by nobody, the streak is the one before the call.
ClaimLost(w) ==
    /\ phase[w] = "dequeue"
    /\ ClaimNextScript(lane[w])
    /\ passing' = [passing EXCEPT ![w] = FALSE]
    /\ Rest(w)
    /\ UNCHANGED <<active, streak, overtaken>>

\* The id is new here and its durable claim was granted: it is dispatched.
Accept(w) ==
    /\ phase[w] = "accept"
    /\ target[w] \notin active[w]
    /\ active' = [active EXCEPT ![w] = @ \cup {target[w]}]
    /\ Rest(w)
    /\ UNCHANGED <<broker, dispatch>>

\* Already tracked here, or the durable claim was refused: drop the entry.
Refuse(w) ==
    /\ phase[w] = "accept"
    /\ CompletePipeline(target[w])
    /\ Rest(w)
    /\ UNCHANGED <<active, dispatch>>

-----------------------------------------------------------------------------
(* Jobs a worker is rendering.                                             *)

Heartbeat(w, j) ==
    /\ phase[w] = "idle"
    /\ j \in active[w]
    /\ HeartbeatScript(j)
    /\ UNCHANGED <<active, progress, dispatch>>

Complete(w, j) ==
    /\ j \in active[w]
    /\ active' = [active EXCEPT ![w] = @ \ {j}]
    /\ CompletePipeline(j)
    /\ UNCHANGED <<progress, dispatch>>

\* The task is cancelled, or its complete call fails: the claim stays.
Abandon(w, j) ==
    /\ j \in active[w]
    /\ active' = [active EXCEPT ![w] = @ \ {j}]
    /\ UNCHANGED <<broker, progress, dispatch>>

-----------------------------------------------------------------------------
(* requeue_stale_claims: list, then for each id read its lane and requeue. *)

ListStale(w) ==
    /\ phase[w] = "idle"
    /\ stale' = [stale EXCEPT ![w] = {j \in Jobs : claimedScore[j] = "stale"}]
    /\ phase' = [phase EXCEPT ![w] = IF stale'[w] = {} THEN "idle" ELSE "recover"]
    /\ UNCHANGED <<broker, active, lane, target, dispatch>>

\* Mutants: the missing hash field has no default; the field is not read at all.
ReadPriorityRaw(w) ==
    /\ phase[w] = "recover"
    /\ \E j \in stale[w] :
        /\ target' = [target EXCEPT ![w] = j]
        /\ lane' = [lane EXCEPT ![w] = claimedPriority[j]]
    /\ phase' = [phase EXCEPT ![w] = "requeue"]
    /\ UNCHANGED <<broker, active, stale, dispatch>>

ReadNoPriority(w) ==
    /\ phase[w] = "recover"
    /\ \E j \in stale[w] : target' = [target EXCEPT ![w] = j]
    /\ phase' = [phase EXCEPT ![w] = "requeue"]
    /\ UNCHANGED <<broker, active, lane, stale, dispatch>>

ReadPriority(w) ==
    /\ phase[w] = "recover"
    /\ \E j \in stale[w] :
        /\ target' = [target EXCEPT ![w] = j]
        /\ lane' = [lane EXCEPT ![w] =
                        IF claimedPriority[j] = "none" THEN "standard" ELSE claimedPriority[j]]
    /\ phase' = [phase EXCEPT ![w] = "requeue"]
    /\ UNCHANGED <<broker, active, stale, dispatch>>

Requeue(w) ==
    /\ phase[w] = "requeue"
    /\ RequeueScript(target[w], lane[w])
    /\ stale' = [stale EXCEPT ![w] = @ \ {target[w]}]
    /\ phase' = [phase EXCEPT ![w] = IF stale'[w] = {} THEN "idle" ELSE "recover"]
    /\ target' = [target EXCEPT ![w] = NoJob]
    /\ lane' = [lane EXCEPT ![w] = "standard"]
    /\ UNCHANGED <<active, dispatch>>

-----------------------------------------------------------------------------
(* Failures.                                                               *)

\* A Redis call of the loop raises: the pass is given up where it stands, and a
\* dequeue that had read the lane lengths leaves the streak as it was.
PassFails(w) ==
    /\ phase[w] # "idle"
    /\ passing' = [passing EXCEPT ![w] = FALSE]
    /\ Rest(w)
    /\ UNCHANGED <<broker, active, streak, overtaken>>

Crash(w) ==
    /\ active' = [active EXCEPT ![w] = {}]
    /\ streak' = [streak EXCEPT ![w] = 0]
    /\ passing' = [passing EXCEPT ![w] = FALSE]
    /\ overtaken' = [overtaken EXCEPT ![w] = 0]
    /\ Rest(w)
    /\ UNCHANGED broker

-----------------------------------------------------------------------------

Init ==
    /\ queue = [l \in Lanes |-> <<>>]
    /\ queuedIndex = {}
    /\ claimedScore = [j \in Jobs |-> "none"]
    /\ claimedPriority = [j \in Jobs |-> "none"]
    /\ active = [w \in Workers |-> {}]
    /\ phase = [w \in Workers |-> "idle"]
    /\ lane = [w \in Workers |-> "standard"]
    /\ target = [w \in Workers |-> NoJob]
    /\ stale = [w \in Workers |-> {}]
    /\ streak = [w \in Workers |-> 0]
    /\ passing = [w \in Workers |-> FALSE]
    /\ overtaken = [w \in Workers |-> 0]

JobStep(j) == Enqueue(j) \/ Discard(j) \/ ClaimGoesStale(j)

LoopStep(w) ==
    \/ ReadSizes(w) \/ ClaimNext(w) \/ ClaimFindsNothing(w) \/ ClaimLost(w)
    \/ Accept(w) \/ Refuse(w)
    \/ ListStale(w) \/ ReadPriority(w) \/ Requeue(w)

TaskStep(w, j) == Heartbeat(w, j) \/ Complete(w, j) \/ Abandon(w, j)

Next ==
    \/ \E j \in Jobs : JobStep(j)
    \/ \E w \in Workers : LoopStep(w) \/ PassFails(w) \/ Crash(w)
    \/ \E w \in Workers, j \in Jobs : TaskStep(w, j)

Spec == Init /\ [][Next]_vars

\* The loop of a live worker keeps running (it sleeps, then starts the next
\* pass), Redis answers again after an outage, and renders end.
Fairness ==
    \A w \in Workers :
        /\ WF_vars(LoopStep(w))
        /\ SF_vars(ReadSizes(w))
        /\ \A l \in Lanes : SF_vars(lane[w] = l /\ ClaimNext(w))
        /\ \A j \in Jobs : WF_vars(Complete(w, j))

FairSpec == Spec /\ Fairness

-----------------------------------------------------------------------------
(* Properties.                                                             *)

TypeOK ==
    /\ queue \in [Lanes -> Seq(Jobs)]
    /\ queuedIndex \subseteq Jobs
    /\ claimedScore \in [Jobs -> {"none", "fresh", "stale"}]
    /\ claimedPriority \in [Jobs -> Lanes \cup {"none"}]
    /\ active \in [Workers -> SUBSET Jobs]
    /\ phase \in [Workers -> Phases]
    /\ lane \in [Workers -> Lanes]
    /\ target \in [Workers -> Jobs \cup {NoJob}]
    /\ stale \in [Workers -> SUBSET Jobs]
    /\ streak \in [Workers -> 0..BurstLimit]
    /\ passing \in [Workers -> BOOLEAN]
    /\ overtaken \in [Workers -> Nat]

\* Part of KeysAgree: the index that enqueue consults is exactly the set of ids in the lanes, and
\* no id is in two lanes or twice in one: scripts that touch one of the two keys
\* without the other would lose a job or run it twice.
IndexMirrorsLanes ==
    /\ \A j \in Jobs : j \in queuedIndex <=> \E l \in Lanes : j \in ToSet(queue[l])
    /\ \A l \in Lanes : IsInjective(queue[l])
    /\ \A l, m \in Lanes : l # m => ToSet(queue[l]) \cap ToSet(queue[m]) = {}

\* Part of KeysAgree: the two claim tables list the same ids: a score without a priority would be
\* recovered into the wrong lane, a priority without a score never recovered.
ClaimTablesAgree ==
    \A j \in Jobs : claimedScore[j] = "none" <=> claimedPriority[j] = "none"

\* The four keys agree about every id: a script that misses one of them leaves
\* an id that is lost, handed out twice, or refused for ever.
KeysAgree == IndexMirrorsLanes /\ ClaimTablesAgree

\* No id is waiting and claimed at once, whatever the processes interleave
\* (generation_broker.py:12-15).
NeverInTwoPlaces == \A j \in queuedIndex : ~IsClaimed(j)

\* A worker's dequeue calls never answer from the priority lane more than BurstLimit
\* times in a row past a waiting standard job, whatever other calls fail in between
\* (a call that raises hands nothing out and is counted neither here nor in the code).
BurstIsBounded == \A w \in Workers : overtaken[w] <= BurstLimit

\* With one worker a job waits only in the lane its owner's plan bought, also
\* after a recovery that read its lane in a round trip of its own.
JobsKeepTheirLane ==
    \A l \in Lanes, j \in Jobs : j \in ToSet(queue[l]) => LaneOf[j] = l

PlaceOf(j) ==
    IF j \in queuedIndex THEN "queued" ELSE IF claimedScore[j] # "none" THEN "claimed" ELSE "out"
Contract == INSTANCE BrokerContract WITH place <- [j \in Jobs |-> PlaceOf(j)]

\* Each transition of the Redis keys is a transition of the promised broker.
KeepsContract == Contract!Spec

\* A waiting standard job leaves its lane even under endless priority traffic,
\* provided workers stop crashing: a crash forgets the streak.
StandardIsServed ==
    <>[][\A w \in Workers : ~Crash(w)]_vars =>
        \A j \in Jobs : j \in ToSet(queue["standard"]) ~> j \notin ToSet(queue["standard"])

=============================================================================
