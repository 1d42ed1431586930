------------------------- MODULE GenerationLifecycle -------------------------
(***************************************************************************)
(* The life of Studio's generation jobs across processes: the web process  *)
(* that persists and enqueues them, the workers that claim and render      *)
(* them, the maintenance loop each worker runs, the nightly orphan sweep,  *)
(* crashes, graceful stops and restarts.                                   *)
(*                                                                         *)
(* The processes share the durable store and the broker.  A broker call is *)
(* one step (GenerationBroker opens it up), and so is mutate_generation,   *)
(* which locks the row it changes.  mutate is two: the table is loaded and *)
(* changed in memory, then written back whole, over what other processes   *)
(* have written since.  Each process reads jobs from its own cache, the    *)
(* table it last loaded, of which mutate_generation renews one row; an     *)
(* asyncio lock keeps its own reads and writes apart.                      *)
(***************************************************************************)
EXTENDS GenerationJobs, FiniteSets, FiniteSetsExt

CONSTANTS
    Jobs,       \* jobs a client may ask for
    Web,        \* processes that serve clients
    Renderers,  \* processes that render; one in both sets runs in mode "all"
    Funds,      \* credits of the one account
    Capacity,   \* jobs a renderer's dispatcher holds at once
    Aged,       \* jobs that come to be older than 24 hours
    Slow,       \* jobs whose leases, retry delays and broker claims may run out
    Faults,     \* what may go wrong: some of "crash", "outage", "shutdown"
    Current     \* marks a cache entry that holds what the store holds

Procs == Web \cup Renderers

ASSUME LifecycleAssumption ==
    /\ Funds \in Nat
    /\ Capacity \in Nat \ {0}
    /\ Aged \subseteq Jobs
    /\ Slow \subseteq Jobs
    /\ Current \notin Records

VARIABLES
    job,      \* durable: job -> record
    ledger,   \* durable: job -> credit entries
    balance,  \* durable: credits of the account
    place,    \* broker: job -> "out" | "queued" | "claimed" | "stale"
    up,       \* processes that are running
    view,     \* process -> job -> the cached record, or Current
    writes,   \* process -> the mutates that have still to write their table
    asked,    \* jobs that a client has asked for
    claims,   \* process -> job -> token in _active_generation_claims
    task,     \* process -> job -> where its dispatcher task is
    seen,     \* process -> job -> attempt_count the task read when it began
    phase,    \* process -> what its maintenance loop is doing
    todo,     \* process -> job -> what the loop has still to do with it
    busy,     \* process -> whether the pass has moved a job so far
    sweep,    \* process -> job -> what the orphan sweep has to do with it
    request   \* process -> job -> where its create request is

store == <<job, ledger, balance>>
loop  == <<phase, todo, busy>>
tasks == <<claims, task, seen>>
rest  == <<asked, sweep, request>>
vars  == <<store, place, up, view, writes, tasks, loop, rest>>

Nothing == "none"

TaskStates == {Nothing, "waiting", "rendering", "settling", "failing", "releasing", "closing"}
Phases     == {"stopped", "boot", "enlist", "sleep", "reconcile", "drain", "apply",
               "stopping", "returning"}
Requests   == {Nothing, "persist", "enqueue", "discard", "fail", "release", "rejected"}
Steps      == {Nothing, "queued", "claimed", "enqueue",                       \* reconcile
               "claim", "refuse",                                             \* drain
               "heartbeat", "beat", "retry", "release", "timeout", "giveup",  \* apply
               "recover", "complete", "return"}                               \* stop

-----------------------------------------------------------------------------
(* The durable store and its caches.                                       *)

Cached(p, j) == IF view[p][j] = Current THEN job[j] ELSE view[p][j]

\* What q's cache becomes when another process changes the jobs in S.
Behind(q, S) ==
    [j \in Jobs |-> IF j \in S /\ q \in up THEN Cached(q, j) ELSE view[q][j]]

\* The lock of p's store is free; the threads of callers that were cancelled
\* run on without it.
Unlocked(p) == \A w \in writes[p] : w.who = "gone"

Put(p, j, r) ==
    /\ Unlocked(p)
    /\ job' = [job EXCEPT ![j] = r]
    /\ view' = [q \in Procs |-> IF q = p THEN [view[p] EXCEPT ![j] = Current]
                                ELSE Behind(q, {j})]

\* mutate_generation by p: the row is read, changed and written back under a
\* lock.  A job that is not there stays away and no cache moves.
Save(p, j, r) ==
    IF job[j].status = "absent" THEN Unlocked(p) /\ UNCHANGED <<job, view>> ELSE Put(p, j, r)

\* mutate by p for one of its parts: the table is loaded and changed in memory.
Mutate(p, who, j, table) ==
    /\ Unlocked(p)
    /\ writes' = [writes EXCEPT ![p] = @ \cup {[who |-> who, on |-> j, table |-> table]}]
    /\ view' = [view EXCEPT ![p] = [i \in Jobs |->
                    IF table.job[i] = job[i] THEN Current ELSE table.job[i]]]
    /\ UNCHANGED store

Table(jobs, entries, credits) == [job |-> jobs, ledger |-> entries, balance |-> credits]

\* The table is written, whatever the store holds by now.
Replace(p, w) ==
    /\ job' = w.table.job
    /\ ledger' = w.table.ledger
    /\ balance' = w.table.balance
    /\ writes' = [writes EXCEPT ![p] = @ \ {w}]
    /\ view' = [q \in Procs |-> IF q = p /\ w.who # "gone" THEN [j \in Jobs |-> Current]
                                ELSE Behind(q, {j \in Jobs : w.table.job[j] # job[j]})]

\* The parts in S are cancelled: their threads may still write.
Abandon(W, S) == {IF w.who \in S THEN [w EXCEPT !.who = "gone"] ELSE w : w \in W}

\* The second transaction of _update_job_status, which asks again only whether
\* the job is still there.
WriteRelease(p, who, j) ==
    LET entries == IF job[j].status = "absent" THEN ledger
                   ELSE [ledger EXCEPT ![j] = Write(@, "release", Reserve)]
    IN  Mutate(p, who, j, Table(job, entries, balance))

\* Whether _update_job_status(j, s) will go on to that transaction.
OwesRelease(j, s) == job[j].status # "absent" /\ WithStatus(job[j], s).credit = "released"

\* Credits held by unfinished jobs (resolve_billing_state).
Held == {j \in Jobs : job[j].status \in Active /\ job[j].credit = "reserved"}
Spendable == balance - Reserve * Cardinality(Held)

\* A uuid4 that nobody holds for this job.
Fresh(j) == Tokens \ ({job[j].token} \cup {claims[p][j] : p \in Procs})

-----------------------------------------------------------------------------
(* The broker (BrokerContract).                                            *)

BrokerEnqueue(j)  == place' = [place EXCEPT ![j] = IF @ = "out" THEN "queued" ELSE @]
BrokerComplete(j) == place' = [place EXCEPT ![j] = IF @ \in {"claimed", "stale"} THEN "out" ELSE @]
BrokerDiscard(j)  == place' = [place EXCEPT ![j] = "out"]
BrokerBeat(j)     == place' = [place EXCEPT ![j] = IF @ = "stale" THEN "claimed" ELSE @]

ClaimGoesStale(j) ==
    /\ j \in Slow
    /\ place[j] = "claimed"
    /\ place' = [place EXCEPT ![j] = "stale"]
    /\ UNCHANGED <<store, up, view, writes, tasks, loop, rest>>

(* Time: the lease, heartbeat or retry delay of a job runs out, and so it  *)
(* does in a cached copy, whose deadline is never the later one.           *)

DeadlinePasses(j) ==
    /\ j \in Slow
    /\ job[j].status \in {"running", "retryable_failed"}
    /\ job[j].clock = "fresh"
    /\ job' = [job EXCEPT ![j].clock = "elapsed"]
    /\ UNCHANGED <<ledger, balance, place, up, view, writes, tasks, loop, rest>>

CachedDeadlinePasses(p, j) ==
    /\ j \in Slow
    /\ view[p][j] # Current
    /\ view[p][j].status \in {"running", "retryable_failed"}
    /\ view[p][j].clock = "fresh"
    /\ view' = [view EXCEPT ![p][j].clock = "elapsed"]
    /\ UNCHANGED <<store, place, up, writes, tasks, loop, rest>>

-----------------------------------------------------------------------------
(* The web process: create a job, delete one that failed.                  *)

Serving(p) == p \in up /\ phase[p] \notin {"boot", "enlist", "stopping", "returning"}

Ask(p, j, from, to) ==
    /\ request[p][j] = from
    /\ request' = [request EXCEPT ![p][j] = to]

Create(p, j) ==
    /\ p \in Web
    /\ Serving(p)
    /\ j \notin asked
    /\ asked' = asked \cup {j}
    /\ Spendable >= Reserve
    /\ Mutate(p, "create", j,
              Table([job EXCEPT ![j] = Created],
                    [ledger EXCEPT ![j] = Write(@, "reserve", Reserve)], balance))
    /\ Ask(p, j, Nothing, "persist")
    /\ UNCHANGED <<place, up, tasks, loop, sweep>>

\* The broker says no when it already has the job.  Mode "all" then makes sure
\* that the maintenance loop runs.
RequestEnqueue(p, j) ==
    /\ IF place[j] = "out"
       THEN /\ Ask(p, j, "enqueue", Nothing)
            /\ phase' = IF p \in Renderers /\ phase[p] = "stopped"
                        THEN [phase EXCEPT ![p] = "sleep"] ELSE phase
       ELSE /\ Ask(p, j, "enqueue", "discard")
            /\ UNCHANGED phase
    /\ BrokerEnqueue(j)
    /\ UNCHANGED <<store, up, view, writes, asked, tasks, todo, busy, sweep>>

\* The broker raises, before or after it took the job.
RequestRaises(p, j) ==
    /\ "outage" \in Faults
    /\ Ask(p, j, "enqueue", "discard")
    /\ BrokerEnqueue(j) \/ UNCHANGED place
    /\ UNCHANGED <<store, up, view, writes, asked, tasks, loop, sweep>>

\* _compensate_generation_enqueue_failure; the discard may fail unnoticed.
RequestDiscard(p, j) ==
    /\ Ask(p, j, "discard", "fail")
    /\ BrokerDiscard(j) \/ ("outage" \in Faults /\ UNCHANGED place)
    /\ UNCHANGED <<store, up, view, writes, asked, tasks, loop, sweep>>

RequestFail(p, j) ==
    /\ Ask(p, j, "fail", IF OwesRelease(j, "failed") THEN "release" ELSE "rejected")
    /\ Save(p, j, WithStatus(job[j], "failed"))
    /\ UNCHANGED <<ledger, balance, place, up, writes, asked, tasks, loop, sweep>>

RequestRelease(p, j) ==
    /\ request[p][j] = "release"
    /\ WriteRelease(p, "request", j)
    /\ UNCHANGED <<place, up, tasks, loop, rest>>

\* delete_generation judges by the cached record and drops the row.
Delete(p, j) ==
    /\ p \in Web
    /\ Serving(p)
    /\ Cached(p, j).status \in {"retryable_failed", "failed", "timed_out"}
    /\ ~Cached(p, j).outputs
    /\ Put(p, j, Absent)
    /\ UNCHANGED <<ledger, balance, place, up, writes, tasks, loop, rest>>

-----------------------------------------------------------------------------
(* One pass of a renderer's maintenance loop.  It reads jobs from its own  *)
(* cache and works through them one await at a time; todo[p] is what is    *)
(* left of the lists it has made.                                          *)

Tracked(p, j) == task[p][j] # Nothing
Running(p, j) == task[p][j] \notin {Nothing, "waiting"}
InHand(p, steps) == {j \in Jobs : todo[p][j] \in steps}

Calm == [j \in Jobs |-> Nothing]

Then(p, j, step) == todo' = [todo EXCEPT ![p][j] = step]
Noted(p, b) == busy' = [busy EXCEPT ![p] = @ \/ b]

\* Broker entries are judged against the local cache, the waiting ones first.
Inspect(p) ==
    /\ phase[p] = "sleep"
    /\ phase' = [phase EXCEPT ![p] = "reconcile"]
    /\ busy' = [busy EXCEPT ![p] = FALSE]
    /\ todo' = [todo EXCEPT ![p] = [j \in Jobs |->
                    CASE place[j] = "queued" -> "queued"
                      [] place[j] \in {"claimed", "stale"} -> "claimed"
                      [] OTHER -> Nothing]]
    /\ UNCHANGED <<store, place, up, view, writes, tasks, rest>>

Keeps(p, j) == Cached(p, j).status = (IF todo[p][j] = "queued" THEN "queued" ELSE "running")

ReconcileJob(p, j) ==
    /\ phase[p] = "reconcile"
    /\ Unlocked(p)
    /\ InHand(p, {"enqueue"}) = {}
    /\ \/ todo[p][j] = "queued"
       \/ todo[p][j] = "claimed" /\ InHand(p, {"queued"}) = {}
    /\ IF Keeps(p, j) THEN UNCHANGED place ELSE BrokerDiscard(j)
    /\ Then(p, j, IF todo[p][j] = "claimed" /\ Cached(p, j).status = "queued"
                  THEN "enqueue" ELSE Nothing)
    /\ UNCHANGED <<store, up, view, writes, tasks, phase, busy, rest>>

RecoverStale(p) ==
    /\ phase[p] = "reconcile"
    /\ InHand(p, Steps \ {Nothing}) = {}
    /\ phase' = [phase EXCEPT ![p] = "drain"]
    /\ place' = [j \in Jobs |-> IF place[j] = "stale" THEN "queued" ELSE place[j]]
    /\ Noted(p, \E j \in Jobs : place[j] = "stale")
    /\ UNCHANGED <<store, up, view, writes, tasks, todo, rest>>

\* _drain_generation_broker_into_dispatcher: pop, claim the job durably, track it.
HasCapacity(p) == Cardinality({j \in Jobs : Tracked(p, j)}) < Capacity
Draining(p) == phase[p] = "drain" /\ InHand(p, {"claim", "refuse"}) = {}

Dequeue(p, j) ==
    /\ Draining(p)
    /\ HasCapacity(p)
    /\ place[j] = "queued"
    /\ place' = [place EXCEPT ![j] = "claimed"]
    /\ Then(p, j, "claim")
    /\ UNCHANGED <<store, up, view, writes, tasks, phase, busy, rest>>

Take(p, j) ==
    /\ phase[p] = "drain"
    /\ todo[p][j] = "claim"
    /\ ~Tracked(p, j)
    /\ MayClaim(job[j])
    /\ \E t \in Fresh(j) :
        /\ Put(p, j, Claimed(job[j], t))
        /\ claims' = [claims EXCEPT ![p][j] = t]
    /\ task' = [task EXCEPT ![p][j] = "waiting"]
    /\ Noted(p, TRUE)
    /\ Then(p, j, Nothing)
    /\ UNCHANGED <<ledger, balance, place, up, writes, seen, phase, rest>>

\* Tracked here already, or refused by the store: the entry is dropped.
Refuse(p, j) ==
    /\ phase[p] = "drain"
    /\ todo[p][j] = "claim"
    /\ \/ Tracked(p, j) /\ UNCHANGED claims
       \/ /\ ~Tracked(p, j)
          /\ Unlocked(p)
          /\ ~MayClaim(job[j])
          /\ claims' = [claims EXCEPT ![p][j] = NoToken]
    /\ Then(p, j, "refuse")
    /\ UNCHANGED <<store, place, up, view, writes, task, seen, phase, busy, rest>>

CompleteRefused(p, j) ==
    /\ phase[p] = "drain"
    /\ todo[p][j] = "refuse"
    /\ BrokerComplete(j)
    /\ Then(p, j, Nothing)
    /\ UNCHANGED <<store, up, view, writes, tasks, phase, busy, rest>>

\* What the pass has to do for a cached job.
Verdict(p, j) ==
    LET r == Cached(p, j)
        overdue == r.clock = "elapsed"
        spent == r.attempts >= AttemptLimit
    IN  CASE r.status = "queued" /\ ~Tracked(p, j)                     -> "enqueue"
          [] r.status = "running" /\ Running(p, j)                     -> "heartbeat"
          [] r.status = "running" /\ ~Running(p, j) /\ overdue         -> IF spent THEN "timeout" ELSE "retry"
          [] r.status = "retryable_failed" /\ spent                    -> "giveup"
          [] r.status = "retryable_failed" /\ ~spent /\ overdue /\ ~Tracked(p, j) -> "retry"
          [] OTHER                                                     -> Nothing

\* Mutant: unfinished jobs in the cache do not keep the loop going.
StillBusyShort(p) == busy[p] \/ \E j \in Jobs : place[j] = "queued" \/ Tracked(p, j)

StillBusy(p) ==
    busy[p] \/ \E j \in Jobs : place[j] = "queued" \/ Tracked(p, j) \/ Cached(p, j).status \in Active

\* An idle pass ends the loop: nothing is awaited between this look and the break.
Survey(p) ==
    /\ Draining(p)
    /\ Unlocked(p)
    /\ HasCapacity(p) => \A j \in Jobs : place[j] # "queued"
    /\ Noted(p, StillBusy(p))
    /\ phase' = [phase EXCEPT ![p] = IF StillBusy(p) THEN "apply" ELSE "stopped"]
    /\ todo' = [todo EXCEPT ![p] = [j \in Jobs |-> Verdict(p, j)]]
    /\ UNCHANGED <<store, place, up, view, writes, tasks, rest>>

\* The lists in the order the pass works them off; a release belongs to the
\* time-out or failure before it.
Order == <<"heartbeat", "beat", "retry", "release", "timeout", "giveup", "enqueue">>

Turn(p, j, k) ==
    /\ phase[p] = "apply"
    /\ todo[p][j] = Order[k]
    /\ \A i \in 1..(k - 1) : InHand(p, {Order[i]}) = {}

HeartbeatJob(p, j) ==
    LET held == claims[p][j] IN
    /\ Turn(p, j, 1)
    /\ IF held # NoToken /\ MayRefresh(job[j], held)
       THEN /\ Put(p, j, Refreshed(job[j]))
            /\ UNCHANGED claims
       ELSE /\ Save(p, j, WithStatus(job[j], "running"))
            /\ claims' = [claims EXCEPT ![p][j] = NoToken]
    /\ Then(p, j, "beat")
    /\ UNCHANGED <<ledger, balance, place, up, writes, task, seen, phase, busy, rest>>

BeatBroker(p, j) ==
    /\ Turn(p, j, 2)
    /\ BrokerBeat(j)
    /\ Then(p, j, Nothing)
    /\ UNCHANGED <<store, up, view, writes, tasks, phase, busy, rest>>

RetryJob(p, j) ==
    /\ Turn(p, j, 3)
    /\ Save(p, j, Queued(job[j]))
    /\ Then(p, j, "enqueue")
    /\ UNCHANGED <<ledger, balance, place, up, writes, tasks, phase, busy, rest>>

EndJob(p, j, s) ==
    /\ Save(p, j, WithStatus(job[j], s))
    /\ Then(p, j, IF OwesRelease(j, s) THEN "release" ELSE Nothing)
    /\ UNCHANGED <<ledger, balance, place, up, writes, tasks, phase, busy, rest>>

ReleaseJob(p, j) ==
    /\ Turn(p, j, 4)
    /\ WriteRelease(p, "loop", j)
    /\ UNCHANGED <<place, up, tasks, loop, rest>>

TimeOutJob(p, j) == Turn(p, j, 5) /\ EndJob(p, j, "timed_out")
GiveUpJob(p, j) == Turn(p, j, 6) /\ EndJob(p, j, "failed")

EnqueueJob(p, j) ==
    /\ todo[p][j] = "enqueue"
    /\ phase[p] \in {"reconcile", "enlist"} \/ Turn(p, j, 7)
    /\ BrokerEnqueue(j)
    /\ Then(p, j, Nothing)
    /\ UNCHANGED <<store, up, view, writes, tasks, phase, busy, rest>>

EndPass(p) ==
    /\ phase[p] \in {"apply", "enlist"}
    /\ InHand(p, Steps \ {Nothing}) = {}
    /\ phase' = [phase EXCEPT ![p] = "sleep"]
    /\ busy' = [busy EXCEPT ![p] = FALSE]
    /\ UNCHANGED <<store, place, up, view, writes, tasks, todo, rest>>

\* A broker call raises, before or after it did its work: the rest of the pass
\* is skipped.
PassFails(p) ==
    /\ "outage" \in Faults
    /\ phase[p] \in {"reconcile", "drain"} \/ \E j \in Jobs : Turn(p, j, 2) \/ Turn(p, j, 7)
    /\ phase' = [phase EXCEPT ![p] = "sleep"]
    /\ todo' = [todo EXCEPT ![p] = Calm]
    /\ busy' = [busy EXCEPT ![p] = FALSE]
    /\ UNCHANGED <<store, place, up, view, writes, tasks, rest>>

-----------------------------------------------------------------------------
(* A dispatcher task renders one job: _process_generation.                 *)

Goes(p, j, from, to) ==
    /\ task[p][j] = from
    /\ task' = [task EXCEPT ![p][j] = to]

\* The token the drain left is refreshed, or the job is claimed anew.
HoldsClaim(p, j) == claims[p][j] # NoToken /\ MayRefresh(job[j], claims[p][j])

Begin(p, j) ==
    /\ Goes(p, j, "waiting", "rendering")
    /\ Cached(p, j).status # "absent"
    /\ \/ /\ HoldsClaim(p, j)
          /\ Put(p, j, Refreshed(job[j]))
          /\ UNCHANGED claims
       \/ /\ ~HoldsClaim(p, j)
          /\ MayClaim(job[j])
          /\ \E t \in Fresh(j) :
                 /\ Put(p, j, Claimed(job[j], t))
                 /\ claims' = [claims EXCEPT ![p][j] = t]
    /\ seen' = [seen EXCEPT ![p][j] = job'[j].attempts]
    /\ UNCHANGED <<ledger, balance, place, up, writes, loop, rest>>

\* The job is gone, ended or under another live claim.
BeginRefused(p, j) ==
    /\ Goes(p, j, "waiting", "closing")
    /\ Unlocked(p)
    /\ \/ Cached(p, j).status = "absent" /\ UNCHANGED claims
       \/ /\ Cached(p, j).status # "absent"
          /\ ~HoldsClaim(p, j)
          /\ ~MayClaim(job[j])
          /\ claims' = [claims EXCEPT ![p][j] = NoToken]
    /\ UNCHANGED <<store, place, up, view, writes, seen, loop, rest>>

\* Mutant: the charge is not refused when the account cannot pay.
SettleUnchecked(p, j, c) ==
    /\ job[j].status \notin {"absent", "succeeded"}
    /\ Goes(p, j, "rendering", "settling")
    /\ Mutate(p, "task", j,
              Table([job EXCEPT ![j] = Completed(@, c)], [ledger EXCEPT ![j] = Settlement(@, c)],
                    IF ledger[j].spend = 0 THEN balance - c ELSE balance))
    /\ UNCHANGED <<place, up, claims, seen, loop, rest>>

\* The provider delivered and the charge comes to c: a mutate, which asks
\* neither for the claim token nor for the status, "succeeded" excepted.
Settle(p, j, c) ==
    /\ job[j].status \notin {"absent", "succeeded"}
    /\ ledger[j].spend > 0 \/ balance >= c
    /\ Goes(p, j, "rendering", "settling")
    /\ Mutate(p, "task", j,
              Table([job EXCEPT ![j] = Completed(@, c)], [ledger EXCEPT ![j] = Settlement(@, c)],
                    IF ledger[j].spend = 0 THEN balance - c ELSE balance))
    /\ UNCHANGED <<place, up, claims, seen, loop, rest>>

SettleAgain(p, j) ==
    /\ job[j].status = "succeeded"
    /\ Goes(p, j, "rendering", "settling")
    /\ Mutate(p, "task", j, Table(job, ledger, balance))
    /\ UNCHANGED <<place, up, claims, seen, loop, rest>>

\* The row is gone, or the account cannot pay: the callback raises.  What it
\* had done to the state it was given stays in the cache.
SettleRaises(p, j, c) ==
    /\ Goes(p, j, "rendering", "failing")
    /\ Unlocked(p)
    /\ \/ /\ job[j].status = "absent"
          /\ view' = [view EXCEPT ![p] = [i \in Jobs |-> Current]]
       \/ /\ job[j].status \notin {"absent", "succeeded"}
          /\ ledger[j].spend = 0
          /\ balance < c
          /\ view' = [view EXCEPT ![p] = [i \in Jobs |->
                          IF i = j THEN Completed(job[j], c) ELSE Current]]
    /\ UNCHANGED <<store, place, up, writes, claims, seen, loop, rest>>

\* ProviderTemporaryError; the attempt count is the one read at the start.
TemporaryFailure(p, j) ==
    /\ seen[p][j] < AttemptLimit
    /\ Goes(p, j, "rendering", "closing")
    /\ Save(p, j, WithStatus(job[j], "retryable_failed"))
    /\ UNCHANGED <<ledger, balance, place, up, writes, claims, seen, loop, rest>>

\* Any other error, a spent retry budget, a blocked spend guardrail.
RenderFails(p, j) ==
    /\ Goes(p, j, "rendering", "failing")
    /\ UNCHANGED <<store, place, up, view, writes, claims, seen, loop, rest>>

FailJob(p, j) ==
    /\ Goes(p, j, "failing", IF OwesRelease(j, "failed") THEN "releasing" ELSE "closing")
    /\ Save(p, j, WithStatus(job[j], "failed"))
    /\ UNCHANGED <<ledger, balance, place, up, writes, claims, seen, loop, rest>>

ReleaseFailed(p, j) ==
    /\ task[p][j] = "releasing"
    /\ WriteRelease(p, "task", j)
    /\ UNCHANGED <<place, up, tasks, loop, rest>>

Leave(p, j) ==
    /\ Goes(p, j, "closing", Nothing)
    /\ seen' = [seen EXCEPT ![p][j] = 0]
    /\ UNCHANGED <<store, up, view, writes, loop, rest>>

Close(p, j) ==
    /\ Leave(p, j)
    /\ BrokerComplete(j)
    /\ claims' = [claims EXCEPT ![p][j] = NoToken]

\* The broker raises in the finally block, before the claim token is dropped.
CloseFails(p, j) ==
    /\ "outage" \in Faults
    /\ Leave(p, j)
    /\ BrokerComplete(j) \/ UNCHANGED place
    /\ UNCHANGED claims

-----------------------------------------------------------------------------
(* The nightly sweep of jobs older than a day.                             *)

OrphanList(p) ==
    LET old == {j \in Aged : Cached(p, j).status \in Active} IN
    /\ p \in Renderers
    /\ Serving(p)
    /\ Unlocked(p)
    /\ \A j \in Jobs : sweep[p][j] = Nothing
    /\ old # {}
    /\ sweep' = [sweep EXCEPT ![p] = [j \in Jobs |-> IF j \in old THEN "timeout" ELSE Nothing]]
    /\ UNCHANGED <<store, place, up, view, writes, asked, tasks, loop, request>>

SweepTimeOut(p, j) ==
    /\ sweep[p][j] = "timeout"
    /\ \A i \in Jobs : sweep[p][i] # "release"
    /\ Save(p, j, WithStatus(job[j], "timed_out"))
    /\ sweep' = [sweep EXCEPT ![p][j] = IF OwesRelease(j, "timed_out") THEN "release" ELSE Nothing]
    /\ UNCHANGED <<ledger, balance, place, up, writes, asked, tasks, loop, request>>

SweepRelease(p, j) ==
    /\ sweep[p][j] = "release"
    /\ WriteRelease(p, "sweep", j)
    /\ UNCHANGED <<place, up, tasks, loop, rest>>

-----------------------------------------------------------------------------
(* Stopping, crashing and starting a process.                              *)

\* shutdown: requests have been answered; loop and sweep are cancelled, then
\* the dispatcher has some time to finish what it holds.
GracefulStop(p) ==
    /\ "shutdown" \in Faults
    /\ Serving(p)
    /\ \A j \in Jobs : request[p][j] \in {Nothing, "rejected"}
    /\ phase' = [phase EXCEPT ![p] = "stopping"]
    /\ todo' = [todo EXCEPT ![p] = Calm]
    /\ busy' = [busy EXCEPT ![p] = FALSE]
    /\ sweep' = [sweep EXCEPT ![p] = Calm]
    /\ writes' = [writes EXCEPT ![p] = Abandon(@, {"loop", "sweep"})]
    /\ UNCHANGED <<store, place, up, view, asked, tasks, request>>

\* What is left is cancelled.  A render leaves its broker claim behind, a task
\* past that completes it; a failure being saved is lost or lands unseen.
StopTasks(p) ==
    /\ phase[p] = "stopping"
    /\ phase' = [phase EXCEPT ![p] = "returning"]
    /\ todo' = [todo EXCEPT ![p] = [j \in Jobs |->
                    IF Tracked(p, j) \/ claims[p][j] # NoToken THEN "recover" ELSE Nothing]]
    /\ \E S \in SUBSET {j \in Jobs : task[p][j] = "failing" /\ job[j].status # "absent"} :
        /\ Cardinality(S) <= IF Unlocked(p) THEN 1 ELSE 0
        /\ job' = [j \in Jobs |-> IF j \in S THEN WithStatus(job[j], "failed") ELSE job[j]]
        /\ view' = [q \in Procs |-> Behind(q, S)]
    /\ writes' = [writes EXCEPT ![p] = Abandon(@, {"task"})]
    /\ place' = [j \in Jobs |->
                    IF place[j] \in {"claimed", "stale"} /\ task[p][j] \in {"failing", "releasing", "closing"}
                    THEN "out" ELSE place[j]]
    /\ task' = [task EXCEPT ![p] = Calm]
    /\ claims' = [claims EXCEPT ![p] = [j \in Jobs |-> NoToken]]
    /\ seen' = [seen EXCEPT ![p] = [j \in Jobs |-> 0]]
    /\ UNCHANGED <<ledger, balance, up, busy, rest>>

\* _recover_shutdown_generation
ReturnJob(p, j) ==
    LET s == Cached(p, j).status IN
    /\ phase[p] = "returning"
    /\ Unlocked(p)
    /\ todo[p][j] = "recover"
    /\ IF s \in Active \ {"queued"} THEN Save(p, j, Queued(job[j])) ELSE UNCHANGED <<job, view>>
    /\ Then(p, j, IF s \in Active THEN "return" ELSE "complete")
    /\ UNCHANGED <<ledger, balance, place, up, writes, tasks, phase, busy, rest>>

ReturnToBroker(p, j) ==
    /\ phase[p] = "returning"
    /\ \/ todo[p][j] = "complete" /\ BrokerComplete(j)
       \/ todo[p][j] = "return" /\ place' = [place EXCEPT ![j] = "queued"]
    /\ Then(p, j, Nothing)
    /\ UNCHANGED <<store, up, view, writes, tasks, phase, busy, rest>>

\* All that lives in the memory of a process goes with it.
Down(p) ==
    /\ up' = up \ {p}
    /\ view' = [view EXCEPT ![p] = [j \in Jobs |-> Current]]
    /\ claims' = [claims EXCEPT ![p] = [j \in Jobs |-> NoToken]]
    /\ task' = [task EXCEPT ![p] = Calm]
    /\ seen' = [seen EXCEPT ![p] = [j \in Jobs |-> 0]]
    /\ phase' = [phase EXCEPT ![p] = "stopped"]
    /\ todo' = [todo EXCEPT ![p] = Calm]
    /\ busy' = [busy EXCEPT ![p] = FALSE]
    /\ sweep' = [sweep EXCEPT ![p] = Calm]
    /\ request' = [request EXCEPT ![p] = Calm]
    /\ writes' = [writes EXCEPT ![p] = {}]
    /\ UNCHANGED <<store, place, asked>>

Stopped(p) ==
    /\ phase[p] = "returning"
    /\ todo[p] = Calm
    /\ Down(p)

Crash(p) ==
    /\ "crash" \in Faults
    /\ p \in up
    /\ Down(p)

\* initialize, first the broker: stale claims go back to their lanes.
Start(p) ==
    /\ p \notin up
    /\ up' = up \cup {p}
    /\ phase' = [phase EXCEPT ![p] = "boot"]
    /\ place' = [j \in Jobs |-> IF place[j] = "stale" THEN "queued" ELSE place[j]]
    /\ UNCHANGED <<store, view, writes, tasks, todo, busy, rest>>

\* Then the store: every unfinished job is queued again, also by the web
\* process, but only renderers enqueue them and start the loop.
Boot(p) ==
    /\ phase[p] = "boot"
    /\ Mutate(p, "boot", Nothing,
              Table([j \in Jobs |-> IF job[j].status \in Active THEN Queued(job[j]) ELSE job[j]],
                    ledger, balance))
    /\ UNCHANGED <<place, up, tasks, loop, rest>>

-----------------------------------------------------------------------------
(* A mutate returns to the part of the process that waits for it.          *)

After(f, w, who, step) == [j \in Jobs |-> IF w.who = who /\ w.on = j THEN step ELSE f[j]]

\* Those the start has queued again.
Enlisted(p, w) ==
    [j \in Jobs |-> IF p \in Renderers /\ w.table.job[j].status = "queued" THEN "enqueue" ELSE Nothing]

Resume(p, w) ==
    /\ request' = [request EXCEPT ![p] =
                      After(After(@, w, "create", "enqueue"), w, "request", "rejected")]
    /\ sweep' = [sweep EXCEPT ![p] = After(@, w, "sweep", Nothing)]
    /\ task' = [task EXCEPT ![p] = After(@, w, "task", "closing")]
    /\ todo' = [todo EXCEPT ![p] = IF w.who = "boot" THEN Enlisted(p, w)
                                   ELSE After(@, w, "loop", Nothing)]
    /\ phase' = [phase EXCEPT ![p] = IF w.who # "boot" THEN @
                                     ELSE IF p \in Renderers THEN "enlist" ELSE "stopped"]

Written(p, w) ==
    /\ w \in writes[p]
    /\ Replace(p, w)
    /\ Resume(p, w)
    /\ UNCHANGED <<place, up, claims, seen, busy, asked>>

\* The table of a caller that waits, and one whose caller was cancelled.
WriteStep(p) == \E w \in writes[p] : w.who # "gone" /\ Written(p, w)
LateWrite(p) == \E w \in writes[p] : w.who = "gone" /\ Written(p, w)

-----------------------------------------------------------------------------

Init ==
    /\ job = [j \in Jobs |-> Absent]
    /\ ledger = [j \in Jobs |-> NoEntries]
    /\ balance = Funds
    /\ place = [j \in Jobs |-> "out"]
    /\ up = Procs
    /\ view = [p \in Procs |-> [j \in Jobs |-> Current]]
    /\ writes = [p \in Procs |-> {}]
    /\ asked = {}
    /\ claims = [p \in Procs |-> [j \in Jobs |-> NoToken]]
    /\ task = [p \in Procs |-> Calm]
    /\ seen = [p \in Procs |-> [j \in Jobs |-> 0]]
    /\ phase = [p \in Procs |-> IF p \in Renderers THEN "sleep" ELSE "stopped"]
    /\ todo = [p \in Procs |-> Calm]
    /\ busy = [p \in Procs |-> FALSE]
    /\ sweep = [p \in Procs |-> Calm]
    /\ request = [p \in Procs |-> Calm]

RequestStep(p, j) ==
    RequestEnqueue(p, j) \/ RequestDiscard(p, j) \/ RequestFail(p, j) \/ RequestRelease(p, j)

PassStep(p) == Inspect(p) \/ RecoverStale(p) \/ Survey(p) \/ EndPass(p)

PassJobStep(p, j) ==
    \/ ReconcileJob(p, j) \/ Dequeue(p, j) \/ Take(p, j) \/ Refuse(p, j) \/ CompleteRefused(p, j)
    \/ HeartbeatJob(p, j) \/ BeatBroker(p, j) \/ RetryJob(p, j) \/ TimeOutJob(p, j)
    \/ GiveUpJob(p, j) \/ ReleaseJob(p, j) \/ EnqueueJob(p, j)

LoopStep(p) == PassStep(p) \/ \E j \in Jobs : PassJobStep(p, j)

TaskStep(p, j) ==
    \/ Begin(p, j) \/ BeginRefused(p, j) \/ SettleAgain(p, j) \/ TemporaryFailure(p, j)
    \/ RenderFails(p, j) \/ FailJob(p, j) \/ ReleaseFailed(p, j) \/ Close(p, j)
    \/ \E c \in Costs : Settle(p, j, c) \/ SettleRaises(p, j, c)

SweepStep(p, j) == SweepTimeOut(p, j) \/ SweepRelease(p, j)

StopStep(p) == StopTasks(p) \/ Stopped(p) \/ \E j \in Jobs : ReturnJob(p, j) \/ ReturnToBroker(p, j)

StartStep(p) == Start(p) \/ Boot(p)

\* What nobody has to do.
ClientStep(p, j) == Create(p, j) \/ Delete(p, j)
Mishap(p, j) == RequestRaises(p, j) \/ CloseFails(p, j)

Next ==
    \/ \E j \in Jobs : ClaimGoesStale(j) \/ DeadlinePasses(j)
    \/ \E p \in Procs : LoopStep(p) \/ StopStep(p) \/ StartStep(p) \/ WriteStep(p)
    \/ \E p \in Procs : LateWrite(p) \/ OrphanList(p) \/ PassFails(p) \/ GracefulStop(p) \/ Crash(p)
    \/ \E p \in Procs, j \in Jobs :
           \/ CachedDeadlinePasses(p, j) \/ ClientStep(p, j) \/ RequestStep(p, j)
           \/ TaskStep(p, j) \/ SweepStep(p, j) \/ Mishap(p, j)

Spec == Init /\ [][Next]_vars

\* Clocks run, calls return, renders end and stopped processes are restarted;
\* clients, the sweep and the faults are free.
Fairness ==
    /\ \A j \in Jobs : WF_vars(ClaimGoesStale(j)) /\ WF_vars(DeadlinePasses(j))
    /\ \A p \in Procs :
           WF_vars(LoopStep(p)) /\ WF_vars(StopStep(p)) /\ WF_vars(StartStep(p)) /\ WF_vars(WriteStep(p))
    /\ \A p \in Procs, j \in Jobs :
           /\ WF_vars(CachedDeadlinePasses(p, j)) /\ WF_vars(RequestStep(p, j))
           /\ WF_vars(TaskStep(p, j)) /\ WF_vars(SweepStep(p, j))

FairSpec == Spec /\ Fairness

-----------------------------------------------------------------------------
(* Properties.                                                             *)

Tables == [job : [Jobs -> Records], ledger : [Jobs -> Entries], balance : Nat]
Writes == [who : {"create", "request", "loop", "task", "sweep", "boot", "gone"},
           on : Jobs \cup {Nothing}, table : Tables]

TypeOK ==
    /\ job \in [Jobs -> Records]
    /\ ledger \in [Jobs -> Entries]
    /\ balance \in Nat
    /\ place \in [Jobs -> {"out", "queued", "claimed", "stale"}]
    /\ up \subseteq Procs
    /\ view \in [Procs -> [Jobs -> Records \cup {Current}]]
    /\ writes \in [Procs -> SUBSET Writes]
    /\ asked \subseteq Jobs
    /\ claims \in [Procs -> [Jobs -> Tokens \cup {NoToken}]]
    /\ task \in [Procs -> [Jobs -> TaskStates]]
    /\ seen \in [Procs -> [Jobs -> 0..AttemptLimit]]
    /\ phase \in [Procs -> Phases]
    /\ todo \in [Procs -> [Jobs -> Steps]]
    /\ busy \in [Procs -> BOOLEAN]
    /\ sweep \in [Procs -> [Jobs -> {Nothing, "timeout", "release"}]]
    /\ request \in [Procs -> [Jobs -> Requests]]

\* A claim token stands in the record only while the job runs: every path that
\* takes a job out of that state (requeue, retry, failure, time-out, completion)
\* has dropped it, so no old lease can refuse a new claim.
TokenOnlyWhileRunning == \A j \in Jobs : job[j].token # NoToken => job[j].status = "running"

\* What the account has lost is what the spend entries of all jobs add up to:
\* _consume_generation_credits_locked and the ledger event are never apart.
LedgerExplainsBalance == balance + MapThenSumSet(LAMBDA j : ledger[j].spend, Jobs) = Funds

\* A job whose record says it was charged has its spend entry, whatever late
\* status updates and second completions came after the charge.
SettledIsCharged == \A j \in Jobs : job[j].credit = "settled" => ledger[j].spend > 0

\* Once processes stop crashing and being shut down and the broker answers, no
\* job stays queued, running or waiting for a retry for ever: the start of a
\* process and the passes of its maintenance loop bring each to an end, whatever
\* was cut short before.
Calmly(p) ==
    /\ ~Crash(p) /\ ~GracefulStop(p) /\ ~PassFails(p)
    /\ \A j \in Jobs : ~Mishap(p, j)
EveryJobEnds ==
    <>[][\A p \in Procs : Calmly(p)]_vars =>
        \A j \in Jobs : job[j].status \in Active ~> job[j].status \in Terminal \cup {"absent"}
=============================================================================
