--------------------------- MODULE GenerationJobs ---------------------------
(***************************************************************************)
(* The durable generation record and the updates generation_ops.py makes   *)
(* to it.  Of the record's forty fields these decide what happens to a     *)
(* job: status, attempt_count, claim_token, the deadline its status is     *)
(* waiting for (claim lease or heartbeat while running, retry delay while  *)
(* retryable), credit_status, final_credit_cost and whether it has outputs.*)
(***************************************************************************)
EXTENDS Integers

CONSTANTS
    Tokens,        \* claim tokens (uuid4)
    AttemptLimit,  \* generation_retry_attempt_limit
    Reserve,       \* reserved_credit_cost of a job
    Costs          \* final_credit_cost values the pricing can come to

ASSUME JobsAssumption ==
    /\ AttemptLimit \in Nat \ {0}
    /\ Reserve \in Nat \ {0}
    /\ Costs \subseteq 0..Reserve

NoToken  == "no token"
Active   == {"queued", "running", "retryable_failed"}
Terminal == {"succeeded", "failed", "timed_out"}
Statuses == Active \cup Terminal \cup {"absent"}

\* attempts counts up to the limit: the code only asks whether it is below.
Records == [status : Statuses, attempts : 0..AttemptLimit, token : Tokens \cup {NoToken},
            clock : {"fresh", "elapsed"}, credit : {"none", "reserved", "settled", "released"},
            final : 0..Reserve, outputs : BOOLEAN]

Absent == [status |-> "absent", attempts |-> 0, token |-> NoToken, clock |-> "fresh",
           credit |-> "none", final |-> 0, outputs |-> FALSE]

\* create_generation_job_record: every job holds credits.
Created == [Absent EXCEPT !.status = "queued", !.credit = "reserved"]

OneMore(n) == IF n < AttemptLimit THEN n + 1 ELSE AttemptLimit

\* Mutant: a requeued job keeps its claim.
QueuedKeepingToken(r) ==
    IF r.status = "absent" THEN r ELSE [r EXCEPT !.status = "queued", !.clock = "fresh"]

\* requeue_generation_job_locked looks at nothing but the job's existence.
Queued(r) ==
    IF r.status = "absent" THEN r
    ELSE [r EXCEPT !.status = "queued", !.token = NoToken, !.clock = "fresh"]

\* claim_generation_job_locked: every claim brings a token of its own, and a
\* live lease refuses it.
MayClaim(r) ==
    /\ r.status \in Active
    /\ r.token = NoToken \/ r.clock = "elapsed"

Claimed(r, t) ==
    [r EXCEPT !.status = "running", !.token = t, !.clock = "fresh",
              !.attempts = IF r.status = "running" /\ r.token = t THEN @ ELSE OneMore(@)]

\* refresh_generation_claim_locked
MayRefresh(r, t) == r.status = "running" /\ r.token = t
Refreshed(r) == [r EXCEPT !.clock = "fresh"]

\* apply_generation_status_update
Unsettled(r, c) == IF r.credit = "settled" THEN "settled" ELSE c

\* With a token the deadline of a running job is its lease, which only a
\* refresh extends; without one it is last_heartbeat_at, which this sets.
MarkRunning(r) ==
    [r EXCEPT !.status = "running",
              !.attempts = IF r.status = "running" THEN @ ELSE OneMore(@),
              !.clock = IF r.token = NoToken THEN "fresh" ELSE @,
              !.credit = Unsettled(r, "reserved")]

MarkRetryable(r) ==
    [r EXCEPT !.status = "retryable_failed", !.token = NoToken, !.clock = "fresh",
              !.credit = Unsettled(r, "reserved")]

MarkEnded(r, s) ==
    [r EXCEPT !.status = s, !.token = NoToken, !.clock = "fresh",
              !.credit = Unsettled(r, "released"),
              !.final = IF r.credit = "settled" THEN @ ELSE 0]

WithStatus(r, s) ==
    CASE r.status = "absent"     -> r
      [] r.status # "absent" /\ s = "running"          -> MarkRunning(r)
      [] r.status # "absent" /\ s = "retryable_failed" -> MarkRetryable(r)
      [] r.status # "absent" /\ s \in Terminal         -> MarkEnded(r, s)

\* Mutant: a job that cost nothing is settled too.
CompletedSettled(r, c) ==
    [r EXCEPT !.status = "succeeded", !.token = NoToken, !.clock = "fresh",
              !.attempts = IF @ = 0 THEN 1 ELSE @,
              !.credit = "settled", !.final = c, !.outputs = TRUE]

\* apply_completed_generation_to_state, the record's part
Completed(r, c) ==
    [r EXCEPT !.status = "succeeded", !.token = NoToken, !.clock = "fresh",
              !.attempts = IF @ = 0 THEN 1 ELSE @,
              !.credit = IF c > 0 THEN "settled" ELSE "released",
              !.final = c, !.outputs = TRUE]

-----------------------------------------------------------------------------
(* The credit ledger of a job: the amounts of its three entries, 0 when    *)
(* the entry is not there.  _write_generation_credit_event_locked never    *)
(* overwrites one and nobody writes an amount of 0.                        *)

Entries == [reserve : 0..Reserve, spend : 0..Reserve, release : 0..Reserve]
NoEntries == [reserve |-> 0, spend |-> 0, release |-> 0]

Write(e, key, amount) == IF e[key] = 0 THEN [e EXCEPT ![key] = amount] ELSE e

\* Mutant: a job that was released is not charged any more.
SettlementOnce(e, c) ==
    IF e.release > 0 THEN e ELSE Write(Write(e, "spend", c), "release", Reserve - c)

Settlement(e, c) == Write(Write(e, "spend", c), "release", Reserve - c)
=============================================================================
