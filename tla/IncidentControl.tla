--------------------------- MODULE IncidentControl ---------------------------
(***************************************************************************)
(* The incident store of the control center (web/lib/ocos-store.ts), the   *)
(* worker that probes Studio and relays signed callbacks (worker/src), and *)
(* the routes operators reach.  Every handler is a chain of round trips to *)
(* Postgres without a transaction, so the unit of atomicity is one query.  *)
(* The database contributes one rule of its own: the partial unique index  *)
(* incidents_one_active_fingerprint_idx.  A write that would break it      *)
(* fails, and the store never looks at the error.                          *)
(*                                                                         *)
(* A fingerprint is a member of Prints; one environment is modelled, in    *)
(* which every incident is severe enough for Telegram.  "degraded" and     *)
(* "failed" checks are one status, failed: only the severity differs.      *)
(***************************************************************************)
EXTENDS Naturals, Sequences, FiniteSets

CONSTANTS
    Ids,           \* incident rows the model has room for
    Prints,        \* fingerprints: "probe", and those of the callbacks
    PrintOf,       \* bound of the model: the rows are allotted to fingerprints
    Crons,         \* scheduled probes of the worker that may run at once
    Hooks,         \* signed callbacks the worker relays at once
    Operators,     \* requests of operators (browser or CLI) at once
    Callbacks,     \* prints whose workflow can be dispatched
    Recipes,       \* what operators do, of the operations below
    OpenAfter,     \* incidentThresholds.openAfterConsecutiveFailures
    ResolveAfter,  \* incidentThresholds.resolveAfterConsecutiveHealthyChecks
    Lookback,      \* check runs the store counts over
    Faults         \* {} or {"reply"}: an answer lost on its way to the worker

Calls == Crons \cup Hooks \cup Operators
Nobody == "none"
NoRow == [state |-> "absent"]

ASSUME ControlAssumption ==
    /\ OpenAfter \in 1 .. Lookback
    /\ ResolveAfter \in 1 .. Lookback
    /\ Lookback \in Nat
    /\ Callbacks \subseteq Prints
    /\ "probe" \in Prints
    /\ PrintOf \in [Ids -> Prints]
    /\ Recipes \subseteq {"view", "ack", "silence", "recheck", "dispatch", "escalate"}
    /\ Faults \subseteq {"reply"}
    /\ Nobody \notin Ids
    /\ Crons \cap (Hooks \cup Operators) = {}
    /\ Hooks \cap Operators = {}

Statuses == {"healthy", "failed"}
RunTypes == {"public_probe", "manual_recheck", "deployment_verify"}
ActiveStates == {"open", "acknowledged", "auto_remediating", "escalated", "silenced"}

Row == [state : ActiveStates \cup {"resolved"}, attempted : BOOLEAN, seen : Statuses]

VARIABLES
    up,        \* whether Studio answers its public probes
    checks,    \* per fingerprint and run type, the latest statuses, newest first
    latest,    \* the latest check run of the environment
    rows,      \* the incidents table
    undone,    \* incidents whose newest action run, escalations aside, failed
    report,    \* what the overview report of the project says: "clear" or "active" incidents
    alerts,    \* incidents whose opening went out by Telegram
    auto,      \* incidents the worker has remediated by itself, with how often
    inbox,     \* workflows that have run and want to call back
    marked,    \* delivery ids in the worker's cache
    call       \* per call, the request it serves

vars == <<up, checks, latest, rows, undone, report, alerts, auto, inbox, marked, call>>
tables == <<checks, latest, rows, undone>>
outside == <<up, inbox, marked>>

Views == {"clear", "active"}
Idle == [step |-> "idle"]
Steps == {"probe", "insert", "count", "find", "write", "reply", "tell",
          "set", "persist", "attempt", "evaluate", "mark", "finish"}

\* job: what the request is for; then: the step after a report refresh
Jobs == {"check", "event", "ack", "silence", "recheck", "dispatch", "escalate", "view"}

Call == [step : Steps \cup {"view", "publish"}, job : Jobs, then : {"idle", "reply", "evaluate", "finish"},
         print : Prints, kind : RunTypes, status : Statuses \cup {Nobody},
         trend : Statuses \cup {Nobody},
         row : Ids \cup {Nobody}, found : Ids \cup {Nobody},
         plan : {Nobody, "opened", "updated", "resolved"},
         suggest : {Nobody, "recheck"}, view : Views]

-----------------------------------------------------------------------------
Init ==
    /\ up = TRUE
    /\ checks = [p \in Prints |-> [t \in RunTypes |-> <<>>]]
    /\ latest = "healthy"
    /\ rows = [i \in Ids |-> NoRow]
    /\ undone = {}
    /\ report = "clear"
    /\ alerts = [i \in Ids |-> 0]
    /\ auto = [i \in Ids |-> 0]
    /\ inbox = {}
    /\ marked = {}
    /\ call = [c \in Calls |-> Idle]

-----------------------------------------------------------------------------
\* The tables

Exists(i) == rows[i] # NoRow
Active(i) == rows[i].state \in ActiveStates
ActiveOf(p) == {i \in Ids : PrintOf[i] = p /\ Active(i)}

\* Mutant: one failure more than the threshold.
StreakLate(h, s, n) == Len(h) > n /\ \A k \in 1 .. n : h[k] = s

\* The first n of a history, newest first, have the status.
Streak(h, s, n) == Len(h) >= n /\ \A k \in 1 .. n : h[k] = s

\* Mutant: the count reads without a limit.
RecordedAll(h, s) == <<s>> \o h

Recorded(h, s) == SubSeq(<<s>> \o h, 1, IF Len(h) < Lookback THEN Len(h) + 1 ELSE Lookback)

\* An update of one incident row: refused by the index, and nobody notices,
\* when it makes the row active beside another one.
Update(i, new) ==
    rows' = IF new.state \in ActiveStates /\ ActiveOf(PrintOf[i]) \ {i} # {}
            THEN rows ELSE [rows EXCEPT ![i] = new]

\* The row an insert creates.
Opened(s) == [state |-> "open", attempted |-> FALSE, seen |-> s]

-----------------------------------------------------------------------------
\* Requests

Blank == [step |-> "finish", job |-> "view", then |-> "idle", print |-> "probe",
          kind |-> "public_probe", status |-> Nobody, trend |-> Nobody,
          row |-> Nobody, found |-> Nobody, plan |-> Nobody, suggest |-> Nobody,
          view |-> "clear"]

Begin(c, request) == call[c] = Idle /\ call' = [call EXCEPT ![c] = request]
At(c, s) == call[c].step = s
Go(c, request) == call' = [call EXCEPT ![c] = request]

\* runScheduledProbe: the status is what Studio answers now.
Probe(c) ==
    /\ c \in Crons
    /\ Begin(c, [Blank EXCEPT !.step = "insert", !.job = "check",
                              !.status = IF up THEN "healthy" ELSE "failed"])
    /\ UNCHANGED <<tables, outside, report, alerts, auto>>

\* handleSignedIngress: the delivery id is marked before anything is forwarded,
\* a delivery already marked is answered 409.  The verify callback is a check,
\* the bundle callback an event without a status.
Relay(c, p) ==
    /\ c \in Hooks
    /\ p \in inbox \ marked
    /\ marked' = marked \cup {p}
    /\ IF p = "verify"
       THEN \E s \in Statuses :
              Begin(c, [Blank EXCEPT !.step = "insert", !.job = "check", !.print = p,
                                     !.kind = "deployment_verify", !.status = s])
       ELSE Begin(c, [Blank EXCEPT !.step = "find", !.job = "event", !.print = p])
    /\ UNCHANGED <<tables, up, inbox, report, alerts, auto>>

\* A workflow is run again from GitHub, under the delivery id it had.
Rerun(p) ==
    /\ p \in Callbacks
    /\ inbox' = inbox \cup {p}
    /\ UNCHANGED <<tables, up, marked, report, alerts, auto, call>>

\* max-age=300 of the mark has passed.
Expire(p) ==
    /\ p \in marked
    /\ marked' = marked \ {p}
    /\ \A c \in Hooks : call[c] # Idle => call[c].print # p
    /\ UNCHANGED <<tables, up, inbox, report, alerts, auto, call>>

\* The operator's routes answer 404 unless the incident exists.
Operate(c, i) ==
    /\ c \in Operators
    /\ Exists(i)
    /\ \E r \in Recipes \ {"view"} :
         Begin(c, [Blank EXCEPT !.job = r, !.row = i, !.print = PrintOf[i],
                                !.step = CASE r = "recheck" -> "probe"
                                           [] r = "dispatch" -> "persist"
                                           [] r = "escalate" -> "mark"
                                           [] OTHER -> "set"])
    /\ UNCHANGED <<tables, outside, report, alerts, auto>>

\* getSummary: ensureOverviewReports rebuilds the report on every load.
Look(c) ==
    /\ c \in Operators /\ "view" \in Recipes
    /\ Begin(c, [Blank EXCEPT !.step = "view"])
    /\ UNCHANGED <<tables, outside, report, alerts, auto>>

-----------------------------------------------------------------------------
\* recordCheckResult

Insert(c) ==
    /\ At(c, "insert")
    /\ checks' = [checks EXCEPT ![call[c].print][call[c].kind] = Recorded(@, call[c].status)]
    /\ latest' = call[c].status
    /\ Go(c, [call[c] EXCEPT !.step = "count"])
    /\ UNCHANGED <<rows, undone, outside, report, alerts, auto>>

\* getRecentStatusCounts against the thresholds: one of the counts is zero.
Trend(h) ==
    IF Streak(h, "healthy", ResolveAfter) THEN "healthy"
    ELSE IF Streak(h, "failed", OpenAfter) THEN "failed" ELSE Nobody

Count(c) ==
    /\ At(c, "count")
    /\ Go(c, [call[c] EXCEPT !.step = "find", !.trend = Trend(checks[call[c].print][call[c].kind])])
    /\ UNCHANGED <<tables, outside, report, alerts, auto>>

\* findActiveIncident
Find(c) ==
    /\ At(c, "find")
    /\ \/ ActiveOf(call[c].print) = {} /\ Go(c, [call[c] EXCEPT !.step = "write"])
       \/ \E i \in ActiveOf(call[c].print) :
            Go(c, [call[c] EXCEPT !.step = "write", !.found = i])
    /\ UNCHANGED <<tables, outside, report, alerts, auto>>

\* Mutant: a repeated failure is reported as an opening.
RefreshingLoud(c, i, plan) ==
    Go(c, [call[c] EXCEPT !.step = "view", !.then = "reply", !.found = i,
                          !.plan = IF plan = "updated" THEN "opened" ELSE plan,
                          !.trend = Nobody])

\* What follows a write of an incident: the report is refreshed, then the row read again.
Refreshing(c, i, plan) ==
    Go(c, [call[c] EXCEPT !.step = "view", !.then = "reply", !.found = i, !.plan = plan,
                          !.trend = Nobody])

\* Mutant: only the last signal of the row is written.
CheckResolvesLatest(c) ==
    /\ At(c, "write") /\ call[c].job \in {"check", "recheck"}
    /\ call[c].found # Nobody
    /\ call[c].status = "healthy" /\ call[c].trend = "healthy"
    /\ Update(call[c].found, [rows[call[c].found] EXCEPT !.seen = "healthy"])
    /\ Refreshing(c, call[c].found, "resolved")
    /\ UNCHANGED <<checks, latest, undone, outside, report, alerts, auto>>

CheckResolves(c) ==
    /\ At(c, "write") /\ call[c].job \in {"check", "recheck"}
    /\ call[c].found # Nobody
    /\ call[c].status = "healthy" /\ call[c].trend = "healthy"
    /\ Update(call[c].found, [rows[call[c].found] EXCEPT !.state = "resolved", !.seen = "healthy"])
    /\ Refreshing(c, call[c].found, "resolved")
    /\ UNCHANGED <<checks, latest, undone, outside, report, alerts, auto>>

CheckUpdates(c) ==
    /\ At(c, "write") /\ call[c].job \in {"check", "recheck"}
    /\ call[c].found # Nobody
    /\ call[c].status = "failed" /\ call[c].trend = "failed"
    /\ Update(call[c].found, [rows[call[c].found] EXCEPT !.seen = "failed"])
    /\ Refreshing(c, call[c].found, "updated")
    /\ UNCHANGED <<checks, latest, undone, outside, report, alerts, auto>>

\* A row for a new incident: a bound of the model reuses a resolved one no
\* call works on, where the table would grow.
Free(i) ==
    \/ ~Exists(i)
    \/ /\ rows[i].state = "resolved"
       /\ \A k \in Calls : call[k] # Idle => i \notin {call[k].row, call[k].found}

\* The insert fails when another call has opened the incident since Find; an
\* event then returns at once, a check refreshes the report all the same.
Open(c, s) ==
    \/ /\ ActiveOf(call[c].print) = {}
       /\ \E i \in Ids :
            /\ PrintOf[i] = call[c].print /\ Free(i)
            /\ rows' = [rows EXCEPT ![i] = Opened(s)]
            /\ undone' = undone \ {i}
            /\ alerts' = [alerts EXCEPT ![i] = 0]
            /\ auto' = [auto EXCEPT ![i] = 0]
            /\ Refreshing(c, i, "opened")
    \/ /\ ActiveOf(call[c].print) # {}
       /\ IF call[c].job = "event" THEN Go(c, [call[c] EXCEPT !.step = "reply"])
                                  ELSE Refreshing(c, Nobody, Nobody)
       /\ UNCHANGED <<rows, undone, alerts, auto>>

CheckOpens(c) ==
    /\ At(c, "write") /\ call[c].job \in {"check", "recheck"}
    /\ call[c].found = Nobody
    /\ call[c].status = "failed" /\ call[c].trend = "failed"
    /\ Open(c, "failed")
    /\ UNCHANGED <<checks, latest, outside, report>>

CheckPasses(c) ==
    /\ At(c, "write") /\ call[c].job \in {"check", "recheck"}
    /\ \/ call[c].status = "healthy" /\ (call[c].found = Nobody \/ call[c].trend # "healthy")
       \/ call[c].status = "failed" /\ call[c].trend # "failed"
    /\ Go(c, [call[c] EXCEPT !.step = "reply", !.trend = Nobody])
    /\ UNCHANGED <<tables, outside, report, alerts, auto>>

\* recordServiceEvent.  The callback carries no status, so an event never
\* resolves; a row it opens shows the latest check of the environment.
EventUpdates(c) ==
    /\ At(c, "write") /\ call[c].job = "event"
    /\ call[c].found # Nobody
    /\ Refreshing(c, call[c].found, "updated")
    /\ UNCHANGED <<tables, outside, report, alerts, auto>>

EventOpens(c) ==
    /\ At(c, "write") /\ call[c].job = "event"
    /\ call[c].found = Nobody
    /\ Open(c, latest)
    /\ UNCHANGED <<checks, latest, outside, report>>

\* Mutant: attempted or not.
SuggestsAgain(c) == call[c].plan \in {"opened", "updated"}

\* A repeated failure suggests a recheck unless one was attempted, an opened
\* incident always does.
Suggests(c) ==
    \/ call[c].plan = "opened"
    \/ call[c].plan = "updated" /\ ~rows[call[c].found].attempted

\* The answer of the store, back at the route.
Reply(c) ==
    /\ At(c, "reply")
    /\ Go(c, IF call[c].job = "recheck"
             THEN [call[c] EXCEPT !.step = "persist", !.then = "idle", !.plan = Nobody]
             ELSE [call[c] EXCEPT !.step = "tell", !.then = "idle",
                                  !.suggest = IF call[c].job = "check" /\ Suggests(c)
                                              THEN "recheck" ELSE Nobody])
    /\ UNCHANGED <<tables, outside, report, alerts, auto>>

-----------------------------------------------------------------------------
\* The project report

\* buildProjectReportFromState: findings and status speak of the active incidents.
ActiveIncidents == {i \in Ids : Active(i)}

\* buildAndPersistProjectReport reads everything first ...
View(c) ==
    /\ At(c, "view")
    /\ Go(c, [call[c] EXCEPT !.step = "publish", !.view = IF ActiveIncidents = {} THEN "clear" ELSE "active"])
    /\ UNCHANGED <<tables, outside, report, alerts, auto>>

\* ... and upserts the row of the period afterwards.
Publish(c) ==
    /\ At(c, "publish")
    /\ report' = call[c].view
    /\ Go(c, IF call[c].then = "idle" THEN Idle
             ELSE [call[c] EXCEPT !.step = call[c].then, !.view = "clear"])
    /\ UNCHANGED <<tables, outside, alerts, auto>>

-----------------------------------------------------------------------------
\* The worker once its request is answered

Chained(c) == [Blank EXCEPT !.step = "probe", !.job = "recheck", !.row = call[c].found,
                            !.print = call[c].print]

\* sendTelegram for what opened; then maybeAutoRemediate (only the scheduled
\* probe does) runs the recheck route for the incident.
Tell(c) ==
    /\ At(c, "tell")
    /\ alerts' = IF call[c].plan = "opened"
                 THEN [alerts EXCEPT ![call[c].found] = @ + 1] ELSE alerts
    /\ LET act == c \in Crons /\ call[c].suggest = "recheck" /\ call[c].found # Nobody IN
         /\ Go(c, IF act THEN Chained(c) ELSE Idle)
         /\ auto' = IF act THEN [auto EXCEPT ![call[c].found] = @ + 1] ELSE auto
    /\ inbox' = IF c \in Hooks THEN inbox \ {call[c].print} ELSE inbox
    /\ UNCHANGED <<tables, up, marked, report>>

\* forwardJson throws: the store has done its work, the worker tells nobody.
Lose(c) ==
    /\ "reply" \in Faults
    /\ At(c, "tell")
    /\ Go(c, Idle)
    /\ UNCHANGED <<tables, outside, report, alerts, auto>>

-----------------------------------------------------------------------------
\* Operator actions

\* acknowledgeIncident, silenceIncident: whatever the state is by now.
Set(c) ==
    /\ At(c, "set")
    /\ Update(call[c].row,
              [rows[call[c].row] EXCEPT !.state = IF call[c].job = "ack" THEN "acknowledged"
                                                  ELSE "silenced"])
    /\ Go(c, [call[c] EXCEPT !.step = "view", !.then = "idle"])
    /\ UNCHANGED <<checks, latest, undone, outside, report, alerts, auto>>

\* runAction, recheck: probe, then record it under the incident's fingerprint.
Recheck(c) ==
    /\ At(c, "probe")
    /\ Go(c, [call[c] EXCEPT !.step = "insert", !.kind = "manual_recheck",
                             !.status = IF up THEN "healthy" ELSE "failed"])
    /\ UNCHANGED <<tables, outside, report, alerts, auto>>

\* persistActionRun, first half: the action_runs row.  A recheck succeeds when
\* the probe is healthy, or when the incident it got back is resolved.
PersistRecheck(c) ==
    /\ At(c, "persist") /\ call[c].job = "recheck"
    /\ LET cleared == \/ call[c].status = "healthy"
                      \/ call[c].found # Nobody /\ rows[call[c].found].state = "resolved"
       IN undone' = IF cleared THEN undone \ {call[c].row} ELSE undone \cup {call[c].row}
    /\ Go(c, [call[c] EXCEPT !.step = "attempt", !.found = Nobody, !.status = Nobody])
    /\ UNCHANGED <<checks, latest, rows, outside, report, alerts, auto>>

\* The workflow recipes: GitHub queues the run, or refuses it.
PersistDispatch(c) ==
    /\ At(c, "persist") /\ call[c].job = "dispatch"
    /\ \/ /\ undone' = undone \cup {call[c].row}
          /\ Go(c, [call[c] EXCEPT !.step = "attempt"])
          /\ UNCHANGED inbox
       \/ /\ undone' = undone \ {call[c].row}
          /\ Go(c, [call[c] EXCEPT !.step = "attempt", !.plan = "updated"])
          /\ \E p \in Callbacks : inbox' = inbox \cup {p}
    /\ UNCHANGED <<checks, latest, rows, up, marked, report, alerts, auto>>

\* persistActionRun, second half: the incident row.
Attempt(c) ==
    /\ At(c, "attempt")
    /\ Update(call[c].row,
              IF call[c].plan = "updated"
              THEN [rows[call[c].row] EXCEPT !.attempted = TRUE, !.state = "auto_remediating"]
              ELSE [rows[call[c].row] EXCEPT !.attempted = TRUE])
    /\ Go(c, [call[c] EXCEPT !.step = "view", !.then = "evaluate", !.plan = Nobody])
    /\ UNCHANGED <<checks, latest, undone, outside, report, alerts, auto>>

\* evaluateEscalationNeed: a failed action on an unhealthy incident, or one open
\* for 20 minutes (long is an input).
ShouldEscalate(i, long) ==
    /\ rows[i].state # "escalated"
    /\ long \/ (i \in undone /\ rows[i].seen = "failed")

Evaluate(c) ==
    /\ At(c, "evaluate")
    /\ \E long \in BOOLEAN :
         Go(c, IF ShouldEscalate(call[c].row, long)
               THEN [call[c] EXCEPT !.step = "mark", !.then = "idle"] ELSE Idle)
    /\ UNCHANGED <<tables, outside, report, alerts, auto>>

\* createCodexEscalation writes the state twice, with a report refresh in between.
\* Before that it inserts the bundle into codex_escalations and does not look at the
\* error: whether the insert took place changes nothing here, so that table is left out.
Mark(c) ==
    /\ call[c].step \in {"mark", "finish"}
    /\ Update(call[c].row, [rows[call[c].row] EXCEPT !.state = "escalated"])
    /\ Go(c, [call[c] EXCEPT !.step = "view",
                             !.then = IF call[c].step = "mark" THEN "finish" ELSE "idle"])
    /\ UNCHANGED <<checks, latest, undone, outside, report, alerts, auto>>

-----------------------------------------------------------------------------
\* The world

Flip ==
    /\ up' = ~up
    /\ UNCHANGED <<tables, inbox, marked, report, alerts, auto, call>>

Record(c) ==
    \/ Insert(c) \/ Count(c) \/ Find(c)
    \/ CheckResolves(c) \/ CheckUpdates(c) \/ CheckOpens(c) \/ CheckPasses(c)
    \/ EventUpdates(c) \/ EventOpens(c)
    \/ Reply(c)

Step(c) ==
    \/ Record(c)
    \/ View(c) \/ Publish(c)
    \/ Tell(c) \/ Lose(c)
    \/ Set(c) \/ Recheck(c) \/ PersistRecheck(c) \/ PersistDispatch(c) \/ Attempt(c)
    \/ Evaluate(c) \/ Mark(c)

Next ==
    \/ \E c \in Calls :
         \/ Probe(c) \/ Look(c)
         \/ \E p \in Prints : Relay(c, p)
         \/ \E i \in Ids : Operate(c, i)
         \/ Step(c)
    \/ \E p \in Prints : Rerun(p) \/ Expire(p)
    \/ Flip

Spec == Init /\ [][Next]_vars

\* The cron triggers fire for ever, and every request is served to its end.
FairSpec ==
    /\ Spec
    /\ \A c \in Crons : WF_vars(Probe(c))
    /\ \A c \in Calls : WF_vars(Step(c))

-----------------------------------------------------------------------------
\* Every variable keeps its type, and the window the counts read is bounded.
TypeOK ==
    /\ up \in BOOLEAN
    /\ checks \in [Prints -> [RunTypes -> Seq(Statuses)]]
    /\ \A p \in Prints, t \in RunTypes : Len(checks[p][t]) <= Lookback
    /\ latest \in Statuses
    /\ rows \in [Ids -> Row \cup {NoRow}]
    /\ undone \in SUBSET Ids
    /\ report \in Views
    /\ alerts \in [Ids -> Nat]
    /\ auto \in [Ids -> Nat]
    /\ inbox \in SUBSET Prints
    /\ marked \in SUBSET Prints
    /\ call \in [Calls -> Call \cup {Idle}]

\* A call whose answer still says that it opened the incident.
Carries(c, i) == call[c] # Idle /\ call[c].plan = "opened" /\ call[c].found = i

\* The opening of an incident is told at most once: the probe whose insert the
\* index refused does not tell it, and the recheck that follows does not either.
AnnouncedOnce ==
    \A i \in Ids :
        /\ alerts[i] <= 1
        /\ \A c \in Calls : Carries(c, i) =>
              /\ alerts[i] = 0
              /\ \A d \in Calls : Carries(d, i) => c = d

\* The worker asks for a recheck of an incident by itself once, with one probe at a
\* time and provided the recheck reaches the row: one that fails before
\* persistActionRun has marked it is not modelled, and would be asked for again.
RemediatesOnce == \A i \in Ids : auto[i] <= 1

\* Studio stays down: from some point on the control center shows it for ever.
OutageIsShown == <>[](~up) => <>[](report = "active")

\* Studio stays up: however often operators touch old incidents, the
\* incident of the probe is closed again.
RecoveryIsShown == <>[]up => []<>(ActiveOf("probe") = {})

\* docs/INCIDENT_POLICY.md: "open only after 2 consecutive failures".
OpensAfterFailures ==
    [][\A i \in Ids : ~Exists(i) /\ Exists(i)' =>
         \E t \in RunTypes : Streak(checks[PrintOf[i]][t], "failed", OpenAfter)]_vars
=============================================================================
