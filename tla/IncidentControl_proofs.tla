------------------------ MODULE IncidentControl_proofs ------------------------
(***************************************************************************)
(* Type correctness of the control center, an opening told at most once,   *)
(* one recheck per incident by a single probe.                             *)
(*                                                                         *)
(* With what the unique index gives (OneActiveIncident) they are proved    *)
(* together, because they lean on one another through the                  *)
(* requests: an update keeps a row a row only if the request it serves     *)
(* names one that exists, and a request that carries an opening must be    *)
(* the only one.  Fit says what a request may assume of the tables at each *)
(* of its steps.                                                           *)
(***************************************************************************)
EXTENDS IncidentControl, TLAPS

RowJobs == {"ack", "silence", "recheck", "dispatch", "escalate"}
RowSteps == {"probe", "set", "persist", "attempt", "evaluate", "mark", "finish"}

Known == {i \in Ids : Exists(i)}

\* What the partial unique index leaves of the incidents table.
OneActiveIncident ==
    \A i, j \in Ids : PrintOf[i] = PrintOf[j] /\ Active(i) /\ Active(j) => i = j

\* What a request r holds about the rows K that exist.
Fit(r, K) ==
    /\ r.job \in RowJobs => r.row # Nobody
    /\ r.row # Nobody => r.row \in K
    /\ r.found # Nobody => r.found \in K
    /\ r.step \in RowSteps => r.job \in RowJobs
    /\ r.step \in {"view", "publish"} /\ r.then \in RowSteps => r.job \in RowJobs
    /\ r.step = "insert" => r.status \in Statuses
    /\ r.plan = "opened" =>
          /\ r.found # Nobody
          /\ r.step \in {"view", "publish", "reply", "tell"}
          /\ r.step \in {"view", "publish"} => r.then = "reply"

Fitting == \A c \in Calls : call[c] # Idle => Fit(call[c], Known)

IInv ==
    /\ TypeOK
    /\ Fitting
    /\ OneActiveIncident
    /\ AnnouncedOnce

\* The conjuncts of TypeOK about the tables; Typed and CallTyped make up TypeOK.
Typed ==
    /\ up \in BOOLEAN
    /\ checks \in [Prints -> [RunTypes -> Seq(Statuses)]]
    /\ \A p \in Prints, t \in RunTypes : Len(checks[p][t]) <= Lookback
    /\ latest \in Statuses
    /\ rows \in [Ids -> Row \cup {NoRow}]
    /\ undone \in SUBSET Ids
    /\ report \in Views
    /\ alerts \in [Ids -> Nat]
    /\ auto \in [Ids -> Nat]
    /\ inbox \in SUBSET Prints
    /\ marked \in SUBSET Prints

CallTyped == call \in [Calls -> Call \cup {Idle}]

LEMMA Split == TypeOK <=> Typed /\ CallTyped
BY DEF TypeOK, Typed, CallTyped

\* A step whose request starts from Idle has no request there.
LEMMA Busy ==
    ASSUME CallTyped, NEW c \in Calls, call[c].step # "idle"
    PROVE  call[c] \in Call /\ call[c] # Idle
BY DEF CallTyped, Idle

-----------------------------------------------------------------------------
\* Recording a check keeps the window typed and bounded.
LEMMA RecordedTyped ==
    ASSUME NEW h \in Seq(Statuses), Len(h) <= Lookback,
           NEW s \in Statuses
    PROVE  Recorded(h, s) \in Seq(Statuses) /\ Len(Recorded(h, s)) <= Lookback
<1> DEFINE g == <<s>> \o h
           n == IF Len(h) < Lookback THEN Len(h) + 1 ELSE Lookback
<1>1. g \in Seq(Statuses) /\ Len(g) = Len(h) + 1
  BY DEF Statuses
<1>2. Lookback \in Nat /\ Len(h) \in Nat /\ n \in Nat /\ n <= Len(g) /\ n <= Lookback
  BY <1>1, ControlAssumption DEF ControlAssumption
<1>3. SubSeq(g, 1, n) \in Seq(Statuses) /\ Len(SubSeq(g, 1, n)) = n
  <2>1. \A k \in 1 .. n : g[k] \in Statuses
    BY <1>1, <1>2
  <2> QED BY <1>1, <1>2, <2>1
<1> QED BY <1>2, <1>3 DEF Recorded

-----------------------------------------------------------------------------
\* One request moves on to r, the tables it leans on stay.
LEMMA CallStep ==
    ASSUME CallTyped, Fitting, AnnouncedOnce,
           NEW c \in Calls, NEW r \in Call \cup {Idle},
           call' = [call EXCEPT ![c] = r],
           UNCHANGED <<rows, alerts>>,
           r # Idle => Fit(r, Known'),
           r # Idle /\ r.plan = "opened" =>
              /\ call[c] # Idle /\ call[c].plan = "opened"
              /\ r.found = call[c].found
    PROVE  (CallTyped /\ Fitting /\ AnnouncedOnce)'
<1>1. CallTyped' /\ \A d \in Calls : call'[d] = IF d = c THEN r ELSE call[d]
  BY DEF CallTyped
<1>2. Fitting'
  <2> SUFFICES ASSUME NEW d \in Calls, call'[d] # Idle PROVE Fit(call'[d], Known')
    BY DEF Fitting
  <2>1. CASE d = c
    BY <1>1, <2>1
  <2>2. CASE d # c
    <3>1. call'[d] = call[d] /\ Fit(call[d], Known)
      BY <1>1, <2>2 DEF Fitting
    <3> QED BY <3>1 DEF Fit, Known, Exists
  <2> QED BY <2>1, <2>2
<1>4. AnnouncedOnce'
  <2>1. \A i \in Ids, d \in Calls : Carries(d, i)' => Carries(d, i)
    BY <1>1 DEF Carries
  <2> QED BY <2>1 DEF AnnouncedOnce
<1> QED BY <1>1, <1>2, <1>4

\* One request writes an incident that exists, then moves on to r.
LEMMA UpdateStep ==
    ASSUME Typed, CallTyped, Fitting, OneActiveIncident, AnnouncedOnce,
           NEW c \in Calls, NEW r \in Call,
           call' = [call EXCEPT ![c] = r],
           NEW j \in Known, NEW new \in Row,
           Update(j, new), UNCHANGED <<alerts>>,
           Fit(r, Known), r.plan # "opened"
    PROVE  (CallTyped /\ Fitting /\ OneActiveIncident /\ AnnouncedOnce)'
           /\ rows' \in [Ids -> Row \cup {NoRow}]
<1>1. CallTyped' /\ \A d \in Calls : call'[d] = IF d = c THEN r ELSE call[d]
  BY DEF CallTyped
<1>2. rows \in [Ids -> Row \cup {NoRow}] /\ rows' \in [Ids -> Row \cup {NoRow}]
  BY DEF Typed, Update
<1>3. new # NoRow
  BY DEF Row, NoRow, ActiveStates
<1>4. Known' = Known
  BY <1>2, <1>3 DEF Update, Exists, Known
<1>5. Fitting'
  <2> SUFFICES ASSUME NEW d \in Calls, call'[d] # Idle PROVE Fit(call'[d], Known')
    BY DEF Fitting
  <2>1. call'[d] \in Call /\ Fit(call'[d], Known)
    <3>1. r # Idle
      BY DEF Call, Idle
    <3> QED BY <1>1, <3>1 DEF Fitting, CallTyped
  <2> QED BY <1>4, <2>1
<1>6. OneActiveIncident'
  <2>1. CASE rows' = rows
    BY <2>1 DEF OneActiveIncident, Active
  <2>2. CASE new.state \notin ActiveStates /\ rows' = [rows EXCEPT ![j] = new]
    BY <1>2, <2>2 DEF OneActiveIncident, Active
  <2>3. CASE ActiveOf(PrintOf[j]) \ {j} = {} /\ rows' = [rows EXCEPT ![j] = new]
    BY <1>2, <2>3 DEF OneActiveIncident, Active, ActiveOf
  <2> QED BY <2>1, <2>2, <2>3 DEF Update
<1>8. AnnouncedOnce'
  <2>1. \A i \in Ids, d \in Calls : Carries(d, i)' => Carries(d, i)
    BY <1>1 DEF Carries
  <2> QED BY <2>1 DEF AnnouncedOnce
<1> QED BY <1>1, <1>2, <1>5, <1>6, <1>8

\* An insert that the index accepts, at a free row.
LEMMA OpenStep ==
    ASSUME Typed, CallTyped, Fitting, OneActiveIncident, AnnouncedOnce,
           NEW c \in Calls, NEW r \in Call,
           call' = [call EXCEPT ![c] = r],
           call[c] # Idle, call[c].found = Nobody,
           NEW i \in Ids, PrintOf[i] = call[c].print, Free(i),
           ActiveOf(call[c].print) = {},
           NEW s \in Statuses,
           rows' = [rows EXCEPT ![i] = Opened(s)],
           alerts' = [alerts EXCEPT ![i] = 0],
           r.row = call[c].row, r.found = i, r.job = call[c].job,
           r.step = "view", r.then = "reply"
    PROVE  (CallTyped /\ Fitting /\ OneActiveIncident /\ AnnouncedOnce)'
           /\ rows' \in [Ids -> Row \cup {NoRow}] /\ alerts' \in [Ids -> Nat]
<1>1. CallTyped' /\ \A d \in Calls : call'[d] = IF d = c THEN r ELSE call[d]
  BY DEF CallTyped
<1>2. /\ rows \in [Ids -> Row \cup {NoRow}] /\ rows' \in [Ids -> Row \cup {NoRow}]
      /\ alerts \in [Ids -> Nat] /\ alerts' \in [Ids -> Nat]
  BY DEF Typed, Opened, Row, ActiveStates
<1>3. Opened(s) # NoRow
  BY DEF Opened, NoRow
<1>4. Known \subseteq Known' /\ i \in Known'
  BY <1>2, <1>3 DEF Exists, Known
<1>6. \A d \in Calls : call[d] # Idle => call[d] \in Call /\ Fit(call[d], Known)
                         /\ call[d].row # i /\ call[d].found # i
  <2> SUFFICES ASSUME NEW d \in Calls, call[d] # Idle
               PROVE  /\ call[d] \in Call /\ Fit(call[d], Known)
                      /\ call[d].row # i /\ call[d].found # i
    OBVIOUS
  <2>1. call[d] \in Call /\ Fit(call[d], Known)
    BY DEF Fitting, CallTyped
  <2>2. CASE ~Exists(i)
    BY <2>1, <2>2, ControlAssumption DEF ControlAssumption, Fit, Known
  <2>3. CASE i \notin {call[d].row, call[d].found}
    BY <2>1, <2>3
  <2> QED BY <2>2, <2>3 DEF Free
<1>7. Fitting'
  <2> SUFFICES ASSUME NEW d \in Calls, call'[d] # Idle PROVE Fit(call'[d], Known')
    BY DEF Fitting
  <2>1. CASE d = c
    <3>1. call'[d] = r /\ Fit(call[c], Known) /\ call[c].row \in Ids \cup {Nobody}
      BY <1>1, <1>6, <2>1 DEF Call
    <3>2. i # Nobody
      BY ControlAssumption DEF ControlAssumption
    <3> QED BY <1>4, <3>1, <3>2 DEF Fit, RowSteps
  <2>2. CASE d # c
    <3>1. call'[d] = call[d] /\ Fit(call[d], Known) /\ call[d] \in Call /\ call[d].row # i
      BY <1>1, <1>6, <2>2
    <3>2. call[d].row \in Ids \cup {Nobody} /\ call[d].found \in Ids \cup {Nobody}
      BY <3>1 DEF Call
    <3> QED BY <1>4, <3>1, <3>2 DEF Fit
  <2> QED BY <2>1, <2>2
<1>8. OneActiveIncident'
  BY <1>2 DEF OneActiveIncident, Active, ActiveOf
<1>10. AnnouncedOnce'
  <2> SUFFICES ASSUME NEW k \in Ids
               PROVE  /\ alerts'[k] <= 1
                      /\ \A d \in Calls : Carries(d, k)' =>
                            /\ alerts'[k] = 0
                            /\ \A e \in Calls : Carries(e, k)' => d = e
    BY DEF AnnouncedOnce
  <2>1. CASE k = i
    <3>1. \A d \in Calls : Carries(d, k)' => d = c
      BY <1>1, <1>6, <2>1 DEF Carries
    <3> QED BY <1>2, <2>1, <3>1
  <2>2. CASE k # i
    <3>1. \A d \in Calls : Carries(d, k)' => Carries(d, k)
      BY <1>1, <2>2 DEF Carries
    <3> QED BY <1>2, <2>2, <3>1 DEF AnnouncedOnce
  <2> QED BY <2>1, <2>2
<1> QED BY <1>1, <1>2, <1>7, <1>8, <1>10

-----------------------------------------------------------------------------
\* The facts every action starts from.
LEMMA Current ==
    ASSUME IInv, NEW c \in Calls, call[c].step # "idle"
    PROVE  /\ call[c] \in Call /\ call[c] # Idle /\ Fit(call[c], Known)
           /\ Typed /\ CallTyped
BY Busy, Split DEF IInv, Fitting

\* A step that only moves its request, or starts one.
LEMMA Moves ==
    ASSUME IInv, NEW c \in Calls, NEW r \in Call \cup {Idle},
           call' = [call EXCEPT ![c] = r],
           UNCHANGED <<rows, alerts>>, Typed',
           r # Idle => Fit(r, Known),
           r # Idle /\ r.plan = "opened" =>
              /\ call[c] # Idle /\ call[c].plan = "opened"
              /\ r.found = call[c].found
    PROVE  IInv'
<1>1. Known' = Known
  BY DEF Known, Exists
<1>2. (CallTyped /\ Fitting /\ AnnouncedOnce)'
  BY <1>1, CallStep, Split DEF IInv
<1>3. OneActiveIncident'
  BY DEF IInv, OneActiveIncident, Active
<1> QED BY <1>2, <1>3, Split DEF IInv, TypeOK, Typed, CallTyped
-----------------------------------------------------------------------------
\* Steps between two round trips: only the request moves.

LEMMA CountStep == ASSUME IInv, NEW c \in Calls, Count(c) PROVE IInv'
<1>1. call[c] \in Call /\ call[c] # Idle /\ Fit(call[c], Known) /\ Typed
  BY Current DEF Count, At
<1>2. PICK r : /\ call' = [call EXCEPT ![c] = r]
               /\ call[c].step = "count"
               /\ \E v \in Statuses \cup {Nobody} : r = [call[c] EXCEPT !.step = "find", !.trend = v]
  BY <1>1 DEF Count, Go, At, Trend, Statuses
<1>3. r \in Call \cup {Idle}
  BY <1>1, <1>2 DEF Call, Steps, RunTypes, Views
<1>4. r # Idle => Fit(r, Known) /\ (r.plan = "opened" => call[c].plan = "opened" /\ r.found = call[c].found)
  BY <1>1, <1>2, <1>3 DEF Fit, RowSteps, RowJobs, Call, Nobody
<1>5. Typed'
  BY <1>1 DEF Count, Typed, tables, outside
<1>6. UNCHANGED <<rows, alerts>>
  BY DEF Count, tables
<1> QED BY <1>1, <1>2, <1>3, <1>4, <1>5, <1>6, Moves

LEMMA FindStep == ASSUME IInv, NEW c \in Calls, Find(c) PROVE IInv'
<1>1. call[c] \in Call /\ call[c] # Idle /\ Fit(call[c], Known) /\ Typed
  BY Current DEF Find, At
<1>0. \A i \in ActiveOf(call[c].print) : i \in Known
  BY DEF ActiveOf, Active, Known, Exists, NoRow, ActiveStates
<1>2. PICK r : /\ call' = [call EXCEPT ![c] = r]
               /\ call[c].step = "find"
               /\ \/ r = [call[c] EXCEPT !.step = "write"]
                  \/ \E i \in Known : r = [call[c] EXCEPT !.step = "write", !.found = i]
  BY <1>0 DEF Find, Go, At
<1>3. r \in Call \cup {Idle}
  <2>1. CASE r = [call[c] EXCEPT !.step = "write"]
    BY <1>1, <2>1 DEF Call, Steps, Known, RunTypes, Views
  <2>2. CASE \E i \in Known : r = [call[c] EXCEPT !.step = "write", !.found = i]
    <3>1. PICK i \in Known : r = [call[c] EXCEPT !.step = "write", !.found = i]
      BY <2>2
    <3> QED BY <1>1, <3>1 DEF Call, Steps, Known, RunTypes, Views
  <2> QED BY <1>2, <2>1, <2>2
<1>4. r # Idle => Fit(r, Known) /\ (r.plan = "opened" => call[c].plan = "opened" /\ r.found = call[c].found)
  <2>1. CASE r = [call[c] EXCEPT !.step = "write"]
    BY <1>1, <1>2, <2>1 DEF Fit, RowSteps, RowJobs, Call, Nobody
  <2>2. CASE \E i \in Known : r = [call[c] EXCEPT !.step = "write", !.found = i]
    BY <1>1, <1>2, <2>2 DEF Fit, RowSteps, RowJobs, Call, Nobody
  <2> QED BY <1>2, <2>1, <2>2
<1>5. Typed'
  BY <1>1 DEF Find, Typed, tables, outside
<1>6. UNCHANGED <<rows, alerts>>
  BY DEF Find, tables
<1> QED BY <1>1, <1>2, <1>3, <1>4, <1>5, <1>6, Moves

LEMMA CheckPassesStep == ASSUME IInv, NEW c \in Calls, CheckPasses(c) PROVE IInv'
<1>1. call[c] \in Call /\ call[c] # Idle /\ Fit(call[c], Known) /\ Typed
  BY Current DEF CheckPasses, At
<1>2. PICK r : /\ call' = [call EXCEPT ![c] = r]
               /\ call[c].step = "write"
               /\ r = [call[c] EXCEPT !.step = "reply", !.trend = Nobody]
  BY <1>1 DEF CheckPasses, Go, At
<1>3. r \in Call \cup {Idle}
  BY <1>1, <1>2 DEF Call, Steps, RunTypes, Views
<1>4. r # Idle => Fit(r, Known) /\ (r.plan = "opened" => call[c].plan = "opened" /\ r.found = call[c].found)
  BY <1>1, <1>2, <1>3 DEF Fit, RowSteps, RowJobs, Call, Nobody
<1>5. Typed'
  BY <1>1 DEF CheckPasses, Typed, tables, outside
<1>6. UNCHANGED <<rows, alerts>>
  BY DEF CheckPasses, tables
<1> QED BY <1>1, <1>2, <1>3, <1>4, <1>5, <1>6, Moves

LEMMA ReplyStep == ASSUME IInv, NEW c \in Calls, Reply(c) PROVE IInv'
<1>1. call[c] \in Call /\ call[c] # Idle /\ Fit(call[c], Known) /\ Typed
  BY Current DEF Reply, At
<1>2. PICK r : /\ call' = [call EXCEPT ![c] = r]
               /\ call[c].step = "reply"
               /\ \/ /\ r = [call[c] EXCEPT !.step = "persist", !.then = "idle", !.plan = Nobody]
                     /\ call[c].job = "recheck"
                  \/ \E v \in {Nobody, "recheck"} :
                       r = [call[c] EXCEPT !.step = "tell", !.then = "idle", !.suggest = v]
  BY <1>1 DEF Reply, Go, At
<1>3. r \in Call \cup {Idle}
  <2>1. CASE r = [call[c] EXCEPT !.step = "persist", !.then = "idle", !.plan = Nobody] /\ call[c].job = "recheck"
    BY <1>1, <2>1 DEF Call, Steps, Known, RunTypes, Views
  <2>2. CASE \E v \in {Nobody, "recheck"} : r = [call[c] EXCEPT !.step = "tell", !.then = "idle", !.suggest = v]
    <3>1. PICK v \in {Nobody, "recheck"} : r = [call[c] EXCEPT !.step = "tell", !.then = "idle", !.suggest = v]
      BY <2>2
    <3> QED BY <1>1, <3>1 DEF Call, Steps, Known, RunTypes, Views
  <2> QED BY <1>2, <2>1, <2>2
<1>4. r # Idle => Fit(r, Known) /\ (r.plan = "opened" => call[c].plan = "opened" /\ r.found = call[c].found)
  <2>1. CASE r = [call[c] EXCEPT !.step = "persist", !.then = "idle", !.plan = Nobody] /\ call[c].job = "recheck"
    BY <1>1, <1>2, <2>1 DEF Fit, RowSteps, RowJobs, Call, Nobody
  <2>2. CASE \E v \in {Nobody, "recheck"} : r = [call[c] EXCEPT !.step = "tell", !.then = "idle", !.suggest = v]
    BY <1>1, <1>2, <2>2 DEF Fit, RowSteps, RowJobs, Call, Nobody
  <2> QED BY <1>2, <2>1, <2>2
<1>5. Typed'
  BY <1>1 DEF Reply, Typed, tables, outside
<1>6. UNCHANGED <<rows, alerts>>
  BY DEF Reply, tables
<1> QED BY <1>1, <1>2, <1>3, <1>4, <1>5, <1>6, Moves

LEMMA ViewStep == ASSUME IInv, NEW c \in Calls, View(c) PROVE IInv'
<1>1. call[c] \in Call /\ call[c] # Idle /\ Fit(call[c], Known) /\ Typed
  BY Current DEF View, At
<1>2. PICK r : /\ call' = [call EXCEPT ![c] = r]
               /\ call[c].step = "view"
               /\ \E v \in Views : r = [call[c] EXCEPT !.step = "publish", !.view = v]
  BY <1>1 DEF View, Go, At, Views
<1>3. r \in Call \cup {Idle}
  BY <1>1, <1>2 DEF Call, Steps, RunTypes, Views
<1>4. r # Idle => Fit(r, Known) /\ (r.plan = "opened" => call[c].plan = "opened" /\ r.found = call[c].found)
  BY <1>1, <1>2, <1>3 DEF Fit, RowSteps, RowJobs, Call, Nobody
<1>5. Typed'
  BY <1>1 DEF View, Typed, tables, outside
<1>6. UNCHANGED <<rows, alerts>>
  BY DEF View, tables
<1> QED BY <1>1, <1>2, <1>3, <1>4, <1>5, <1>6, Moves

LEMMA PublishStep == ASSUME IInv, NEW c \in Calls, Publish(c) PROVE IInv'
<1>1. call[c] \in Call /\ call[c] # Idle /\ Fit(call[c], Known) /\ Typed
  BY Current DEF Publish, At
<1>0. call[c].then = "idle" \/ call[c].then \in {"reply", "evaluate", "finish"}
  BY <1>1 DEF Call
<1>2. PICK r : /\ call' = [call EXCEPT ![c] = r]
               /\ call[c].step = "publish"
               /\ \/ r = Idle
                  \/ \E v \in {"reply", "evaluate", "finish"} : v = call[c].then /\ r = [call[c] EXCEPT !.step = v, !.view = "clear"]
  BY <1>0 DEF Publish, Go, At
<1>3. r \in Call \cup {Idle}
  <2>1. CASE r = Idle
    BY <1>1, <2>1 DEF Call, Steps, Known, RunTypes, Views
  <2>2. CASE \E v \in {"reply", "evaluate", "finish"} : v = call[c].then /\ r = [call[c] EXCEPT !.step = v, !.view = "clear"]
    <3>1. PICK v \in {"reply", "evaluate", "finish"} : v = call[c].then /\ r = [call[c] EXCEPT !.step = v, !.view = "clear"]
      BY <2>2
    <3>2. v \in Steps
      BY DEF Steps
    <3> QED BY <1>1, <3>1, <3>2 DEF Call, Views
  <2> QED BY <1>2, <2>1, <2>2
<1>4. r # Idle => Fit(r, Known) /\ (r.plan = "opened" => call[c].plan = "opened" /\ r.found = call[c].found)
  <2>1. CASE r = Idle
    BY <1>1, <1>2, <2>1 DEF Fit, RowSteps, RowJobs, Call, Nobody
  <2>2. CASE \E v \in {"reply", "evaluate", "finish"} : v = call[c].then /\ r = [call[c] EXCEPT !.step = v, !.view = "clear"]
    BY <1>1, <1>2, <2>2 DEF Fit, RowSteps, RowJobs, Call, Nobody
  <2> QED BY <1>2, <2>1, <2>2
<1>5. Typed'
  BY <1>1 DEF Publish, Typed, tables, outside, Call, At, Views
<1>6. UNCHANGED <<rows, alerts>>
  BY DEF Publish, tables
<1> QED BY <1>1, <1>2, <1>3, <1>4, <1>5, <1>6, Moves

LEMMA LoseStep == ASSUME IInv, NEW c \in Calls, Lose(c) PROVE IInv'
<1>1. call[c] \in Call /\ call[c] # Idle /\ Fit(call[c], Known) /\ Typed
  BY Current DEF Lose, At
<1>2. PICK r : /\ call' = [call EXCEPT ![c] = r]
               /\ call[c].step = "tell" /\ r = Idle
  BY <1>1 DEF Lose, Go, At
<1>3. r \in Call \cup {Idle}
  BY <1>1, <1>2 DEF Call, Steps, RunTypes, Views
<1>4. r # Idle => Fit(r, Known) /\ (r.plan = "opened" => call[c].plan = "opened" /\ r.found = call[c].found)
  BY <1>1, <1>2, <1>3 DEF Fit, RowSteps, RowJobs, Call, Nobody
<1>5. Typed'
  BY <1>1 DEF Lose, Typed, tables, outside
<1>6. UNCHANGED <<rows, alerts>>
  BY DEF Lose, tables
<1> QED BY <1>1, <1>2, <1>3, <1>4, <1>5, <1>6, Moves

LEMMA RecheckStep == ASSUME IInv, NEW c \in Calls, Recheck(c) PROVE IInv'
<1>1. call[c] \in Call /\ call[c] # Idle /\ Fit(call[c], Known) /\ Typed
  BY Current DEF Recheck, At
<1>0. (IF up THEN "healthy" ELSE "failed") \in Statuses
  BY DEF Statuses
<1>2. PICK r : /\ call' = [call EXCEPT ![c] = r]
               /\ call[c].step = "probe"
               /\ \E v \in Statuses : r = [call[c] EXCEPT !.step = "insert", !.kind = "manual_recheck", !.status = v]
  BY <1>0 DEF Recheck, Go, At
<1>3. r \in Call \cup {Idle}
  BY <1>1, <1>2 DEF Call, Steps, RunTypes, Views
<1>4. r # Idle => Fit(r, Known) /\ (r.plan = "opened" => call[c].plan = "opened" /\ r.found = call[c].found)
  BY <1>1, <1>2, <1>3 DEF Fit, RowSteps, RowJobs, Call, Nobody
<1>5. Typed'
  BY <1>1 DEF Recheck, Typed, tables, outside
<1>6. UNCHANGED <<rows, alerts>>
  BY DEF Recheck, tables
<1> QED BY <1>1, <1>2, <1>3, <1>4, <1>5, <1>6, Moves

LEMMA EvaluateStep == ASSUME IInv, NEW c \in Calls, Evaluate(c) PROVE IInv'
<1>1. call[c] \in Call /\ call[c] # Idle /\ Fit(call[c], Known) /\ Typed
  BY Current DEF Evaluate, At
<1>2. PICK r : /\ call' = [call EXCEPT ![c] = r]
               /\ call[c].step = "evaluate"
               /\ \/ r = Idle
                  \/ r = [call[c] EXCEPT !.step = "mark", !.then = "idle"]
  BY <1>1 DEF Evaluate, Go, At
<1>3. r \in Call \cup {Idle}
  <2>1. CASE r = Idle
    BY <1>1, <2>1 DEF Call, Steps, Known, RunTypes, Views
  <2>2. CASE r = [call[c] EXCEPT !.step = "mark", !.then = "idle"]
    BY <1>1, <2>2 DEF Call, Steps, Known, RunTypes, Views
  <2> QED BY <1>2, <2>1, <2>2
<1>4. r # Idle => Fit(r, Known) /\ (r.plan = "opened" => call[c].plan = "opened" /\ r.found = call[c].found)
  <2>1. CASE r = Idle
    BY <1>1, <1>2, <2>1 DEF Fit, RowSteps, RowJobs, Call, Nobody
  <2>2. CASE r = [call[c] EXCEPT !.step = "mark", !.then = "idle"]
    BY <1>1, <1>2, <2>2 DEF Fit, RowSteps, RowJobs, Call, Nobody
  <2> QED BY <1>2, <2>1, <2>2
<1>5. Typed'
  BY <1>1 DEF Evaluate, Typed, tables, outside
<1>6. UNCHANGED <<rows, alerts>>
  BY DEF Evaluate, tables
<1> QED BY <1>1, <1>2, <1>3, <1>4, <1>5, <1>6, Moves

-----------------------------------------------------------------------------
\* Requests that begin: they lean on nothing but the row they are about.

LEMMA ProbeStep == ASSUME IInv, NEW c \in Calls, Probe(c) PROVE IInv'
<1>1. Typed /\ CallTyped
  BY Split DEF IInv
<1>2. PICK r : /\ call' = [call EXCEPT ![c] = r]
               /\ \E v \in Statuses : r = [Blank EXCEPT !.step = "insert", !.job = "check", !.status = v]
  BY DEF Probe, Begin, Statuses
<1>3. r \in Call /\ r.plan = Nobody
  BY <1>2, ControlAssumption DEF ControlAssumption, Blank, Call, Steps, Jobs, Statuses, RunTypes, Views
<1>4. Fit(r, Known)
  BY <1>2, <1>3 DEF Fit, Blank, RowJobs, RowSteps, Known, Nobody
<1>5. Typed' /\ UNCHANGED <<rows, alerts>>
  BY <1>1 DEF Probe, Typed, tables, outside
<1> QED BY <1>2, <1>3, <1>4, <1>5, Moves DEF Nobody

LEMMA LookStep == ASSUME IInv, NEW c \in Calls, Look(c) PROVE IInv'
<1>1. Typed /\ CallTyped
  BY Split DEF IInv
<1>2. PICK r : /\ call' = [call EXCEPT ![c] = r]
               /\ r = [Blank EXCEPT !.step = "view"]
  BY DEF Look, Begin, Statuses
<1>3. r \in Call /\ r.plan = Nobody
  BY <1>2, ControlAssumption DEF ControlAssumption, Blank, Call, Steps, Jobs, Statuses, RunTypes, Views
<1>4. Fit(r, Known)
  BY <1>2, <1>3 DEF Fit, Blank, RowJobs, RowSteps, Known, Nobody
<1>5. Typed' /\ UNCHANGED <<rows, alerts>>
  BY <1>1 DEF Look, Typed, tables, outside
<1> QED BY <1>2, <1>3, <1>4, <1>5, Moves DEF Nobody

LEMMA RelayStep == ASSUME IInv, NEW c \in Calls, NEW p \in Prints, Relay(c, p) PROVE IInv'
<1>1. Typed /\ CallTyped
  BY Split DEF IInv
<1>2. Typed' /\ UNCHANGED <<rows, alerts>>
  BY <1>1 DEF Relay, Typed, tables
<1>3. CASE p = "verify"
  <2>1. PICK v \in Statuses : call' = [call EXCEPT ![c] = [Blank EXCEPT !.step = "insert", !.job = "check", !.print = p,
                                                           !.kind = "deployment_verify", !.status = v]]
    BY <1>3 DEF Relay, Begin
  <2> DEFINE r == [Blank EXCEPT !.step = "insert", !.job = "check", !.print = p,
                               !.kind = "deployment_verify", !.status = v]
  <2>2. r \in Call /\ r.plan = Nobody
    BY DEF Blank, Call, Steps, Jobs, RunTypes, Views
  <2>3. Fit(r, Known)
    BY DEF Fit, Blank, RowJobs, RowSteps, Nobody
  <2> QED BY <1>2, <2>1, <2>2, <2>3, Moves DEF Nobody
<1>4. CASE p # "verify"
  <2> DEFINE r == [Blank EXCEPT !.step = "find", !.job = "event", !.print = p]
  <2>1. call' = [call EXCEPT ![c] = r]
    BY <1>4 DEF Relay, Begin
  <2>2. r \in Call /\ r.plan = Nobody
    BY DEF Blank, Call, Steps, Jobs, RunTypes, Views
  <2>3. Fit(r, Known)
    BY DEF Fit, Blank, RowJobs, RowSteps, Nobody
  <2> QED BY <1>2, <2>1, <2>2, <2>3, Moves DEF Nobody
<1> QED BY <1>3, <1>4

LEMMA OperateStep == ASSUME IInv, NEW c \in Calls, NEW i \in Ids, Operate(c, i) PROVE IInv'
<1>1. Typed /\ CallTyped
  BY Split DEF IInv
<1>2. Typed' /\ UNCHANGED <<rows, alerts>>
  BY <1>1 DEF Operate, Typed, tables, outside
<1> DEFINE first(j) == CASE j = "recheck" -> "probe"
                         [] j = "dispatch" -> "persist"
                         [] j = "escalate" -> "mark"
                         [] OTHER -> "set"
           r(j) == [Blank EXCEPT !.job = j, !.row = i, !.print = PrintOf[i], !.step = first(j)]
<1>3. PICK j \in Recipes \ {"view"} : call' = [call EXCEPT ![c] = r(j)]
  BY Zenon DEF Operate, Begin
<1>4. j \in RowJobs
  BY ControlAssumption DEF ControlAssumption, RowJobs
<1>5. first(j) \in RowSteps \ {"finish", "view", "publish", "insert"} /\ first(j) \in Steps
  BY <1>4 DEF RowJobs, RowSteps, Steps
<1>6. PrintOf[i] \in Prints
  BY ControlAssumption DEF ControlAssumption
<1> HIDE DEF first
<1>7. r(j) \in Call /\ r(j).plan = Nobody
  BY <1>4, <1>5, <1>6 DEF Blank, Call, Jobs, RunTypes, Views, RowJobs
<1>8. Fit(r(j), Known)
  <2>1. i \in Known /\ i # Nobody
    BY ControlAssumption DEF Operate, Known, ControlAssumption
  <2> QED BY <1>4, <1>5, <2>1 DEF Fit, Blank, Nobody
<1> QED BY <1>2, <1>3, <1>7, <1>8, Moves DEF Nobody

-----------------------------------------------------------------------------
\* Steps that write a table other than the incidents.
LEMMA InsertStep == ASSUME IInv, NEW c \in Calls, Insert(c) PROVE IInv'
<1>1. call[c] \in Call /\ call[c] # Idle /\ Fit(call[c], Known) /\ Typed
  BY Current DEF Insert, At
<1> DEFINE r == [call[c] EXCEPT !.step = "count"]
           h == checks[call[c].print][call[c].kind]
<1>2. call' = [call EXCEPT ![c] = r] /\ call[c].step = "insert"
  BY DEF Insert, At, Go
<1>3. r \in Call
  BY <1>1 DEF Call, Steps
<1>4. Fit(r, Known) /\ r.plan # "opened"
  BY <1>1, <1>2 DEF Fit, RowSteps, RowJobs, Call
<1>5. call[c].status \in Statuses
  BY <1>1, <1>2 DEF Fit
<1>6. /\ call[c].print \in Prints /\ call[c].kind \in RunTypes
      /\ h \in Seq(Statuses) /\ Len(h) <= Lookback
  BY <1>1 DEF Call, Typed
<1>7. Recorded(h, call[c].status) \in Seq(Statuses) /\ Len(Recorded(h, call[c].status)) <= Lookback
  BY <1>5, <1>6, RecordedTyped
<1>8. checks' = [checks EXCEPT ![call[c].print][call[c].kind] = Recorded(h, call[c].status)]
  BY DEF Insert
<1>9. Typed'
  BY <1>1, <1>5, <1>6, <1>7, <1>8 DEF Insert, Typed, outside
<1>10. UNCHANGED <<rows, alerts>>
  BY DEF Insert
<1> QED BY <1>2, <1>3, <1>4, <1>9, <1>10, Moves

LEMMA PersistRecheckStep == ASSUME IInv, NEW c \in Calls, PersistRecheck(c) PROVE IInv'
<1>1. call[c] \in Call /\ call[c] # Idle /\ Fit(call[c], Known) /\ Typed
  BY Current DEF PersistRecheck, At
<1> DEFINE r == [call[c] EXCEPT !.step = "attempt", !.found = Nobody, !.status = Nobody]
<1>2. call' = [call EXCEPT ![c] = r] /\ call[c].step = "persist"
  BY DEF PersistRecheck, At, Go
<1>3. r \in Call /\ r.plan # "opened"
  BY <1>1, <1>2 DEF Call, Steps, Fit
<1>4. Fit(r, Known)
  BY <1>1, <1>2, <1>3 DEF Fit, RowSteps, RowJobs, Call
<1>5. call[c].row \in Ids
  BY <1>1, <1>2 DEF Fit, RowSteps, Known
<1>6. Typed'
  BY <1>1, <1>5 DEF PersistRecheck, Typed, outside
<1>7. UNCHANGED <<rows, alerts>>
  BY DEF PersistRecheck
<1> QED BY <1>2, <1>3, <1>4, <1>6, <1>7, Moves

LEMMA PersistDispatchStep == ASSUME IInv, NEW c \in Calls, PersistDispatch(c) PROVE IInv'
<1>1. call[c] \in Call /\ call[c] # Idle /\ Fit(call[c], Known) /\ Typed
  BY Current DEF PersistDispatch, At
<1>2. PICK q \in {call[c].plan, "updated"} :
         call' = [call EXCEPT ![c] = [call[c] EXCEPT !.step = "attempt", !.plan = q]]
  <2>1. CASE call' = [call EXCEPT ![c] = [call[c] EXCEPT !.step = "attempt"]]
    <3>1. [call[c] EXCEPT !.step = "attempt"] = [call[c] EXCEPT !.step = "attempt", !.plan = call[c].plan]
      BY <1>1 DEF Call
    <3> QED BY <2>1, <3>1
  <2>2. CASE call' = [call EXCEPT ![c] = [call[c] EXCEPT !.step = "attempt", !.plan = "updated"]]
    BY <2>2
  <2> QED BY <2>1, <2>2 DEF PersistDispatch, Go
<1> DEFINE r == [call[c] EXCEPT !.step = "attempt", !.plan = q]
<1>3. call[c].step = "persist" /\ call[c].plan # "opened" /\ call[c].plan \in {Nobody, "opened", "updated", "resolved"}
  BY <1>1 DEF PersistDispatch, At, Fit, Call
<1>4. r \in Call /\ r.plan # "opened"
  BY <1>1, <1>3 DEF Call, Steps
<1>5. Fit(r, Known)
  BY <1>1, <1>3, <1>4 DEF Fit, RowSteps, RowJobs, Call
<1>6. call[c].row \in Ids
  BY <1>1, <1>3 DEF Fit, RowSteps, Known
<1>7. Typed'
  <2>1. undone' \in SUBSET Ids
    BY <1>1, <1>6 DEF PersistDispatch, Typed
  <2>2. inbox' \in SUBSET Prints
    BY <1>1, ControlAssumption DEF PersistDispatch, Typed, ControlAssumption
  <2> QED BY <1>1, <2>1, <2>2 DEF PersistDispatch, Typed
<1>8. UNCHANGED <<rows, alerts>>
  BY DEF PersistDispatch
<1> QED BY <1>2, <1>4, <1>5, <1>7, <1>8, Moves

LEMMA EventUpdatesStep == ASSUME IInv, NEW c \in Calls, EventUpdates(c) PROVE IInv'
<1>1. call[c] \in Call /\ call[c] # Idle /\ Fit(call[c], Known) /\ Typed
  BY Current DEF EventUpdates, At
<1> DEFINE r == [call[c] EXCEPT !.step = "view", !.then = "reply", !.found = call[c].found,
                                !.plan = "updated", !.trend = Nobody]
<1>2. call' = [call EXCEPT ![c] = r]
  BY DEF EventUpdates, Refreshing, Go
<1>3. r \in Call /\ r.plan # "opened"
  BY <1>1 DEF Call
<1>4. Fit(r, Known)
  BY <1>1, <1>3 DEF Fit, RowSteps, RowJobs, Call
<1>5. Typed' /\ UNCHANGED <<rows, alerts>>
  BY <1>1 DEF EventUpdates, Typed, tables, outside
<1> QED BY <1>2, <1>3, <1>4, <1>5, Moves

\* The opening of the incident its request carries is told: nobody carries it after.
LEMMA TellStep == ASSUME IInv, NEW c \in Calls, Tell(c) PROVE IInv'
<1>1. call[c] \in Call /\ call[c] # Idle /\ Fit(call[c], Known) /\ Typed /\ CallTyped
  BY Current DEF Tell, At
<1>2. PICK r : /\ call' = [call EXCEPT ![c] = r]
               /\ r = Idle \/ (call[c].found # Nobody /\ r = Chained(c))
  BY Zenon DEF Tell, Go
<1>3. r \in Call \cup {Idle} /\ (r # Idle => r.plan = Nobody)
  BY <1>1, <1>2 DEF Chained, Blank, Call, Steps, Jobs, RunTypes, Views
<1>4. r # Idle => Fit(r, Known)
  BY <1>1, <1>2 DEF Chained, Blank, Fit, RowJobs, RowSteps, Nobody
<1>5. UNCHANGED <<rows, checks, latest, undone, up, marked, report>>
  BY DEF Tell, tables
<1>6. \A d \in Calls : call'[d] = IF d = c THEN r ELSE call[d]
  BY <1>1, <1>2 DEF CallTyped
<1>7. CallTyped'
  BY <1>1, <1>2, <1>3 DEF CallTyped
<1>8. Known' = Known
  BY <1>5 DEF Known, Exists
<1>9. Fitting'
  BY <1>4, <1>5, <1>6, <1>8 DEF IInv, Fitting
<1>10. (call[c].plan = "opened" => call[c].found \in Ids) /\ (call[c].found # Nobody => call[c].found \in Ids)
  BY <1>1 DEF Fit, Known
<1>11. Typed'
  <2>1. alerts' \in [Ids -> Nat]
    BY <1>1, <1>10 DEF Tell, Typed
  <2>2. auto' \in [Ids -> Nat]
    <3>1. auto' = auto \/ (call[c].found # Nobody /\ auto' = [auto EXCEPT ![call[c].found] = @ + 1])
      BY Zenon DEF Tell
    <3> QED BY <1>1, <1>10, <3>1 DEF Typed
  <2>3. inbox' \in SUBSET Prints
    BY <1>1 DEF Tell, Typed
  <2> QED BY <1>1, <1>5, <2>1, <2>2, <2>3 DEF Typed
<1>12. AnnouncedOnce'
  <2>1. \A k \in Ids, d \in Calls : Carries(d, k)' => Carries(d, k) /\ d # c
    BY <1>3, <1>6 DEF Carries, Nobody
  <2>2. CASE call[c].plan = "opened"
    <3>1. alerts' = [alerts EXCEPT ![call[c].found] = @ + 1]
      BY <2>2 DEF Tell
    <3>2. Carries(c, call[c].found) /\ AnnouncedOnce /\ alerts \in [Ids -> Nat]
      BY <1>1, <2>2 DEF Carries, IInv, Typed
    <3> QED BY <1>10, <2>1, <2>2, <3>1, <3>2 DEF AnnouncedOnce
  <2>3. CASE call[c].plan # "opened"
    <3>1. alerts' = alerts
      BY <2>3 DEF Tell
    <3> QED BY <2>1, <3>1 DEF IInv, AnnouncedOnce
  <2> QED BY <2>2, <2>3
<1>13. OneActiveIncident'
  BY <1>5 DEF IInv, OneActiveIncident, Active
<1> QED BY <1>7, <1>9, <1>11, <1>12, <1>13, Split DEF IInv, TypeOK, Typed, CallTyped

-----------------------------------------------------------------------------
\* Steps that write an incident that exists.
LEMMA Writes ==
    ASSUME IInv, NEW c \in Calls, NEW r \in Call, call' = [call EXCEPT ![c] = r],
           NEW j \in Known, NEW new \in Row,
           Update(j, new), UNCHANGED <<checks, latest, undone, outside, report, alerts, auto>>,
           Fit(r, Known), r.plan # "opened"
    PROVE  IInv'
<1>1. j \in Ids /\ Typed /\ CallTyped
  BY Split DEF Known, IInv
<1>2. (CallTyped /\ Fitting /\ OneActiveIncident /\ AnnouncedOnce)'
         /\ rows' \in [Ids -> Row \cup {NoRow}]
  BY <1>1, UpdateStep DEF IInv
<1>3. Typed'
  BY <1>1, <1>2 DEF Typed, outside
<1> QED BY <1>2, <1>3, Split DEF IInv, TypeOK, Typed, CallTyped

\* A row that exists is a row, also after an update of its fields.
LEMMA RowFields ==
    ASSUME Typed, NEW j \in Known
    PROVE  /\ rows[j] \in Row
           /\ \A s \in ActiveStates \cup {"resolved"} : [rows[j] EXCEPT !.state = s] \in Row
           /\ \A s \in ActiveStates \cup {"resolved"}, v \in Statuses :
                [rows[j] EXCEPT !.state = s, !.seen = v] \in Row
           /\ \A v \in Statuses : [rows[j] EXCEPT !.seen = v] \in Row
           /\ [rows[j] EXCEPT !.attempted = TRUE] \in Row
           /\ [rows[j] EXCEPT !.attempted = TRUE, !.state = "auto_remediating"] \in Row
<1>1. rows[j] \in Row
  BY DEF Typed, Known, Exists
<1> QED BY <1>1 DEF Row, ActiveStates

LEMMA SetStep == ASSUME IInv, NEW c \in Calls, Set(c) PROVE IInv'
<1>1. call[c] \in Call /\ call[c] # Idle /\ Fit(call[c], Known) /\ Typed
  BY Current DEF Set, At
<1> DEFINE r == [call[c] EXCEPT !.step = "view", !.then = "idle"]
           s == IF call[c].job = "ack" THEN "acknowledged" ELSE "silenced"
           new == [rows[call[c].row] EXCEPT !.state = s]
<1>2. call' = [call EXCEPT ![c] = r] /\ call[c].step = "set" /\ Update(call[c].row, new)
  BY DEF Set, At, Go
<1>3. call[c].row \in Known
  BY <1>1, <1>2 DEF Fit, RowSteps
<1>4. r \in Call /\ r.plan # "opened" /\ Fit(r, Known)
  <2>1. r \in Call
    BY <1>1 DEF Call
  <2>2. r.plan # "opened"
    BY <1>1, <1>2 DEF Call, Fit
  <2>3. Fit(r, Known)
    BY <1>1, <1>2, <2>2 DEF Fit, RowSteps, RowJobs, Call
  <2> QED BY <2>1, <2>2, <2>3
<1>5. new \in Row
  <2>1. s \in ActiveStates \cup {"resolved"} /\ s # "escalated"
    BY DEF ActiveStates
  <2>2. rows[call[c].row] \in Row /\ [rows[call[c].row] EXCEPT !.state = s] \in Row
    BY <1>1, <1>3, <2>1, RowFields
  <2> HIDE DEF s
  <2> QED BY <2>1, <2>2 DEF Row
<1>6. UNCHANGED <<checks, latest, undone, outside, report, alerts, auto>>
  BY DEF Set
<1> QED BY <1>2, <1>3, <1>4, <1>5, <1>6, Writes

LEMMA CheckResolvesStep == ASSUME IInv, NEW c \in Calls, CheckResolves(c) PROVE IInv'
<1>1. call[c] \in Call /\ call[c] # Idle /\ Fit(call[c], Known) /\ Typed
  BY Current DEF CheckResolves, At
<1> DEFINE r == [call[c] EXCEPT !.step = "view", !.then = "reply", !.found = call[c].found,
                                !.plan = "resolved", !.trend = Nobody]
           new == [rows[call[c].found] EXCEPT !.state = "resolved", !.seen = "healthy"]
<1>2. call' = [call EXCEPT ![c] = r] /\ call[c].found # Nobody /\ Update(call[c].found, new)
  BY DEF CheckResolves, Refreshing, Go
<1>3. call[c].found \in Known
  BY <1>1, <1>2 DEF Fit
<1>4. r \in Call /\ r.plan # "opened"
  BY <1>1 DEF Call
<1>5. Fit(r, Known)
  BY <1>1, <1>4 DEF Fit, RowSteps, RowJobs, Call
<1>6. new \in Row
  <2>1. rows[call[c].found] \in Row /\ new \in Row
    BY <1>1, <1>3, RowFields DEF Statuses
  <2> QED BY <2>1 DEF Row
<1>7. UNCHANGED <<checks, latest, undone, outside, report, alerts, auto>>
  BY DEF CheckResolves
<1> QED BY <1>2, <1>3, <1>4, <1>5, <1>6, <1>7, Writes

LEMMA CheckUpdatesStep == ASSUME IInv, NEW c \in Calls, CheckUpdates(c) PROVE IInv'
<1>1. call[c] \in Call /\ call[c] # Idle /\ Fit(call[c], Known) /\ Typed
  BY Current DEF CheckUpdates, At
<1> DEFINE r == [call[c] EXCEPT !.step = "view", !.then = "reply", !.found = call[c].found,
                                !.plan = "updated", !.trend = Nobody]
           new == [rows[call[c].found] EXCEPT !.seen = "failed"]
<1>2. call' = [call EXCEPT ![c] = r] /\ call[c].found # Nobody /\ Update(call[c].found, new)
  BY DEF CheckUpdates, Refreshing, Go
<1>3. call[c].found \in Known
  BY <1>1, <1>2 DEF Fit
<1>4. r \in Call /\ r.plan # "opened"
  BY <1>1 DEF Call
<1>5. Fit(r, Known)
  BY <1>1, <1>4 DEF Fit, RowSteps, RowJobs, Call
<1>6. new \in Row
  <2>1. rows[call[c].found] \in Row /\ new \in Row
    BY <1>1, <1>3, RowFields DEF Statuses
  <2>2. new.state = rows[call[c].found].state
    BY <2>1 DEF Row
  <2> QED BY <1>3, <2>1, <2>2 DEF IInv, Known
<1>7. UNCHANGED <<checks, latest, undone, outside, report, alerts, auto>>
  BY DEF CheckUpdates
<1> QED BY <1>2, <1>3, <1>4, <1>5, <1>6, <1>7, Writes

LEMMA AttemptStep == ASSUME IInv, NEW c \in Calls, Attempt(c) PROVE IInv'
<1>1. call[c] \in Call /\ call[c] # Idle /\ Fit(call[c], Known) /\ Typed
  BY Current DEF Attempt, At
<1> DEFINE r == [call[c] EXCEPT !.step = "view", !.then = "evaluate", !.plan = Nobody]
           new == IF call[c].plan = "updated"
                  THEN [rows[call[c].row] EXCEPT !.attempted = TRUE, !.state = "auto_remediating"]
                  ELSE [rows[call[c].row] EXCEPT !.attempted = TRUE]
<1>2. call' = [call EXCEPT ![c] = r] /\ call[c].step = "attempt" /\ Update(call[c].row, new)
  BY DEF Attempt, At, Go
<1>3. call[c].row \in Known
  BY <1>1, <1>2 DEF Fit, RowSteps
<1>4. r \in Call /\ r.plan # "opened"
  BY <1>1 DEF Call, Nobody
<1>5. Fit(r, Known)
  BY <1>1, <1>2, <1>4 DEF Fit, RowSteps, RowJobs, Call
<1>6. new \in Row
  BY <1>1, <1>3, RowFields DEF Row, IInv, Known
<1>7. UNCHANGED <<checks, latest, undone, outside, report, alerts, auto>>
  BY DEF Attempt
<1> QED BY <1>2, <1>3, <1>4, <1>5, <1>6, <1>7, Writes

LEMMA MarkStep == ASSUME IInv, NEW c \in Calls, Mark(c) PROVE IInv'
<1>1. call[c] \in Call /\ call[c] # Idle /\ Fit(call[c], Known) /\ Typed
  BY Current DEF Mark
<1> DEFINE t == IF call[c].step = "mark" THEN "finish" ELSE "idle"
           r == [call[c] EXCEPT !.step = "view", !.then = t]
           new == [rows[call[c].row] EXCEPT !.state = "escalated"]
<1>2. /\ call' = [call EXCEPT ![c] = r] /\ call[c].step \in {"mark", "finish"}
      /\ Update(call[c].row, new)
  BY DEF Mark, Go
<1>3. call[c].row \in Known
  BY <1>1, <1>2 DEF Fit, RowSteps
<1>4. r \in Call /\ r.plan # "opened"
  BY <1>1, <1>2 DEF Call, Fit
<1>5. Fit(r, Known)
  BY <1>1, <1>2, <1>3, <1>4 DEF Fit, RowSteps, RowJobs, Call
<1>6. new \in Row
  BY <1>1, <1>3, RowFields DEF ActiveStates
<1>7. UNCHANGED <<checks, latest, undone, outside, report, alerts, auto>>
  BY DEF Mark
<1> QED BY <1>2, <1>3, <1>4, <1>5, <1>6, <1>7, Writes

-----------------------------------------------------------------------------
\* A new incident, or an insert that is refused.
LEMMA Opens ==
    ASSUME IInv, NEW c \in Calls, call[c].step = "write", call[c].found = Nobody,
           NEW s \in Statuses, Open(c, s), UNCHANGED <<checks, latest, outside, report>>
    PROVE  IInv'
<1>1. call[c] \in Call /\ call[c] # Idle /\ Fit(call[c], Known) /\ Typed /\ CallTyped
  BY Current
<1>2. call[c].plan # "opened"
  BY <1>1 DEF Fit
<1>3. ASSUME NEW i \in Ids, PrintOf[i] = call[c].print, Free(i), ActiveOf(call[c].print) = {},
             rows' = [rows EXCEPT ![i] = Opened(s)], undone' = undone \ {i},
             alerts' = [alerts EXCEPT ![i] = 0],
             auto' = [auto EXCEPT ![i] = 0], Refreshing(c, i, "opened")
      PROVE  IInv'
  <2> DEFINE r == [call[c] EXCEPT !.step = "view", !.then = "reply", !.found = i,
                                  !.plan = "opened", !.trend = Nobody]
  <2>1. call' = [call EXCEPT ![c] = r]
    BY <1>3 DEF Refreshing, Go
  <2>2. r \in Call
    BY <1>1 DEF Call
  <2>3. r.row = call[c].row /\ r.found = i /\ r.job = call[c].job /\ r.step = "view" /\ r.then = "reply"
    BY <1>1 DEF Call
  <2>4. (CallTyped /\ Fitting /\ OneActiveIncident /\ AnnouncedOnce)'
           /\ rows' \in [Ids -> Row \cup {NoRow}] /\ alerts' \in [Ids -> Nat]
    BY <1>1, <1>3, <2>1, <2>2, <2>3, OpenStep DEF IInv
  <2>5. Typed'
    BY <1>1, <1>3, <2>4 DEF Typed, outside
  <2> QED BY <2>4, <2>5, Split DEF IInv, TypeOK, Typed, CallTyped
<1>4. ASSUME UNCHANGED <<rows, undone, alerts, auto>>,
             \/ Go(c, [call[c] EXCEPT !.step = "reply"])
             \/ Refreshing(c, Nobody, Nobody)
      PROVE  IInv'
  <2>1. Typed'
    BY <1>1, <1>4 DEF Typed, outside
  <2>2. CASE Go(c, [call[c] EXCEPT !.step = "reply"])
    <3> DEFINE r == [call[c] EXCEPT !.step = "reply"]
    <3>1. r \in Call /\ r.plan # "opened"
      BY <1>1, <1>2 DEF Call, Steps
    <3>2. Fit(r, Known)
      BY <1>1, <3>1 DEF Fit, RowSteps, RowJobs, Call
    <3> QED BY <1>4, <2>1, <2>2, <3>1, <3>2, Moves DEF Go
  <2>3. CASE Refreshing(c, Nobody, Nobody)
    <3> DEFINE r == [call[c] EXCEPT !.step = "view", !.then = "reply", !.found = Nobody,
                                    !.plan = Nobody, !.trend = Nobody]
    <3>1. r \in Call /\ r.plan # "opened"
      BY <1>1 DEF Call, Nobody
    <3>2. Fit(r, Known)
      BY <1>1, <3>1 DEF Fit, RowSteps, RowJobs, Call
    <3> QED BY <1>4, <2>1, <2>3, <3>1, <3>2, Moves DEF Go, Refreshing
  <2> QED BY <1>4, <2>2, <2>3
<1> QED BY <1>3, <1>4, Zenon DEF Open

LEMMA CheckOpensStep == ASSUME IInv, NEW c \in Calls, CheckOpens(c) PROVE IInv'
BY Opens DEF CheckOpens, At, Statuses

LEMMA EventOpensStep == ASSUME IInv, NEW c \in Calls, EventOpens(c) PROVE IInv'
BY Opens DEF EventOpens, At, IInv, TypeOK

-----------------------------------------------------------------------------
\* Steps without a request.
LEMMA OutsideStep ==
    ASSUME IInv, UNCHANGED <<tables, report, alerts, auto, call>>,
           up' \in BOOLEAN, inbox' \in SUBSET Prints, marked' \in SUBSET Prints
    PROVE  IInv'
<1>1. Known' = Known
  BY DEF Known, Exists, tables
<1>2. Fitting'
  BY <1>1 DEF IInv, Fitting, tables
<1>3. TypeOK'
  BY DEF IInv, TypeOK, tables
<1>4. OneActiveIncident' /\ AnnouncedOnce'
  BY DEF IInv, OneActiveIncident, AnnouncedOnce, Active, Carries, tables
<1> QED BY <1>2, <1>3, <1>4 DEF IInv

LEMMA InitInv == Init => IInv
<1> SUFFICES ASSUME Init PROVE IInv
  OBVIOUS
<1>1. TypeOK
  BY ControlAssumption DEF Init, TypeOK, Statuses, Views, ControlAssumption
<1>2. \A i \in Ids : ~Active(i) /\ alerts[i] = 0
  BY DEF Init, Active, ActiveStates, NoRow
<1>3. Fitting /\ \A c \in Calls : call[c] = Idle
  BY DEF Init, Fitting
<1> QED BY <1>1, <1>2, <1>3 DEF IInv, OneActiveIncident, AnnouncedOnce, Carries

LEMMA StepInv == IInv /\ [Next]_vars => IInv'
<1> SUFFICES ASSUME IInv, [Next]_vars PROVE IInv'
  OBVIOUS
<1>1. ASSUME NEW c \in Calls, Record(c) PROVE IInv'
  BY <1>1, InsertStep, CountStep, FindStep, CheckResolvesStep, CheckUpdatesStep, CheckOpensStep,
     CheckPassesStep, EventUpdatesStep, EventOpensStep, ReplyStep DEF Record
<1>2. ASSUME NEW c \in Calls, Step(c) PROVE IInv'
  BY <1>1, <1>2, ViewStep, PublishStep, TellStep, LoseStep, SetStep, RecheckStep, PersistRecheckStep,
     PersistDispatchStep, AttemptStep, EvaluateStep, MarkStep DEF Step
<1>3. ASSUME NEW p \in Prints, Rerun(p) \/ Expire(p) PROVE IInv'
  BY <1>3, OutsideStep DEF Rerun, Expire, tables, IInv, TypeOK
<1>4. CASE Flip
  BY <1>4, OutsideStep DEF Flip, tables, IInv, TypeOK
<1>5. CASE UNCHANGED vars
  BY <1>5, OutsideStep DEF vars, tables, IInv, TypeOK
<1>6. ASSUME NEW c \in Calls,
             Probe(c) \/ Look(c) \/ (\E p \in Prints : Relay(c, p)) \/ (\E i \in Ids : Operate(c, i))
      PROVE  IInv'
  BY <1>6, ProbeStep, LookStep, RelayStep, OperateStep
<1> QED BY <1>2, <1>3, <1>4, <1>5, <1>6 DEF Next

-----------------------------------------------------------------------------
THEOREM Invariance == Spec => []IInv
BY InitInv, StepInv, PTL DEF Spec

\* The variables of the control center keep their types for any number of rows,
\* fingerprints and callers, and no count reads more than its window.
THEOREM ControlTypeCorrect == Spec => []TypeOK
<1>1. IInv => TypeOK
  BY DEF IInv
<1> QED BY <1>1, Invariance, PTL

\* The opening of an incident is told at most once, whoever opened it and
\* whatever answer is lost (buildNotificationPlan, sendTelegram).
THEOREM OpeningToldOnce == Spec => []AnnouncedOnce
<1>1. IInv => AnnouncedOnce
  BY DEF IInv
<1> QED BY <1>1, Invariance, PTL

-----------------------------------------------------------------------------
(* One scheduled probe at a time.  The worker remediates an incident when  *)
(* the store suggests a recheck, which it does for an opening and as long  *)
(* as the row was not attempted; the recheck that follows marks the row.   *)
(* RInv accounts for every remediation: either the row is marked, or the   *)
(* recheck that will mark it is still under way.                           *)

OneCron == \A c, d \in Crons : c = d

\* The request r is a recheck that has not marked its row yet.
Chains(r) ==
    /\ r.job = "recheck"
    /\ \/ r.step \in {"probe", "insert", "count", "find", "write", "reply", "persist", "attempt"}
       \/ r.step \in {"view", "publish"} /\ r.then = "reply"

\* The answer r holds may make the worker remediate the incident i.
Wants(r, i) == r.found = i /\ (r.plan = "opened" \/ (r.step = "tell" /\ r.suggest = "recheck"))

CronFit(r) ==
    /\ r.job \in {"check", "recheck"}
    /\ r.step \in {"persist", "attempt"} => r.plan # "updated"

Underway(i) == \E c \in Crons : call[c] # Idle /\ Chains(call[c]) /\ call[c].row = i

Remediated(i) ==
    /\ auto[i] <= 1
    /\ auto[i] # 0 => Exists(i) /\ (rows[i].attempted \/ Underway(i))
    /\ \A c \in Crons : call[c] # Idle /\ Wants(call[c], i) => auto[i] = 0

RInv ==
    /\ \A c \in Crons : call[c] # Idle => CronFit(call[c])
    /\ \A i \in Ids : Remediated(i)

\* What the requests r and n of a cron before and after a step have to do with
\* each other when no remediation starts.
Follows(r, n) ==
    n # Idle =>
      /\ CronFit(n)
      /\ \A i \in Ids : Wants(n, i) => auto[i] = 0 \/ (r # Idle /\ Wants(r, i))

\* A step that remediates nothing and opens nothing.
LEMMA KeepsCount ==
    ASSUME RInv, CallTyped, NEW c \in Calls, NEW n, call' = [call EXCEPT ![c] = n],
           UNCHANGED auto,
           \A i \in Ids : Exists(i) => Exists(i)' /\ (rows[i].attempted => rows'[i].attempted),
           c \in Crons => Follows(call[c], n),
           c \in Crons /\ call[c] # Idle /\ Chains(call[c]) /\ call[c].row \in Ids =>
              \/ n # Idle /\ Chains(n) /\ n.row = call[c].row
              \/ rows'[call[c].row].attempted
    PROVE  RInv'
<1>1. \A d \in Calls : call'[d] = IF d = c THEN n ELSE call[d]
  BY DEF CallTyped
<1>2. \A d \in Crons : d \in Calls
  BY DEF Calls
<1>3. \A d \in Crons : call'[d] # Idle => CronFit(call'[d])
  BY <1>1, <1>2 DEF RInv, Follows
<1>4. ASSUME NEW i \in Ids PROVE Remediated(i)'
  <2>1. Remediated(i) /\ auto'[i] = auto[i]
    BY DEF RInv
  <2>2. ASSUME auto[i] # 0 PROVE Exists(i)' /\ (rows'[i].attempted \/ Underway(i)')
    <3>1. Exists(i)' /\ (rows[i].attempted => rows'[i].attempted)
      BY <2>1, <2>2 DEF Remediated
    <3>2. ASSUME Underway(i) PROVE rows'[i].attempted \/ Underway(i)'
      <4>1. PICK d \in Crons : call[d] # Idle /\ Chains(call[d]) /\ call[d].row = i
        BY <3>2 DEF Underway
      <4>2. CASE d = c
        <5>1. (n # Idle /\ Chains(n) /\ n.row = i) \/ rows'[i].attempted
          BY <4>1, <4>2
        <5>2. call'[d] = n
          BY <1>1, <4>2
        <5> QED BY <5>1, <5>2 DEF Underway
      <4>3. CASE d # c
        <5>1. call'[d] = call[d]
          BY <1>1, <1>2, <4>3
        <5> QED BY <4>1, <5>1 DEF Underway
      <4> QED BY <4>2, <4>3
    <3> QED BY <2>1, <2>2, <3>1, <3>2 DEF Remediated
  <2>3. ASSUME NEW d \in Crons, call'[d] # Idle, Wants(call'[d], i) PROVE auto[i] = 0
    <3>1. CASE d = c
      <4>1. call'[d] = n
        BY <1>1, <3>1
      <4> QED BY <2>1, <2>3, <3>1, <4>1 DEF Follows, Remediated
    <3>2. CASE d # c
      <4>1. call'[d] = call[d]
        BY <1>1, <1>2, <3>2
      <4> QED BY <2>1, <2>3, <4>1 DEF Remediated
    <3> QED BY <3>1, <3>2
  <2> QED BY <2>1, <2>2, <2>3 DEF Remediated
<1> QED BY <1>3, <1>4 DEF RInv

\* The writes of an incident keep the mark of every row.
LEMMA UpdateKeepsMark ==
    ASSUME Typed, NEW j \in Known, NEW new \in Row, Update(j, new), rows[j].attempted => new.attempted
    PROVE  \A i \in Ids : Exists(i) => Exists(i)' /\ (rows[i].attempted => rows'[i].attempted)
<1>1. rows \in [Ids -> Row \cup {NoRow}] /\ j \in Ids
  BY DEF Typed, Known
<1>2. new # NoRow
  BY DEF Row, NoRow, ActiveStates
<1> QED BY <1>1, <1>2 DEF Update, Exists

\* What an action that leaves the tables alone has to show.
LEMMA RowsKeepMark ==
    ASSUME UNCHANGED rows
    PROVE  \A i \in Ids : Exists(i) => Exists(i)' /\ (rows[i].attempted => rows'[i].attempted)
BY DEF Exists

\* The requests a cron serves between its probe and its answer.
LEMMA RecordKeepsCount ==
    ASSUME IInv, RInv, NEW c \in Calls, Insert(c) \/ Count(c) \/ Find(c) \/ CheckPasses(c)
    PROVE  RInv'
<1>1. call[c] \in Call /\ call[c] # Idle /\ Fit(call[c], Known) /\ CallTyped
  BY Current DEF Insert, Count, Find, CheckPasses, At
<1>2. UNCHANGED <<rows, auto>>
  BY DEF Insert, Count, Find, CheckPasses, tables
<1>3. PICK n : /\ call' = [call EXCEPT ![c] = n]
               /\ call[c].step \in {"insert", "count", "find", "write"}
               /\ n.step \in {"count", "find", "write", "reply"}
               /\ n.job = call[c].job /\ n.row = call[c].row /\ n.plan = call[c].plan
  <2>1. CASE Insert(c)
    <3> DEFINE n == [call[c] EXCEPT !.step = "count"]
    <3>1. call' = [call EXCEPT ![c] = n] /\ call[c].step = "insert"
      BY <2>1 DEF Insert, Go, At
    <3>2. n.step = "count" /\ n.job = call[c].job /\ n.row = call[c].row /\ n.plan = call[c].plan
      BY <1>1 DEF Call
    <3> QED BY <3>1, <3>2
  <2>2. CASE Count(c)
    <3> DEFINE n == [call[c] EXCEPT !.step = "find", !.trend = Trend(checks[call[c].print][call[c].kind])]
    <3>1. call' = [call EXCEPT ![c] = n] /\ call[c].step = "count"
      BY <2>2 DEF Count, Go, At
    <3>2. n.step = "find" /\ n.job = call[c].job /\ n.row = call[c].row /\ n.plan = call[c].plan
      BY <1>1 DEF Call
    <3> QED BY <3>1, <3>2
  <2>3. CASE Find(c)
    <3>1. PICK i : call' = [call EXCEPT ![c] = [call[c] EXCEPT !.step = "write"]]
                   \/ call' = [call EXCEPT ![c] = [call[c] EXCEPT !.step = "write", !.found = i]]
      BY <2>3, Zenon DEF Find, Go
    <3>2. call[c].step = "find"
      BY <2>3 DEF Find, At
    <3>3. CASE call' = [call EXCEPT ![c] = [call[c] EXCEPT !.step = "write"]]
      <4> DEFINE n == [call[c] EXCEPT !.step = "write"]
      <4>1. n.step = "write" /\ n.job = call[c].job /\ n.row = call[c].row /\ n.plan = call[c].plan
        BY <1>1 DEF Call
      <4> QED BY <3>2, <3>3, <4>1
    <3>4. CASE call' = [call EXCEPT ![c] = [call[c] EXCEPT !.step = "write", !.found = i]]
      <4> DEFINE n == [call[c] EXCEPT !.step = "write", !.found = i]
      <4>1. n.step = "write" /\ n.job = call[c].job /\ n.row = call[c].row /\ n.plan = call[c].plan
        BY <1>1 DEF Call
      <4> QED BY <3>2, <3>4, <4>1
    <3> QED BY <3>1, <3>3, <3>4
  <2>4. CASE CheckPasses(c)
    <3> DEFINE n == [call[c] EXCEPT !.step = "reply", !.trend = Nobody]
    <3>1. call' = [call EXCEPT ![c] = n] /\ call[c].step = "write"
      BY <2>4 DEF CheckPasses, Go, At
    <3>2. n.step = "reply" /\ n.job = call[c].job /\ n.row = call[c].row /\ n.plan = call[c].plan
      BY <1>1 DEF Call
    <3> QED BY <3>1, <3>2
  <2> QED BY <2>1, <2>2, <2>3, <2>4
<1>4. call[c].plan # "opened"
  BY <1>1, <1>3 DEF Fit
<1>5. c \in Crons => Follows(call[c], n)
  BY <1>1, <1>3, <1>4 DEF Follows, CronFit, RInv, Wants
<1>6. Chains(call[c]) => n # Idle /\ Chains(n) /\ n.row = call[c].row
  <2>1. n # Idle
    BY <1>3 DEF Idle
  <2> QED BY <1>3, <2>1 DEF Chains
<1> QED BY <1>1, <1>2, <1>3, <1>5, <1>6, KeepsCount, RowsKeepMark

\* A call that writes an incident of the table, or none, without remediating.
LEMMA ViewKeepsCount ==
    ASSUME IInv, RInv, NEW c \in Calls, View(c) \/ Publish(c)
    PROVE  RInv'
<1>1. call[c] \in Call /\ call[c] # Idle /\ Fit(call[c], Known) /\ CallTyped
  BY Current DEF View, Publish, At
<1>2. UNCHANGED <<rows, auto>>
  BY DEF View, Publish, tables
<1>3. PICK n : /\ call' = [call EXCEPT ![c] = n]
               /\ call[c].step \in {"view", "publish"}
               /\ \/ n = Idle /\ call[c].then = "idle"
                  \/ /\ n.step = "publish" \/ n.step = call[c].then
                     /\ n.then = call[c].then /\ n.job = call[c].job /\ n.row = call[c].row
                     /\ n.plan = call[c].plan /\ n.found = call[c].found
  <2>1. CASE View(c)
    <3> DEFINE v == IF ActiveIncidents = {} THEN "clear" ELSE "active"
               n == [call[c] EXCEPT !.step = "publish", !.view = v]
    <3>1. call' = [call EXCEPT ![c] = n] /\ call[c].step = "view"
      BY <2>1 DEF View, Go, At
    <3>2. /\ n.step = "publish" /\ n.then = call[c].then /\ n.job = call[c].job /\ n.row = call[c].row
          /\ n.plan = call[c].plan /\ n.found = call[c].found
      BY <1>1 DEF Call
    <3> QED BY <3>1, <3>2
  <2>2. CASE Publish(c) /\ call[c].then = "idle"
    BY <2>2 DEF Publish, Go, At
  <2>3. CASE Publish(c) /\ call[c].then # "idle"
    <3> DEFINE n == [call[c] EXCEPT !.step = call[c].then, !.view = "clear"]
    <3>1. call' = [call EXCEPT ![c] = n] /\ call[c].step = "publish"
      BY <2>3 DEF Publish, Go, At
    <3>2. /\ n.step = call[c].then /\ n.then = call[c].then /\ n.job = call[c].job /\ n.row = call[c].row
          /\ n.plan = call[c].plan /\ n.found = call[c].found
      BY <1>1 DEF Call
    <3> QED BY <3>1, <3>2
  <2> QED BY <2>1, <2>2, <2>3
<1>4. n # Idle => n.step \in {"publish", "reply", "evaluate", "finish", "idle"}
  BY <1>1, <1>3 DEF Call
<1>5. c \in Crons => Follows(call[c], n)
  BY <1>1, <1>3, <1>4 DEF Follows, CronFit, RInv, Wants
<1>6. Chains(call[c]) => n # Idle /\ Chains(n) /\ n.row = call[c].row
  <2>1. n = Idle => n.step = "idle"
    BY DEF Idle
  <2> QED BY <1>3, <2>1 DEF Chains
<1> QED BY <1>1, <1>2, <1>3, <1>5, <1>6, KeepsCount, RowsKeepMark

LEMMA CheckKeepsCount ==
    ASSUME IInv, RInv, NEW c \in Calls, CheckResolves(c) \/ CheckUpdates(c) \/ EventUpdates(c)
    PROVE  RInv'
<1>1. call[c] \in Call /\ call[c] # Idle /\ Fit(call[c], Known) /\ Typed /\ CallTyped
  BY Current DEF CheckResolves, CheckUpdates, EventUpdates, At
<1>2. PICK p \in {"resolved", "updated"} : Refreshing(c, call[c].found, p)
  BY DEF CheckResolves, CheckUpdates, EventUpdates
<1> DEFINE n == [call[c] EXCEPT !.step = "view", !.then = "reply", !.found = call[c].found,
                                !.plan = p, !.trend = Nobody]
<1>3. call' = [call EXCEPT ![c] = n]
  BY <1>2 DEF Refreshing, Go
<1>4. /\ n.step = "view" /\ n.then = "reply" /\ n.plan = p
      /\ n.job = call[c].job /\ n.row = call[c].row
  BY <1>1 DEF Call
<1>5. auto' = auto
  BY DEF CheckResolves, CheckUpdates, EventUpdates
<1>6. \A i \in Ids : Exists(i) => Exists(i)' /\ (rows[i].attempted => rows'[i].attempted)
  <2>1. CASE EventUpdates(c)
    BY <2>1, RowsKeepMark DEF EventUpdates, tables
  <2>2. CASE CheckResolves(c)
    <3> DEFINE new == [rows[call[c].found] EXCEPT !.state = "resolved", !.seen = "healthy"]
    <3>1. call[c].found \in Known /\ Update(call[c].found, new)
      BY <1>1, <2>2 DEF CheckResolves, Fit
    <3>2. rows[call[c].found] \in Row /\ new \in Row
      BY <1>1, <3>1, RowFields DEF Statuses
    <3>3. new.attempted = rows[call[c].found].attempted
      BY <3>2 DEF Row
    <3> QED BY <1>1, <3>1, <3>2, <3>3, UpdateKeepsMark
  <2>3. CASE CheckUpdates(c)
    <3> DEFINE new == [rows[call[c].found] EXCEPT !.seen = "failed"]
    <3>1. call[c].found \in Known /\ Update(call[c].found, new)
      BY <1>1, <2>3 DEF CheckUpdates, Fit
    <3>2. rows[call[c].found] \in Row /\ new \in Row
      BY <1>1, <3>1, RowFields DEF Statuses
    <3>3. new.attempted = rows[call[c].found].attempted
      BY <3>2 DEF Row
    <3> QED BY <1>1, <3>1, <3>2, <3>3, UpdateKeepsMark
  <2> QED BY <2>1, <2>2, <2>3
<1> HIDE DEF n
<1>7. n # Idle
  BY <1>4 DEF Idle
<1>8. c \in Crons => Follows(call[c], n)
  BY <1>1, <1>4 DEF Follows, CronFit, RInv, Wants
<1>9. Chains(call[c]) => Chains(n)
  BY <1>4 DEF Chains
<1> QED BY <1>1, <1>3, <1>4, <1>5, <1>6, <1>7, <1>8, <1>9, KeepsCount

\* An incident that is opened starts unremediated; its id was free, so no
\* recheck is under way for it.
LEMMA OpenKeepsCount ==
    ASSUME IInv, RInv, NEW c \in Calls, call[c].step = "write",
           call[c].job \in {"check", "recheck", "event"}, NEW s, Open(c, s)
    PROVE  RInv'
<1>1. call[c] \in Call /\ call[c] # Idle /\ Fit(call[c], Known) /\ Typed /\ CallTyped
  BY Current
<1>2. ASSUME NEW i \in Ids, Free(i), rows' = [rows EXCEPT ![i] = Opened(s)],
             auto' = [auto EXCEPT ![i] = 0], Refreshing(c, i, "opened")
      PROVE  RInv'
  <2> DEFINE n == [call[c] EXCEPT !.step = "view", !.then = "reply", !.found = i,
                                  !.plan = "opened", !.trend = Nobody]
  <2>1. call' = [call EXCEPT ![c] = n]
    BY <1>2 DEF Refreshing, Go
  <2>2. /\ n.step = "view" /\ n.then = "reply" /\ n.plan = "opened" /\ n.found = i
        /\ n.job = call[c].job /\ n.row = call[c].row
    BY <1>1 DEF Call
  <2> HIDE DEF n
  <2>3. n # Idle /\ \A d \in Calls : call'[d] = IF d = c THEN n ELSE call[d]
    BY <1>1, <2>1, <2>2 DEF Idle, CallTyped
  <2>4. \A d \in Crons : d \in Calls
    BY DEF Calls
  <2>5. \A d \in Crons : call'[d] # Idle => CronFit(call'[d])
    BY <1>1, <2>2, <2>3, <2>4 DEF RInv, CronFit
  <2>6. /\ auto'[i] = 0 /\ \A k \in Ids : k # i => auto'[k] = auto[k]
        /\ \A k \in Ids : k # i => rows'[k] = rows[k]
    BY <1>1, <1>2 DEF Typed
  <2>7. ASSUME NEW k \in Ids PROVE Remediated(k)'
    <3>1. CASE k = i
      BY <2>6, <3>1 DEF Remediated
    <3>2. CASE k # i
      <4>1. Remediated(k) /\ auto'[k] = auto[k] /\ (Exists(k) => Exists(k)') /\ rows'[k] = rows[k]
        BY <2>6, <3>2 DEF RInv, Exists
      <4>2. Underway(k) => Underway(k)'
        <5>1. SUFFICES ASSUME NEW d \in Crons, call[d] # Idle, Chains(call[d]), call[d].row = k
                       PROVE  call'[d] # Idle /\ Chains(call'[d]) /\ call'[d].row = k
          BY DEF Underway
        <5>2. CASE d = c
          BY <2>2, <2>3, <2>4, <5>1, <5>2 DEF Chains
        <5>3. CASE d # c
          BY <2>3, <2>4, <5>1, <5>3
        <5> QED BY <5>2, <5>3
      <4>3. \A d \in Crons : call'[d] # Idle /\ Wants(call'[d], k) => auto[k] = 0
        <5>1. SUFFICES ASSUME NEW d \in Crons, call'[d] # Idle, Wants(call'[d], k) PROVE auto[k] = 0
          OBVIOUS
        <5>2. d # c
          BY <2>2, <2>3, <2>4, <3>2, <5>1 DEF Wants
        <5> QED BY <2>3, <2>4, <4>1, <5>1, <5>2 DEF Remediated
      <4> QED BY <4>1, <4>2, <4>3 DEF Remediated
    <3> QED BY <3>1, <3>2
  <2> QED BY <2>5, <2>7 DEF RInv
<1>3. ASSUME UNCHANGED <<rows, auto>>,
             \/ call[c].job = "event" /\ Go(c, [call[c] EXCEPT !.step = "reply"])
             \/ Refreshing(c, Nobody, Nobody)
      PROVE  RInv'
  <2>1. PICK n : /\ call' = [call EXCEPT ![c] = n]
                 /\ n.job = call[c].job /\ n.row = call[c].row
                 /\ \/ call[c].job = "event"
                    \/ n.step = "view" /\ n.then = "reply" /\ n.plan = Nobody
    <3>1. CASE call[c].job = "event" /\ Go(c, [call[c] EXCEPT !.step = "reply"])
      <4> DEFINE n == [call[c] EXCEPT !.step = "reply"]
      <4>1. n.job = call[c].job /\ n.row = call[c].row
        BY <1>1 DEF Call
      <4> QED BY <3>1, <4>1 DEF Go
    <3>2. CASE Refreshing(c, Nobody, Nobody)
      <4> DEFINE n == [call[c] EXCEPT !.step = "view", !.then = "reply", !.found = Nobody,
                                      !.plan = Nobody, !.trend = Nobody]
      <4>1. /\ n.job = call[c].job /\ n.row = call[c].row
            /\ n.step = "view" /\ n.then = "reply" /\ n.plan = Nobody
        BY <1>1 DEF Call
      <4> QED BY <3>2, <4>1 DEF Go, Refreshing
    <3> QED BY <1>3, <3>1, <3>2
  <2>2. c \in Crons => call[c].job # "event"
    BY <1>1 DEF RInv, CronFit
  <2>3. c \in Crons => Follows(call[c], n)
    BY <1>1, <2>1, <2>2 DEF Follows, CronFit, RInv, Wants, Nobody
  <2>4. c \in Crons /\ Chains(call[c]) => n # Idle /\ Chains(n) /\ n.row = call[c].row
    <3>1. n.step = "view" => n # Idle
      BY DEF Idle
    <3> QED BY <2>1, <2>2, <3>1 DEF Chains
  <2> QED BY <1>1, <1>3, <2>1, <2>3, <2>4, KeepsCount, RowsKeepMark
<1> QED BY <1>2, <1>3, Zenon DEF Open

\* The answer of a check suggests a recheck only for an incident that was never
\* remediated; the answer of a recheck goes on to mark the row.
LEMMA ReplyKeepsCount ==
    ASSUME OneCron, IInv, RInv, NEW c \in Calls, Reply(c)
    PROVE  RInv'
<1>1. /\ call[c] \in Call /\ call[c] # Idle /\ Fit(call[c], Known) /\ CallTyped
      /\ call[c].step = "reply"
  BY Current DEF Reply, At
<1>2. UNCHANGED <<rows, auto>>
  BY DEF Reply, tables
<1>3. CASE call[c].job = "recheck"
  <2> DEFINE n == [call[c] EXCEPT !.step = "persist", !.then = "idle", !.plan = Nobody]
  <2>1. call' = [call EXCEPT ![c] = n]
    BY <1>3 DEF Reply, Go
  <2>2. n.step = "persist" /\ n.plan = Nobody /\ n.job = "recheck" /\ n.row = call[c].row
    BY <1>1, <1>3 DEF Call
  <2> HIDE DEF n
  <2>3. n # Idle /\ Chains(n) /\ CronFit(n)
    BY <2>2 DEF Idle, Chains, CronFit, Nobody
  <2>4. Follows(call[c], n)
    BY <2>2, <2>3 DEF Follows, Wants, Nobody
  <2> QED BY <1>1, <1>2, <2>1, <2>2, <2>3, <2>4, KeepsCount, RowsKeepMark
<1>4. CASE call[c].job # "recheck"
  <2> DEFINE s == IF call[c].job = "check" /\ Suggests(c) THEN "recheck" ELSE Nobody
             n == [call[c] EXCEPT !.step = "tell", !.then = "idle", !.suggest = s]
  <2>1. call' = [call EXCEPT ![c] = n]
    BY <1>4 DEF Reply, Go
  <2>2. /\ n.step = "tell" /\ n.plan = call[c].plan /\ n.job = call[c].job
        /\ n.found = call[c].found /\ n.suggest = s
    BY <1>1 DEF Call
  <2> HIDE DEF n
  <2>3. n # Idle /\ ~Chains(call[c])
    BY <1>4, <2>2 DEF Idle, Chains
  <2>4. ASSUME c \in Crons PROVE Follows(call[c], n)
    <3>1. CronFit(n)
      BY <1>1, <2>2, <2>4 DEF RInv, CronFit
    <3>2. ASSUME NEW i \in Ids, Wants(n, i) PROVE auto[i] = 0 \/ Wants(call[c], i)
      <4>1. CASE call[c].plan = "opened"
        BY <2>2, <3>2, <4>1 DEF Wants
      <4>2. CASE call[c].plan # "opened"
        <5>1. call[c].found = i /\ s = "recheck"
          BY <2>2, <3>2, <4>2 DEF Wants
        <5>2. ~rows[i].attempted
          BY <4>2, <5>1 DEF Suggests, Nobody
        <5>3. ~Underway(i)
          BY <2>3, <2>4 DEF OneCron, Underway
        <5> QED BY <5>2, <5>3 DEF RInv, Remediated
      <4> QED BY <4>1, <4>2
    <3> QED BY <1>1, <3>1, <3>2 DEF Follows
  <2> QED BY <1>1, <1>2, <2>1, <2>3, <2>4, KeepsCount, RowsKeepMark
<1> QED BY <1>3, <1>4

\* A request that is dropped, or that goes on about the row it has, wants nothing.
LEMMA QuietKeepsCount ==
    ASSUME IInv, RInv, NEW c \in Calls, call[c].step # "idle", NEW n,
           call' = [call EXCEPT ![c] = n], UNCHANGED auto,
           \A i \in Ids : Exists(i) => Exists(i)' /\ (rows[i].attempted => rows'[i].attempted),
           ~Chains(call[c]),
           \/ n = Idle
           \/ /\ n.job = call[c].job /\ n.plan \in {call[c].plan, Nobody}
              /\ n.step \notin {"persist", "attempt", "tell"}
              /\ call[c].plan # "opened"
    PROVE  RInv'
<1>1. call[c] # Idle /\ CallTyped
  BY Current
<1>2. c \in Crons => Follows(call[c], n)
  BY <1>1 DEF Follows, RInv, CronFit, Wants, Nobody
<1> QED BY <1>1, <1>2, KeepsCount

LEMMA LoseKeepsCount == ASSUME IInv, RInv, NEW c \in Calls, Lose(c) PROVE RInv'
<1>1. call[c].step = "tell" /\ call' = [call EXCEPT ![c] = Idle] /\ UNCHANGED <<rows, auto>>
  BY DEF Lose, At, Go, tables
<1>2. ~Chains(call[c]) /\ call[c].step # "idle"
  BY <1>1 DEF Chains
<1> QED BY <1>1, <1>2, QuietKeepsCount, RowsKeepMark

LEMMA EvaluateKeepsCount == ASSUME IInv, RInv, NEW c \in Calls, Evaluate(c) PROVE RInv'
<1>1. call[c].step = "evaluate" /\ UNCHANGED <<rows, auto>>
  BY DEF Evaluate, At, tables
<1>2. ~Chains(call[c]) /\ call[c].step # "idle"
  BY <1>1 DEF Chains
<1>3. call[c] \in Call /\ call[c].plan # "opened"
  BY <1>1, Current DEF Fit
<1> DEFINE n == [call[c] EXCEPT !.step = "mark", !.then = "idle"]
<1>4. n.step = "mark" /\ n.job = call[c].job /\ n.plan = call[c].plan
  BY <1>3 DEF Call
<1>5. call' = [call EXCEPT ![c] = Idle] \/ call' = [call EXCEPT ![c] = n]
  BY Zenon DEF Evaluate, Go
<1> HIDE DEF n
<1>6. CASE call' = [call EXCEPT ![c] = Idle]
  BY <1>1, <1>2, <1>6, QuietKeepsCount, RowsKeepMark
<1>7. CASE call' = [call EXCEPT ![c] = n]
  BY <1>1, <1>2, <1>3, <1>4, <1>7, QuietKeepsCount, RowsKeepMark
<1> QED BY <1>5, <1>6, <1>7

\* Acknowledging, silencing and escalating leave the mark of the row.
LEMMA StateKeepsCount ==
    ASSUME IInv, RInv, NEW c \in Calls, Set(c) \/ Mark(c)
    PROVE  RInv'
<1>1. call[c].step \in {"set", "mark", "finish"} /\ UNCHANGED auto
  BY DEF Set, Mark, At
<1>2. ~Chains(call[c]) /\ call[c].step # "idle"
  BY <1>1 DEF Chains
<1>3. call[c] \in Call /\ call[c].plan # "opened" /\ call[c].row \in Known /\ Typed
  <2>1. call[c] \in Call /\ Fit(call[c], Known) /\ Typed
    BY <1>2, Current
  <2> QED BY <1>1, <2>1 DEF Fit, RowSteps
<1>4. PICK t : call' = [call EXCEPT ![c] = [call[c] EXCEPT !.step = "view", !.then = t]]
  BY Zenon DEF Set, Mark, Go
<1>5. PICK s \in ActiveStates \cup {"resolved"} :
         Update(call[c].row, [rows[call[c].row] EXCEPT !.state = s])
  <2>1. CASE Set(c)
    <3> DEFINE s == IF call[c].job = "ack" THEN "acknowledged" ELSE "silenced"
    <3>1. s \in ActiveStates
      BY DEF ActiveStates
    <3> QED BY <2>1, <3>1 DEF Set
  <2>2. CASE Mark(c)
    BY <2>2 DEF Mark, ActiveStates
  <2> QED BY <2>1, <2>2
<1> DEFINE n == [call[c] EXCEPT !.step = "view", !.then = t]
           new == [rows[call[c].row] EXCEPT !.state = s]
<1>6. n.step = "view" /\ n.job = call[c].job /\ n.plan = call[c].plan
  BY <1>3 DEF Call
<1>7. new \in Row /\ new.attempted = rows[call[c].row].attempted
  BY <1>3, RowFields DEF Row
<1> HIDE DEF n, new
<1>8. call' = [call EXCEPT ![c] = n] /\ Update(call[c].row, new)
  BY <1>4, <1>5 DEF n, new
<1>9. \A i \in Ids : Exists(i) => Exists(i)' /\ (rows[i].attempted => rows'[i].attempted)
  BY <1>3, <1>7, <1>8, UpdateKeepsMark
<1> QED BY <1>1, <1>2, <1>3, <1>6, <1>8, <1>9, QuietKeepsCount

\* The recheck a cron was told to run stays the one that will mark the row.
LEMMA ChainKeepsCount ==
    ASSUME IInv, RInv, NEW c \in Calls, Recheck(c) \/ PersistRecheck(c)
    PROVE  RInv'
<1>1. call[c].step \in {"probe", "persist"} /\ UNCHANGED <<rows, auto>>
  BY DEF Recheck, PersistRecheck, At, tables
<1>2. call[c] \in Call /\ call[c] # Idle /\ call[c].plan # "opened" /\ CallTyped
  <2>1. call[c].step # "idle"
    BY <1>1
  <2>2. call[c] \in Call /\ call[c] # Idle /\ Fit(call[c], Known) /\ CallTyped
    BY <2>1, Current
  <2> QED BY <1>1, <2>2 DEF Fit
<1>3. PICK n : /\ call' = [call EXCEPT ![c] = n]
               /\ n.job = call[c].job /\ n.row = call[c].row /\ n.plan = call[c].plan
               /\ \/ n.step = "insert"
                  \/ n.step = "attempt" /\ call[c].step = "persist"
  <2>1. CASE Recheck(c)
    <3> DEFINE u == IF up THEN "healthy" ELSE "failed"
               n == [call[c] EXCEPT !.step = "insert", !.kind = "manual_recheck", !.status = u]
    <3>1. call' = [call EXCEPT ![c] = n]
      BY <2>1 DEF Recheck, Go
    <3>2. n.job = call[c].job /\ n.row = call[c].row /\ n.plan = call[c].plan /\ n.step = "insert"
      BY <1>2 DEF Call
    <3> QED BY <3>1, <3>2
  <2>2. CASE PersistRecheck(c)
    <3> DEFINE n == [call[c] EXCEPT !.step = "attempt", !.found = Nobody, !.status = Nobody]
    <3>1. call' = [call EXCEPT ![c] = n] /\ call[c].step = "persist"
      BY <2>2 DEF PersistRecheck, Go, At
    <3>2. n.job = call[c].job /\ n.row = call[c].row /\ n.plan = call[c].plan /\ n.step = "attempt"
      BY <1>2 DEF Call
    <3> QED BY <3>1, <3>2
  <2> QED BY <2>1, <2>2
<1>4. c \in Crons => Follows(call[c], n)
  BY <1>2, <1>3 DEF Follows, RInv, CronFit, Wants
<1>5. Chains(call[c]) => n # Idle /\ Chains(n) /\ n.row = call[c].row
  <2>1. n.step \in {"insert", "attempt"} => n # Idle
    BY DEF Idle
  <2> QED BY <1>3, <2>1 DEF Chains
<1> QED BY <1>1, <1>2, <1>3, <1>4, <1>5, KeepsCount, RowsKeepMark

\* A request of an operator or of the relay is no business of the crons.
LEMMA OthersKeepCount ==
    ASSUME IInv, RInv, NEW c \in Calls, c \notin Crons, NEW n, call' = [call EXCEPT ![c] = n],
           UNCHANGED <<rows, auto>>
    PROVE  RInv'
<1>1. CallTyped
  BY Split DEF IInv
<1> QED BY <1>1, KeepsCount, RowsKeepMark

LEMMA DispatchKeepsCount == ASSUME IInv, RInv, NEW c \in Calls, PersistDispatch(c) PROVE RInv'
<1>1. call[c].step = "persist" /\ call[c].job = "dispatch" /\ UNCHANGED <<rows, auto>>
  BY DEF PersistDispatch, At
<1>2. PICK n : call' = [call EXCEPT ![c] = n]
  BY Zenon DEF PersistDispatch, Go
<1>3. call[c] # Idle
  BY <1>1, Current
<1>4. c \notin Crons
  BY <1>1, <1>3 DEF RInv, CronFit
<1> QED BY <1>1, <1>2, <1>4, OthersKeepCount

\* The second half of persistActionRun marks the row: the recheck of a cron
\* never changes the state, so the index cannot refuse it.
LEMMA AttemptKeepsCount == ASSUME IInv, RInv, NEW c \in Calls, Attempt(c) PROVE RInv'
<1>1. call[c].step = "attempt" /\ UNCHANGED auto
  BY DEF Attempt, At
<1>2. /\ call[c] \in Call /\ call[c] # Idle /\ Fit(call[c], Known)
      /\ Typed /\ CallTyped
  <2>1. call[c].step # "idle"
    BY <1>1
  <2> QED BY <2>1, Current
<1>3. call[c].row \in Known /\ call[c].row \in Ids
  BY <1>1, <1>2 DEF Fit, RowSteps, Known
<1> DEFINE n == [call[c] EXCEPT !.step = "view", !.then = "evaluate", !.plan = Nobody]
           new == IF call[c].plan = "updated"
                  THEN [rows[call[c].row] EXCEPT !.attempted = TRUE, !.state = "auto_remediating"]
                  ELSE [rows[call[c].row] EXCEPT !.attempted = TRUE]
<1>4. call' = [call EXCEPT ![c] = n] /\ Update(call[c].row, new)
  BY DEF Attempt, Go
<1>5. n.step = "view" /\ n.plan = Nobody /\ n.job = call[c].job
  BY <1>2 DEF Call
<1>6. new \in Row /\ new.attempted
  BY <1>2, <1>3, RowFields DEF Row
<1>7. call[c].plan # "updated" => new.state = rows[call[c].row].state
  BY <1>2, <1>3, RowFields DEF Row
<1> HIDE DEF n, new
<1>8. \A i \in Ids : Exists(i) => Exists(i)' /\ (rows[i].attempted => rows'[i].attempted)
  BY <1>2, <1>3, <1>4, <1>6, UpdateKeepsMark
<1>9. c \in Crons => rows'[call[c].row].attempted
  <2>1. SUFFICES ASSUME c \in Crons PROVE rows'[call[c].row].attempted
    OBVIOUS
  <2>2. new.state = rows[call[c].row].state
    BY <1>1, <1>2, <1>7, <2>1 DEF RInv, CronFit
  <2>3. new.state \in ActiveStates => ActiveOf(PrintOf[call[c].row]) \ {call[c].row} = {}
    BY <1>3, <2>2 DEF IInv, OneActiveIncident, ActiveOf, Active
  <2>4. rows' = [rows EXCEPT ![call[c].row] = new]
    BY <1>4, <2>3 DEF Update
  <2> QED BY <1>2, <1>3, <1>6, <2>4 DEF Typed
<1>10. c \in Crons => Follows(call[c], n)
  BY <1>2, <1>5 DEF Follows, RInv, CronFit, Wants, Nobody
<1> QED BY <1>1, <1>2, <1>4, <1>8, <1>9, <1>10, KeepsCount

\* The worker told of an opening, or of a repeated failure whose row bears no
\* mark, remediates the incident and takes on the recheck that will mark it.
LEMMA TellKeepsCount ==
    ASSUME OneCron, IInv, RInv, NEW c \in Calls, Tell(c)
    PROVE  RInv'
<1>1. /\ call[c] \in Call /\ call[c] # Idle /\ Fit(call[c], Known) /\ Typed /\ CallTyped
      /\ call[c].step = "tell" /\ UNCHANGED rows
  BY Current DEF Tell, At, tables
<1>2. ~Chains(call[c])
  BY <1>1 DEF Chains
<1> DEFINE act == c \in Crons /\ call[c].suggest = "recheck" /\ call[c].found # Nobody
<1>3. CASE ~act
  <2>1. call' = [call EXCEPT ![c] = Idle] /\ UNCHANGED auto
    BY <1>3 DEF Tell, Go
  <2> QED BY <1>1, <1>2, <2>1, QuietKeepsCount, RowsKeepMark
<1>4. CASE act
  <2>2. PICK i \in Ids : i = call[c].found /\ i \in Known
    BY <1>1, <1>4 DEF Fit, Known
  <2> DEFINE n == Chained(c)
  <2>1. call' = [call EXCEPT ![c] = n] /\ auto' = [auto EXCEPT ![i] = @ + 1]
    BY <1>4, <2>2 DEF Tell, Go
  <2>3. n.step = "probe" /\ n.job = "recheck" /\ n.row = i /\ n.plan = Nobody
    BY <2>2 DEF Chained, Blank
  <2>4. auto[i] = 0
    BY <1>1, <1>4, <2>2 DEF Wants, RInv, Remediated
  <2> HIDE DEF n
  <2>5. n # Idle /\ Chains(n) /\ CronFit(n)
    BY <2>3 DEF Idle, Chains, CronFit
  <2>6. \A d \in Crons : d = c /\ d \in Calls
    BY <1>4 DEF OneCron, Calls
  <2>7. call'[c] = n
    BY <1>1, <2>1 DEF CallTyped
  <2>8. auto'[i] = 1 /\ \A k \in Ids : k # i => auto'[k] = auto[k]
    BY <1>1, <2>1, <2>2, <2>4 DEF Typed
  <2>9. \A d \in Crons, k \in Ids : ~Wants(call'[d], k)
    BY <2>3, <2>6, <2>7 DEF Wants, Nobody
  <2>10. ASSUME NEW k \in Ids PROVE Remediated(k)'
    <3>1. CASE k = i
      <4>1. Exists(i)'
        BY <1>1, <2>2 DEF Known, Exists
      <4>2. Underway(i)'
        BY <1>4, <2>3, <2>5, <2>7 DEF Underway
      <4> QED BY <2>8, <2>9, <3>1, <4>1, <4>2 DEF Remediated
    <3>2. CASE k # i
      <4>1. Remediated(k) /\ auto'[k] = auto[k] /\ rows'[k] = rows[k] /\ (Exists(k) => Exists(k)')
        BY <1>1, <2>8, <3>2 DEF RInv, Exists
      <4>2. ~Underway(k)
        BY <1>2, <2>6 DEF Underway
      <4> QED BY <2>9, <4>1, <4>2 DEF Remediated
    <3> QED BY <3>1, <3>2
  <2>11. \A d \in Crons : call'[d] # Idle => CronFit(call'[d])
    BY <2>5, <2>6, <2>7
  <2> QED BY <2>10, <2>11 DEF RInv
<1> QED BY <1>3, <1>4

\* A scheduled probe starts as a check that knows no incident.
LEMMA ProbeKeepsCount == ASSUME IInv, RInv, NEW c \in Calls, Probe(c) PROVE RInv'
<1> DEFINE u == IF up THEN "healthy" ELSE "failed"
           n == [Blank EXCEPT !.step = "insert", !.job = "check", !.status = u]
<1>1. call[c] = Idle /\ call' = [call EXCEPT ![c] = n] /\ UNCHANGED <<rows, auto>> /\ CallTyped
  BY Split DEF Probe, Begin, tables, IInv
<1>2. n.step = "insert" /\ n.job = "check" /\ n.plan = Nobody
  BY DEF Blank
<1>3. Follows(call[c], n)
  BY <1>2 DEF Follows, CronFit, Wants, Nobody
<1> QED BY <1>1, <1>3, KeepsCount, RowsKeepMark

\* Requests from elsewhere than the crons.
LEMMA RequestKeepsCount ==
    ASSUME IInv, RInv, NEW c \in Calls,
           Look(c) \/ (\E p \in Prints : Relay(c, p)) \/ (\E i \in Ids : Operate(c, i))
    PROVE  RInv'
<1>1. c \notin Crons
  BY ControlAssumption DEF ControlAssumption, Look, Relay, Operate
<1>2. UNCHANGED <<rows, auto>>
  BY DEF Look, Relay, Operate, tables
<1>3. PICK n : call' = [call EXCEPT ![c] = n]
  <2>1. CASE Look(c)
    BY <2>1, Zenon DEF Look, Begin
  <2>2. ASSUME NEW p \in Prints, Relay(c, p) PROVE \E n : call' = [call EXCEPT ![c] = n]
    <3>1. CASE p = "verify"
      BY <2>2, <3>1, Zenon DEF Relay, Begin
    <3>2. CASE p # "verify"
      BY <2>2, <3>2, Zenon DEF Relay, Begin
    <3> QED BY <3>1, <3>2
  <2>3. ASSUME NEW i \in Ids, Operate(c, i) PROVE \E n : call' = [call EXCEPT ![c] = n]
    BY <2>3, Zenon DEF Operate, Begin
  <2> QED BY <2>1, <2>2, <2>3
<1> QED BY <1>1, <1>2, <1>3, OthersKeepCount

\* Nothing the counts speak of changes.
LEMMA StillKeepsCount ==
    ASSUME RInv, UNCHANGED <<rows, auto, call>>
    PROVE  RInv'
<1>1. \A i \in Ids : Remediated(i)'
  BY DEF RInv, Remediated, Exists, Underway
<1> QED BY <1>1 DEF RInv

LEMMA CountInit == Init => RInv
BY DEF Init, RInv, Remediated, Calls

LEMMA CountStepInv == ASSUME OneCron PROVE IInv /\ RInv /\ [Next]_vars => RInv'
<1> SUFFICES ASSUME IInv, RInv, [Next]_vars PROVE RInv'
  OBVIOUS
<1>1. ASSUME NEW c \in Calls, Record(c) PROVE RInv'
  <2>1. CASE CheckOpens(c)
    BY <2>1, OpenKeepsCount DEF CheckOpens, At
  <2>2. CASE EventOpens(c)
    BY <2>2, OpenKeepsCount DEF EventOpens, At
  <2> QED BY <1>1, <2>1, <2>2, RecordKeepsCount, CheckKeepsCount, ReplyKeepsCount DEF Record
<1>2. ASSUME NEW c \in Calls, Step(c) PROVE RInv'
  BY <1>1, <1>2, ViewKeepsCount, TellKeepsCount, LoseKeepsCount, StateKeepsCount, ChainKeepsCount,
     DispatchKeepsCount, AttemptKeepsCount, EvaluateKeepsCount DEF Step
<1>3. ASSUME NEW p \in Prints, Rerun(p) \/ Expire(p) PROVE RInv'
  BY <1>3, StillKeepsCount DEF Rerun, Expire, tables
<1>4. CASE Flip
  BY <1>4, StillKeepsCount DEF Flip, tables
<1>5. CASE UNCHANGED vars
  BY <1>5, StillKeepsCount DEF vars
<1>6. ASSUME NEW c \in Calls,
             Probe(c) \/ Look(c) \/ (\E p \in Prints : Relay(c, p)) \/ (\E i \in Ids : Operate(c, i))
      PROVE  RInv'
  BY <1>6, ProbeKeepsCount, RequestKeepsCount
<1> QED BY <1>2, <1>3, <1>4, <1>5, <1>6 DEF Next

\* As long as the worker runs one scheduled probe at a time, it remediates an
\* incident at most once (maybeAutoRemediate, buildNotificationPlan), whatever
\* operators and callbacks do to the incident meanwhile and whatever answer is lost.
THEOREM RemediatedAtMostOnce == ASSUME OneCron PROVE Spec => []RemediatesOnce
<1>1. RInv => RemediatesOnce
  BY DEF RInv, Remediated, RemediatesOnce
<1>2. Init => RInv
  BY CountInit
<1>3. IInv /\ RInv /\ [Next]_vars => RInv'
  BY CountStepInv
<1> QED BY <1>1, <1>2, <1>3, Invariance, PTL DEF Spec
===============================================================================
