---------------------- MODULE GenerationLifecycle_proofs ----------------------
(***************************************************************************)
(* What holds of the life of a job for any jobs, processes, tokens, limits *)
(* and faults.  A process may write back a table another one has changed   *)
(* since, so nothing is said of how one version of the store follows from  *)
(* the one before.  But each version, stored or about to be written, comes *)
(* from an earlier one by a single callback of generation_ops.py (Change), *)
(* and what a callback keeps is true of all of them.                       *)
(***************************************************************************)
EXTENDS GenerationLifecycle, FiniteSetTheorems, WellFoundedInduction, TLAPS

-----------------------------------------------------------------------------
(* The updates of one record.                                              *)

NewStatuses == {"running", "retryable_failed"} \cup Terminal

\* What may become of a record r in one step, its completion excepted.
Updated(r, s) ==
    \/ s \in {r, Absent, Created, Queued(r), Refreshed(r), [r EXCEPT !.clock = "elapsed"]}
    \/ \E t \in Tokens : s = Claimed(r, t)
    \/ \E x \in NewStatuses : s = WithStatus(r, x)

\* Counting an attempt stays within the limit.
LEMMA AttemptsAreBounded == \A n \in 0..AttemptLimit : OneMore(n) \in 0..AttemptLimit
BY JobsAssumption, SMT DEF OneMore

\* The fields of a record, and when a tuple of fields is one.
LEMMA RecordFields ==
    ASSUME NEW r \in Records
    PROVE  /\ r.status \in Statuses /\ r.attempts \in 0..AttemptLimit
           /\ r.token \in Tokens \cup {NoToken} /\ r.clock \in {"fresh", "elapsed"}
           /\ r.credit \in {"none", "reserved", "settled", "released"}
           /\ r.final \in 0..Reserve /\ r.outputs \in BOOLEAN
BY DEF Records

\* Every update of a record is a record.
LEMMA UpdateIsRecord ==
    ASSUME NEW r \in Records
    PROVE  /\ Absent \in Records /\ Created \in Records
           /\ Queued(r) \in Records /\ Refreshed(r) \in Records
           /\ [r EXCEPT !.clock = "elapsed"] \in Records
           /\ \A t \in Tokens : Claimed(r, t) \in Records
           /\ \A x \in NewStatuses : WithStatus(r, x) \in Records
           /\ \A c \in Costs : Completed(r, c) \in Records
<1> USE DEF Statuses, Active, Terminal
<1>1. /\ 0 \in 0..AttemptLimit /\ 1 \in 0..AttemptLimit /\ 0 \in 0..Reserve
      /\ \A c \in Costs : c \in 0..Reserve
  BY JobsAssumption, SMT
<1>2. Absent \in Records
  BY <1>1, Zenon DEF Records, Absent
<1>3. Created \in Records
  BY <1>2, Zenon DEF Records, Created
<1>4. Queued(r) \in Records /\ Refreshed(r) \in Records /\ [r EXCEPT !.clock = "elapsed"] \in Records
  BY Zenon DEF Records, Queued, Refreshed
<1>5. r.attempts \in 0..AttemptLimit /\ OneMore(r.attempts) \in 0..AttemptLimit
  BY AttemptsAreBounded, RecordFields
<1>6. ASSUME NEW t \in Tokens PROVE Claimed(r, t) \in Records
  BY <1>5, Zenon DEF Records, Claimed
<1>7. MarkRunning(r) \in Records /\ MarkRetryable(r) \in Records
  <2>1. /\ (IF r.status = "running" THEN r.attempts ELSE OneMore(r.attempts)) \in 0..AttemptLimit
        /\ (IF r.token = NoToken THEN "fresh" ELSE r.clock) \in {"fresh", "elapsed"}
        /\ Unsettled(r, "reserved") \in {"none", "reserved", "settled", "released"}
    BY <1>5, RecordFields DEF Unsettled
  <2> QED
    BY <2>1, Zenon DEF Records, MarkRunning, MarkRetryable
<1>8. ASSUME NEW x \in Terminal PROVE MarkEnded(r, x) \in Records
  <2>1. /\ (IF r.credit = "settled" THEN r.final ELSE 0) \in 0..Reserve
        /\ Unsettled(r, "released") \in {"none", "reserved", "settled", "released"}
    BY <1>1, RecordFields DEF Unsettled
  <2> QED
    BY <2>1, Zenon DEF Records, MarkEnded
<1>9. ASSUME NEW x \in NewStatuses PROVE WithStatus(r, x) \in Records
  BY <1>7, <1>8, SMT DEF WithStatus, NewStatuses
<1>10. ASSUME NEW c \in Costs PROVE Completed(r, c) \in Records
  BY <1>1, RecordFields, Zenon DEF Records, Completed
<1> QED
  BY <1>2, <1>3, <1>4, <1>6, <1>9, <1>10

\* No update leaves a claim token on a record that does not run.
Tidy(r) == r.token # NoToken => r.status = "running"

LEMMA UpdateIsTidy ==
    ASSUME NEW r \in Records, Tidy(r), NEW s,
           Updated(r, s) \/ \E c \in Costs : s = Completed(r, c)
    PROVE  Tidy(s)
<1> USE DEF Tidy
<1>1. Tidy(Absent) /\ Tidy(Created)
  BY Zenon DEF Absent, Created
<1>2. Tidy(Queued(r)) /\ Tidy(Refreshed(r)) /\ Tidy([r EXCEPT !.clock = "elapsed"])
  BY DEF Queued, Refreshed, Records
<1>3. ASSUME NEW t \in Tokens PROVE Tidy(Claimed(r, t))
  BY DEF Claimed, Records
<1>4. ASSUME NEW x \in NewStatuses PROVE Tidy(WithStatus(r, x))
  <2>1. Tidy(MarkRunning(r)) /\ Tidy(MarkRetryable(r))
    BY DEF MarkRunning, MarkRetryable, Records
  <2>2. Tidy(MarkEnded(r, x))
    BY DEF MarkEnded, Records
  <2> QED
    BY <2>1, <2>2 DEF WithStatus, NewStatuses
<1>5. ASSUME NEW c \in Costs PROVE Tidy(Completed(r, c))
  BY DEF Completed, Records
<1> QED
  BY <1>1, <1>2, <1>3, <1>4, <1>5 DEF Updated

\* Only a completion settles a job, and only one that costs something.
LEMMA UpdateSettlesNothing ==
    ASSUME NEW r \in Records, NEW s, Updated(r, s), s.credit = "settled"
    PROVE  r.credit = "settled"
<1>1. Absent.credit # "settled" /\ Created.credit # "settled"
  BY Zenon DEF Absent, Created
<1>2. Queued(r).credit = r.credit /\ Refreshed(r).credit = r.credit /\ [r EXCEPT !.clock = "elapsed"].credit = r.credit
  BY DEF Queued, Refreshed, Records
<1>3. ASSUME NEW t \in Tokens PROVE Claimed(r, t).credit = r.credit
  BY DEF Claimed, Records
<1>4. ASSUME NEW x \in NewStatuses, WithStatus(r, x).credit = "settled" PROVE r.credit = "settled"
  <2>1. /\ MarkRunning(r).credit = Unsettled(r, "reserved")
        /\ MarkRetryable(r).credit = Unsettled(r, "reserved")
        /\ MarkEnded(r, x).credit = Unsettled(r, "released")
    BY DEF MarkRunning, MarkRetryable, MarkEnded, Records
  <2> QED
    BY <1>4, <2>1 DEF WithStatus, NewStatuses, Unsettled
<1> QED
  BY <1>1, <1>2, <1>3, <1>4 DEF Updated

LEMMA CompletionSettles ==
    ASSUME NEW r \in Records, NEW c \in Costs
    PROVE  Completed(r, c).credit = "settled" <=> c # 0
<1>1. Completed(r, c).credit = IF c > 0 THEN "settled" ELSE "released"
  BY DEF Completed, Records
<1> QED
  BY <1>1, JobsAssumption, SMT

-----------------------------------------------------------------------------
(* The entries of one job.                                                 *)

Keys == {"reserve", "spend", "release"}

\* An entry is written once: the first amount stays, and the others with it.
LEMMA WriteOnce ==
    ASSUME NEW e \in Entries, NEW key \in Keys, NEW amount \in 0..Reserve
    PROVE  /\ Write(e, key, amount) \in Entries
           /\ Write(e, key, amount)[key] = IF e[key] = 0 THEN amount ELSE e[key]
           /\ \A k \in Keys \ {key} : Write(e, key, amount)[k] = e[k]
<1>1. CASE key = "reserve"
  BY <1>1 DEF Entries, Keys, Write
<1>2. CASE key = "spend"
  BY <1>2 DEF Entries, Keys, Write
<1>3. CASE key = "release"
  BY <1>3 DEF Entries, Keys, Write
<1> QED
  BY <1>1, <1>2, <1>3 DEF Keys

\* A settlement writes what was spent and what is released, each once.
LEMMA SettlementOnceEach ==
    ASSUME NEW e \in Entries, NEW c \in Costs
    PROVE  /\ Settlement(e, c) \in Entries
           /\ Settlement(e, c)["reserve"] = e["reserve"]
           /\ Settlement(e, c)["spend"] = IF e["spend"] = 0 THEN c ELSE e["spend"]
           /\ Settlement(e, c)["release"] = IF e["release"] = 0 THEN Reserve - c ELSE e["release"]
<1> DEFINE f == Write(e, "spend", c)
<1> DEFINE left == Reserve - c
<1>1. c \in 0..Reserve /\ left \in 0..Reserve
  BY JobsAssumption, SMT
<1>2. /\ f \in Entries /\ f["spend"] = (IF e["spend"] = 0 THEN c ELSE e["spend"])
      /\ f["reserve"] = e["reserve"] /\ f["release"] = e["release"]
  BY <1>1, WriteOnce DEF Keys
<1>3. Settlement(e, c) = Write(f, "release", left)
  BY DEF Settlement
<1> HIDE DEF f, left
<1>4. \A key \in Keys, amount \in 0..Reserve :
          /\ Write(f, key, amount) \in Entries
          /\ Write(f, key, amount)[key] = IF f[key] = 0 THEN amount ELSE f[key]
          /\ \A k \in Keys \ {key} : Write(f, key, amount)[k] = f[k]
  BY <1>2, WriteOnce
<1>5. "release" \in Keys /\ "spend" \in Keys \ {"release"} /\ "reserve" \in Keys \ {"release"}
  BY DEF Keys
<1>6. /\ Write(f, "release", left) \in Entries
      /\ Write(f, "release", left)["release"] = IF f["release"] = 0 THEN left ELSE f["release"]
      /\ Write(f, "release", left)["spend"] = f["spend"]
      /\ Write(f, "release", left)["reserve"] = f["reserve"]
  BY <1>1, <1>4, <1>5, Zenon
<1> QED
  BY <1>2, <1>3, <1>6 DEF left

-----------------------------------------------------------------------------
(* What a step does to the store.                                          *)

Caches == [Jobs -> Records \cup {Current}]
Now == Table(job, ledger, balance)

\* What one callback makes of table t: updates of records, each with one more
\* entry in the ledger, or the settlement of one job.
Change(t, u) ==
    /\ u = Table(u.job, u.ledger, u.balance)
    /\ u.job \in [Jobs -> Records]
    /\ u.ledger \in [Jobs -> Entries]
    /\ \/ /\ u.balance = t.balance
          /\ \A j \in Jobs :
                 /\ Updated(t.job[j], u.job[j])
                 /\ u.ledger[j] \in {t.ledger[j], Write(t.ledger[j], "reserve", Reserve),
                                     Write(t.ledger[j], "release", Reserve)}
       \/ \E j \in Jobs, c \in Costs :
                 /\ t.job[j].status # "absent"
                 /\ u.job = [t.job EXCEPT ![j] = Completed(t.job[j], c)]
                 /\ u.ledger = [t.ledger EXCEPT ![j] = Settlement(t.ledger[j], c)]
                 /\ t.ledger[j].spend > 0 \/ t.balance >= c
                 /\ u.balance = IF t.ledger[j].spend = 0 THEN t.balance - c ELSE t.balance

\* A table that the store holds or a process is about to write, or what one
\* callback makes of the store's.
Follows(u) == (\E q \in Procs : \E v \in writes[q] : u = v.table) \/ Change(Now, u)

\* Every table that is stored or pending after a step is one of these.
StoreMoves ==
    /\ view' \in [Procs -> Caches]
    /\ writes' \in [Procs -> SUBSET Writes]
    /\ Follows(Now')
    /\ \A p \in Procs : \A w \in writes'[p] : Follows(w.table)

LEMMA TableFields ==
    ASSUME NEW a, NEW b, NEW c
    PROVE  Table(a, b, c).job = a /\ Table(a, b, c).ledger = b /\ Table(a, b, c).balance = c
BY DEF Table

LEMMA NowIsTable == TypeOK => Now \in Tables
BY DEF TypeOK, Tables, Now, Table

\* A callback that changes nothing is one.
LEMMA NoChange ==
    ASSUME TypeOK
    PROVE  Change(Now, Now)
<1>1. Now.job = job /\ Now.ledger = ledger /\ Now.balance = balance
  BY TableFields DEF Now
<1> QED
  BY <1>1 DEF Change, Now, TypeOK, Updated

\* No completion takes the balance of a table below zero.
LEMMA ChangeIsTable ==
    ASSUME NEW t \in Tables, NEW u, Change(t, u)
    PROVE  u \in Tables
<1>1. /\ t.job \in [Jobs -> Records] /\ t.ledger \in [Jobs -> Entries] /\ t.balance \in Nat
  BY DEF Tables
<1>2. u.balance \in Nat
  <2>1. CASE u.balance = t.balance
    BY <1>1, <2>1
  <2>2. ASSUME NEW j \in Jobs, NEW c \in Costs, t.ledger[j].spend > 0 \/ t.balance >= c,
               u.balance = IF t.ledger[j].spend = 0 THEN t.balance - c ELSE t.balance
        PROVE  u.balance \in Nat
    <3>1. t.ledger[j].spend \in 0..Reserve /\ c \in Nat
      BY <1>1, JobsAssumption DEF Entries
    <3> QED
      BY <1>1, <2>2, <3>1
  <2> QED
    BY <2>1, <2>2 DEF Change
<1>3. u = [job |-> u.job, ledger |-> u.ledger, balance |-> u.balance]
  BY Zenon DEF Change, Table
<1>4. u.job \in [Jobs -> Records] /\ u.ledger \in [Jobs -> Entries]
  BY DEF Change
<1> QED
  BY <1>2, <1>3, <1>4, Zenon DEF Tables

\* What a process reads is a record.
LEMMA CachedIsRecord ==
    ASSUME TypeOK, NEW p \in Procs, NEW j \in Jobs
    PROVE  Cached(p, j) \in Records
BY DEF TypeOK, Cached

\* A cache that falls behind keeps records.
LEMMA BehindIsCache ==
    ASSUME TypeOK, NEW q \in Procs, NEW S
    PROVE  Behind(q, S) \in Caches
<1>1. \A j \in Jobs : Cached(q, j) \in Records
  BY CachedIsRecord
<1>2. view[q] \in Caches
  BY DEF TypeOK, Caches
<1> QED
  BY <1>1, <1>2 DEF Behind, Caches

\* Pending writes that are the ones there were, or some of them.
LEMMA FewerWrites ==
    ASSUME TypeOK, view' \in [Procs -> Caches], Follows(Now'),
           NEW p \in Procs, NEW W \in SUBSET Writes,
           \A w \in W : \E v \in writes[p] : w.table = v.table,
           writes' = writes \/ writes' = [writes EXCEPT ![p] = W]
    PROVE  StoreMoves
<1>1. writes \in [Procs -> SUBSET Writes]
  BY DEF TypeOK
<1>2. \A q \in Procs : writes'[q] = writes[q] \/ (q = p /\ writes'[q] = W)
  BY <1>1
<1>3. \A q \in Procs : \A w \in writes'[q] : \E v \in writes[q] : w.table = v.table
  BY <1>2
<1>4. writes' \in [Procs -> SUBSET Writes]
  BY <1>1
<1> QED
  BY <1>3, <1>4 DEF StoreMoves, Follows

LEMMA NoMove ==
    ASSUME TypeOK, UNCHANGED <<store, writes>>, view' \in [Procs -> Caches]
    PROVE  StoreMoves
<1>1. Now' = Now
  BY DEF Now, store
<1>2. Follows(Now')
  BY <1>1, NoChange DEF Follows
<1>3. writes' \in [Procs -> SUBSET Writes] /\ \A q \in Procs : \A w \in writes'[q] : w \in writes[q]
  BY DEF TypeOK
<1> QED
  BY <1>2, <1>3 DEF StoreMoves, Follows

\* An update of records alone changes the table.
LEMMA RecordsChange ==
    ASSUME TypeOK, job' \in [Jobs -> Records], \A i \in Jobs : Updated(job[i], job'[i]),
           UNCHANGED <<ledger, balance>>
    PROVE  Change(Now, Now')
<1>1. /\ Now.job = job /\ Now.ledger = ledger /\ Now.balance = balance
      /\ Now' = Table(job', ledger, balance)
      /\ Now'.job = job' /\ Now'.ledger = ledger /\ Now'.balance = balance
  BY TableFields DEF Now
<1> QED
  BY <1>1 DEF Change, TypeOK

LEMMA RecordsMove ==
    ASSUME TypeOK, job' \in [Jobs -> Records], \A i \in Jobs : Updated(job[i], job'[i]),
           UNCHANGED <<ledger, balance, writes>>, view' \in [Procs -> Caches]
    PROVE  StoreMoves
<1>1. Follows(Now')
  BY RecordsChange DEF Follows
<1>2. writes' \in [Procs -> SUBSET Writes] /\ \A q \in Procs : \A w \in writes'[q] : w \in writes[q]
  BY DEF TypeOK
<1> QED
  BY <1>1, <1>2 DEF StoreMoves, Follows

LEMMA PutStep ==
    ASSUME TypeOK, NEW p \in Procs, NEW j \in Jobs, NEW r \in Records, Put(p, j, r)
    PROVE  /\ job' = [job EXCEPT ![j] = r]
           /\ job' \in [Jobs -> Records]
           /\ view' \in [Procs -> Caches]
<1>1. \A q \in Procs : Behind(q, {j}) \in Caches
  BY BehindIsCache
<1>2. [view[p] EXCEPT ![j] = Current] \in Caches
  BY DEF TypeOK, Caches
<1>3. view' \in [Procs -> Caches]
  BY <1>1, <1>2 DEF Put
<1> QED
  BY <1>3 DEF Put, TypeOK

LEMMA PutMoves ==
    ASSUME TypeOK, NEW p \in Procs, NEW j \in Jobs, NEW r \in Records,
           Put(p, j, r), Updated(job[j], r), UNCHANGED <<ledger, balance, writes>>
    PROVE  StoreMoves
<1>1. \A i \in Jobs : Updated(job[i], job'[i])
  BY PutStep DEF Updated, TypeOK
<1> QED
  BY <1>1, PutStep, RecordsMove

LEMMA SaveMoves ==
    ASSUME TypeOK, NEW p \in Procs, NEW j \in Jobs, NEW r \in Records,
           Save(p, j, r), Updated(job[j], r), UNCHANGED <<ledger, balance, writes>>
    PROVE  StoreMoves
<1>1. CASE job[j].status = "absent"
  BY <1>1, NoMove DEF Save, TypeOK, Caches, store
<1>2. CASE job[j].status # "absent"
  BY <1>2, PutMoves DEF Save
<1> QED
  BY <1>1, <1>2

\* A mutate of p adds the table its callback has made.
LEMMA MutateMoves ==
    ASSUME TypeOK, NEW p \in Procs, NEW j \in Jobs \cup {Nothing}, NEW u,
           NEW who \in {"create", "request", "loop", "task", "sweep", "boot"},
           Mutate(p, who, j, u), Change(Now, u)
    PROVE  StoreMoves
<1> DEFINE w == [who |-> who, on |-> j, table |-> u]
<1>1. u \in Tables /\ u.job \in [Jobs -> Records]
  BY NowIsTable, ChangeIsTable DEF Change
<1>2. w \in Writes /\ w.table = u
  BY <1>1 DEF Writes
<1>3. writes \in [Procs -> SUBSET Writes] /\ writes' = [writes EXCEPT ![p] = writes[p] \cup {w}]
  BY DEF TypeOK, Mutate
<1> HIDE DEF w
<1>4. writes' \in [Procs -> SUBSET Writes]
  BY <1>2, <1>3
<1>5. \A q \in Procs : \A v \in writes'[q] : v \in writes[q] \/ v = w
  BY <1>3
<1>6. view' \in [Procs -> Caches]
  <2>1. [i \in Jobs |-> IF u.job[i] = job[i] THEN Current ELSE u.job[i]] \in Caches
    BY <1>1 DEF Caches
  <2> QED
    BY <2>1 DEF Mutate, TypeOK, Caches
<1>7. Now' = Now
  BY DEF Mutate, store, Now
<1> QED
  BY <1>2, <1>4, <1>5, <1>6, <1>7, NoChange DEF StoreMoves, Follows

LEMMA ReleaseMoves ==
    ASSUME TypeOK, NEW p \in Procs, NEW j \in Jobs,
           NEW who \in {"create", "request", "loop", "task", "sweep", "boot"}, WriteRelease(p, who, j)
    PROVE  StoreMoves
<1> DEFINE entries == IF job[j].status = "absent" THEN ledger
                      ELSE [ledger EXCEPT ![j] = Write(ledger[j], "release", Reserve)]
           u == Table(job, entries, balance)
<1>1. job \in [Jobs -> Records] /\ ledger \in [Jobs -> Entries]
  BY DEF TypeOK
<1>2. Write(ledger[j], "release", Reserve) \in Entries
  BY <1>1, WriteOnce, JobsAssumption DEF Keys
<1>3. /\ entries \in [Jobs -> Entries]
      /\ \A i \in Jobs : entries[i] \in {ledger[i], Write(ledger[i], "release", Reserve)}
  BY <1>1, <1>2
<1>4. Mutate(p, who, j, u)
  BY DEF WriteRelease
<1>5. u.job = job /\ u.ledger = entries /\ u.balance = balance /\ u = Table(u.job, u.ledger, u.balance)
  BY TableFields
<1>6. Now.job = job /\ Now.ledger = ledger /\ Now.balance = balance
  BY TableFields DEF Now
<1> HIDE DEF entries, u
<1>7. Change(Now, u)
  BY <1>1, <1>3, <1>5, <1>6 DEF Change, Updated
<1> QED
  BY <1>4, <1>7, MutateMoves

\* A pending table is written.
LEMMA ReplaceMoves ==
    ASSUME TypeOK, NEW p \in Procs, NEW w \in writes[p], Replace(p, w)
    PROVE  StoreMoves
<1>1. w \in Writes /\ writes \in [Procs -> SUBSET Writes]
  BY DEF TypeOK
<1>2. w.table = Table(w.table.job, w.table.ledger, w.table.balance)
  BY <1>1, Zenon DEF Writes, Tables, Table
<1>3. Now' = w.table
  BY <1>2 DEF Replace, Now
<1>4. view' \in [Procs -> Caches]
  <2>1. [j \in Jobs |-> Current] \in Caches
    BY DEF Caches
  <2>2. \A q \in Procs : Behind(q, {j \in Jobs : w.table.job[j] # job[j]}) \in Caches
    BY BehindIsCache
  <2> QED
    BY <2>1, <2>2 DEF Replace
<1>5. writes' = [writes EXCEPT ![p] = writes[p] \ {w}]
  BY DEF Replace
<1>6. Follows(Now')
  BY <1>3 DEF Follows
<1>7. writes[p] \ {w} \in SUBSET Writes /\ \A x \in writes[p] \ {w} : \E v \in writes[p] : x.table = v.table
  BY <1>1
<1> QED
  BY <1>4, <1>5, <1>6, <1>7, FewerWrites

\* Cancelling a part keeps what its thread has still to write.
LEMMA AbandonKeeps ==
    ASSUME NEW W \in SUBSET Writes, NEW S
    PROVE  /\ Abandon(W, S) \in SUBSET Writes
           /\ \A w \in Abandon(W, S) : \E v \in W : w.table = v.table
<1>1. ASSUME NEW v \in Writes
      PROVE  [v EXCEPT !.who = "gone"] \in Writes /\ [v EXCEPT !.who = "gone"].table = v.table
  BY DEF Writes
<1> QED
  BY <1>1 DEF Abandon

\* Saving a new status of a job is one of the updates.
LEMMA StatusMoves ==
    ASSUME TypeOK, NEW p \in Procs, NEW j \in Jobs, NEW x \in NewStatuses,
           Save(p, j, WithStatus(job[j], x)), UNCHANGED <<ledger, balance, writes>>
    PROVE  StoreMoves
<1>1. job[j] \in Records
  BY DEF TypeOK
<1>2. WithStatus(job[j], x) \in Records /\ Updated(job[j], WithStatus(job[j], x))
  BY <1>1, UpdateIsRecord DEF Updated
<1> QED
  BY <1>2, SaveMoves

LEMMA ClockMoves ==
    ASSUME TypeOK,
           \E j \in Jobs : ClaimGoesStale(j) \/ DeadlinePasses(j)
                           \/ \E p \in Procs : CachedDeadlinePasses(p, j)
    PROVE  StoreMoves
<1> PICK j \in Jobs : ClaimGoesStale(j) \/ DeadlinePasses(j) \/ \E p \in Procs : CachedDeadlinePasses(p, j)
  OBVIOUS
<1>1. view \in [Procs -> Caches] /\ job[j] \in Records /\ job \in [Jobs -> Records]
  BY DEF TypeOK, Caches
<1>2. CASE ClaimGoesStale(j)
  BY <1>1, <1>2, NoMove DEF ClaimGoesStale
<1>3. CASE DeadlinePasses(j)
  <2>1. job' = [job EXCEPT ![j] = [job[j] EXCEPT !.clock = "elapsed"]]
    BY <1>3 DEF DeadlinePasses
  <2>2. [job[j] EXCEPT !.clock = "elapsed"] \in Records
    BY <1>1, UpdateIsRecord
  <2>3. job' \in [Jobs -> Records] /\ \A i \in Jobs : Updated(job[i], job'[i])
    BY <1>1, <2>1, <2>2 DEF Updated
  <2>4. UNCHANGED <<ledger, balance, writes>> /\ view' = view
    BY <1>3 DEF DeadlinePasses
  <2> QED
    BY <1>1, <2>3, <2>4, RecordsMove
<1>4. ASSUME NEW p \in Procs, CachedDeadlinePasses(p, j) PROVE StoreMoves
  <2>1. view[p][j] \in Records
    BY <1>4 DEF CachedDeadlinePasses, TypeOK
  <2>2. [view[p][j] EXCEPT !.clock = "elapsed"] \in Records
    BY <2>1, UpdateIsRecord
  <2>3. view' = [view EXCEPT ![p] = [view[p] EXCEPT ![j] = [view[p][j] EXCEPT !.clock = "elapsed"]]]
    BY <1>4 DEF CachedDeadlinePasses
  <2>4. [view[p] EXCEPT ![j] = [view[p][j] EXCEPT !.clock = "elapsed"]] \in Caches
    BY <1>1, <2>2 DEF Caches
  <2>5. view' \in [Procs -> Caches]
    BY <1>1, <2>3, <2>4
  <2> QED
    BY <1>4, <2>5, NoMove DEF CachedDeadlinePasses
<1> QED
  BY <1>2, <1>3, <1>4

LEMMA RequestMoves ==
    ASSUME TypeOK, NEW p \in Procs, NEW j \in Jobs,
           ClientStep(p, j) \/ RequestStep(p, j) \/ Mishap(p, j)
    PROVE  StoreMoves
<1>1. /\ view \in [Procs -> Caches] /\ job \in [Jobs -> Records] /\ job[j] \in Records
      /\ ledger \in [Jobs -> Entries]
      /\ Absent \in Records /\ Created \in Records
  BY UpdateIsRecord DEF TypeOK, Caches
<1>2. CASE Create(p, j)
  <2> DEFINE jobs == [job EXCEPT ![j] = Created]
             entries == [ledger EXCEPT ![j] = Write(ledger[j], "reserve", Reserve)]
             u == Table(jobs, entries, balance)
  <2>1. jobs \in [Jobs -> Records] /\ \A i \in Jobs : Updated(job[i], jobs[i])
    BY <1>1 DEF Updated
  <2>2. Mutate(p, "create", j, u)
    BY <1>2 DEF Create
  <2>3. Write(ledger[j], "reserve", Reserve) \in Entries
    BY <1>1, WriteOnce, JobsAssumption DEF Keys
  <2>4. /\ entries \in [Jobs -> Entries]
        /\ \A i \in Jobs : entries[i] \in {ledger[i], Write(ledger[i], "reserve", Reserve)}
    BY <1>1, <2>3
  <2>5. /\ u.job = jobs /\ u.ledger = entries /\ u.balance = balance
        /\ u = Table(u.job, u.ledger, u.balance)
        /\ Now.job = job /\ Now.ledger = ledger /\ Now.balance = balance
    BY TableFields DEF Now
  <2> HIDE DEF jobs, entries, u
  <2>6. Change(Now, u)
    BY <2>1, <2>4, <2>5 DEF Change
  <2> QED
    BY <2>2, <2>6, MutateMoves
<1>3. CASE Delete(p, j)
  BY <1>1, <1>3, PutMoves DEF Delete, Updated
<1>4. CASE RequestFail(p, j)
  BY <1>4, StatusMoves DEF RequestFail, NewStatuses, Terminal
<1>5. CASE RequestRelease(p, j)
  BY <1>5, ReleaseMoves DEF RequestRelease
<1>6. CASE RequestEnqueue(p, j) \/ RequestDiscard(p, j) \/ RequestRaises(p, j) \/ CloseFails(p, j)
  <2>1. UNCHANGED <<store, writes, view>>
    BY <1>6 DEF RequestEnqueue, RequestDiscard, RequestRaises, CloseFails, Leave, rest
  <2> QED
    BY <1>1, <2>1, NoMove
<1> QED
  BY <1>2, <1>3, <1>4, <1>5, <1>6 DEF ClientStep, RequestStep, Mishap

LEMMA LoopMoves ==
    ASSUME TypeOK, NEW p \in Procs, LoopStep(p)
    PROVE  StoreMoves
<1>1. /\ view \in [Procs -> Caches]
      /\ \A j \in Jobs : job[j] \in Records
  BY DEF TypeOK, Caches
<1>2. CASE PassStep(p)
  <2>1. UNCHANGED <<store, writes, view>>
    BY <1>2 DEF PassStep, Inspect, RecoverStale, Survey, EndPass
  <2> QED
    BY <1>1, <2>1, NoMove
<1>3. ASSUME NEW j \in Jobs, PassJobStep(p, j) PROVE StoreMoves
  <2>1. CASE \/ ReconcileJob(p, j) \/ Dequeue(p, j) \/ Refuse(p, j) \/ CompleteRefused(p, j)
             \/ BeatBroker(p, j) \/ EnqueueJob(p, j)
    <3>1. UNCHANGED <<store, writes, view>>
      BY <2>1 DEF ReconcileJob, Dequeue, Refuse, CompleteRefused, BeatBroker, EnqueueJob
    <3> QED
      BY <1>1, <3>1, NoMove
  <2>2. CASE Take(p, j)
    <3>1. PICK t \in Tokens : Put(p, j, Claimed(job[j], t))
      BY <2>2 DEF Take, Fresh
    <3>2. Claimed(job[j], t) \in Records /\ Updated(job[j], Claimed(job[j], t))
      BY <1>1, UpdateIsRecord DEF Updated
    <3>3. UNCHANGED <<ledger, balance, writes>>
      BY <2>2 DEF Take
    <3> QED
      BY <3>1, <3>2, <3>3, PutMoves
  <2>3. CASE HeartbeatJob(p, j)
    <3>1. Refreshed(job[j]) \in Records /\ Updated(job[j], Refreshed(job[j]))
      BY <1>1, UpdateIsRecord DEF Updated
    <3>2. Put(p, j, Refreshed(job[j])) \/ Save(p, j, WithStatus(job[j], "running"))
      BY <2>3 DEF HeartbeatJob
    <3>3. UNCHANGED <<ledger, balance, writes>>
      BY <2>3 DEF HeartbeatJob
    <3> QED
      BY <3>1, <3>2, <3>3, PutMoves, StatusMoves DEF NewStatuses
  <2>4. CASE RetryJob(p, j)
    <3>1. Queued(job[j]) \in Records /\ Updated(job[j], Queued(job[j]))
      BY <1>1, UpdateIsRecord DEF Updated
    <3> QED
      BY <2>4, <3>1, SaveMoves DEF RetryJob
  <2>5. CASE TimeOutJob(p, j) \/ GiveUpJob(p, j)
    <3>1. PICK x \in NewStatuses : Save(p, j, WithStatus(job[j], x))
      BY <2>5 DEF TimeOutJob, GiveUpJob, EndJob, NewStatuses, Terminal
    <3>2. UNCHANGED <<ledger, balance, writes>>
      BY <2>5 DEF TimeOutJob, GiveUpJob, EndJob
    <3> QED
      BY <3>1, <3>2, StatusMoves
  <2>6. CASE ReleaseJob(p, j)
    BY <2>6, ReleaseMoves DEF ReleaseJob
  <2> QED
    BY <1>3, <2>1, <2>2, <2>3, <2>4, <2>5, <2>6 DEF PassJobStep
<1> QED
  BY <1>2, <1>3 DEF LoopStep

LEMMA TaskMoves ==
    ASSUME TypeOK, NEW p \in Procs, NEW j \in Jobs, TaskStep(p, j)
    PROVE  StoreMoves
<1>1. /\ view \in [Procs -> Caches] /\ job \in [Jobs -> Records]
      /\ ledger \in [Jobs -> Entries]
      /\ job[j] \in Records /\ ledger[j] \in Entries
  BY DEF TypeOK, Caches
<1>2. CASE Begin(p, j)
  <2>1. \/ Put(p, j, Refreshed(job[j]))
        \/ \E t \in Tokens : Put(p, j, Claimed(job[j], t))
    BY <1>2 DEF Begin, Fresh
  <2>2. /\ Refreshed(job[j]) \in Records /\ Updated(job[j], Refreshed(job[j]))
        /\ \A t \in Tokens : /\ Claimed(job[j], t) \in Records
                             /\ Updated(job[j], Claimed(job[j], t))
    BY <1>1, UpdateIsRecord DEF Updated
  <2>3. UNCHANGED <<ledger, balance, writes>>
    BY <1>2 DEF Begin
  <2> QED
    BY <2>1, <2>2, <2>3, PutMoves
<1>3. CASE BeginRefused(p, j) \/ RenderFails(p, j) \/ Close(p, j)
  <2>1. UNCHANGED <<store, writes, view>>
    BY <1>3 DEF BeginRefused, RenderFails, Close, Leave
  <2> QED
    BY <1>1, <2>1, NoMove
<1>4. CASE SettleAgain(p, j)
  <2>1. Mutate(p, "task", j, Now)
    BY <1>4 DEF SettleAgain, Now
  <2> QED
    BY <2>1, NoChange, MutateMoves
<1>5. CASE TemporaryFailure(p, j)
  BY <1>5, StatusMoves DEF TemporaryFailure, NewStatuses
<1>6. CASE FailJob(p, j)
  BY <1>6, StatusMoves DEF FailJob, NewStatuses, Terminal
<1>7. CASE ReleaseFailed(p, j)
  BY <1>7, ReleaseMoves DEF ReleaseFailed
<1>8. ASSUME NEW c \in Costs, Settle(p, j, c) PROVE StoreMoves
  <2> DEFINE jobs == [job EXCEPT ![j] = Completed(job[j], c)]
             entries == [ledger EXCEPT ![j] = Settlement(ledger[j], c)]
             left == IF ledger[j].spend = 0 THEN balance - c ELSE balance
             u == Table(jobs, entries, left)
  <2>1. jobs \in [Jobs -> Records] /\ entries \in [Jobs -> Entries]
    BY <1>1, UpdateIsRecord, SettlementOnceEach
  <2>2. Mutate(p, "task", j, u)
    BY <1>8 DEF Settle
  <2>3. job[j].status # "absent" /\ (ledger[j].spend > 0 \/ balance >= c)
    BY <1>8 DEF Settle
  <2>4. /\ u.job = jobs /\ u.ledger = entries /\ u.balance = left
        /\ u = Table(u.job, u.ledger, u.balance)
        /\ Now.job = job /\ Now.ledger = ledger /\ Now.balance = balance
    BY TableFields DEF Now
  <2> HIDE DEF u
  <2>5. Change(Now, u)
    BY <2>1, <2>3, <2>4 DEF Change
  <2> QED
    BY <2>2, <2>5, MutateMoves
<1>9. ASSUME NEW c \in Costs, SettleRaises(p, j, c) PROVE StoreMoves
  <2>1. /\ UNCHANGED <<store, writes>>
        /\ \/ view' = [view EXCEPT ![p] = [i \in Jobs |-> Current]]
           \/ view' = [view EXCEPT ![p] = [i \in Jobs |->
                          IF i = j THEN Completed(job[j], c) ELSE Current]]
    BY <1>9 DEF SettleRaises
  <2>2. /\ [i \in Jobs |-> Current] \in Caches
        /\ [i \in Jobs |-> IF i = j THEN Completed(job[j], c) ELSE Current] \in Caches
    BY <1>1, UpdateIsRecord DEF Caches
  <2>3. view' \in [Procs -> Caches]
    BY <1>1, <2>1, <2>2
  <2> QED
    BY <2>1, <2>3, NoMove
<1> QED
  BY <1>2, <1>3, <1>4, <1>5, <1>6, <1>7, <1>8, <1>9 DEF TaskStep

LEMMA SweepMoves ==
    ASSUME TypeOK, NEW p \in Procs, NEW j \in Jobs, SweepStep(p, j)
    PROVE  StoreMoves
<1>1. CASE SweepTimeOut(p, j)
  BY <1>1, StatusMoves DEF SweepTimeOut, NewStatuses, Terminal
<1>2. CASE SweepRelease(p, j)
  BY <1>2, ReleaseMoves DEF SweepRelease
<1> QED
  BY <1>1, <1>2 DEF SweepStep

LEMMA StopMoves ==
    ASSUME TypeOK, NEW p \in Procs,
           \/ StopStep(p) \/ StartStep(p) \/ OrphanList(p)
           \/ PassFails(p) \/ GracefulStop(p) \/ Crash(p)
    PROVE  StoreMoves
<1>1. /\ view \in [Procs -> Caches] /\ job \in [Jobs -> Records]
      /\ ledger \in [Jobs -> Entries] /\ \A j \in Jobs : job[j] \in Records
  BY DEF TypeOK, Caches
<1>2. CASE Start(p) \/ OrphanList(p) \/ PassFails(p)
  <2>1. UNCHANGED <<store, writes, view>>
    BY <1>2 DEF Start, OrphanList, PassFails
  <2> QED
    BY <1>1, <2>1, NoMove
<1>10. Follows(Now)
  BY NoChange DEF Follows
<1>11. writes[p] \in SUBSET Writes
  BY DEF TypeOK
<1>3. CASE Stopped(p) \/ Crash(p)
  <2>1. /\ UNCHANGED store /\ view' = [view EXCEPT ![p] = [j \in Jobs |-> Current]]
        /\ writes' = [writes EXCEPT ![p] = {}]
    BY <1>3 DEF Stopped, Crash, Down
  <2>2. [j \in Jobs |-> Current] \in Caches
    BY DEF Caches
  <2>3. view' \in [Procs -> Caches] /\ Now' = Now
    BY <1>1, <2>1, <2>2 DEF Now, store
  <2>4. Follows(Now')
    BY <1>10, <2>3
  <2>5. {} \in SUBSET Writes /\ \A w \in {} : \E v \in writes[p] : w.table = v.table
    OBVIOUS
  <2> QED
    BY <2>1, <2>3, <2>4, <2>5, FewerWrites
<1>12. CASE GracefulStop(p)
  <2> DEFINE W == Abandon(writes[p], {"loop", "sweep"})
  <2>1. UNCHANGED <<store, view>> /\ writes' = [writes EXCEPT ![p] = W]
    BY <1>12 DEF GracefulStop
  <2>2. Now' = Now /\ view' \in [Procs -> Caches]
    BY <1>1, <2>1 DEF Now, store
  <2>3. Follows(Now')
    BY <1>10, <2>2
  <2>4. W \in SUBSET Writes /\ \A w \in W : \E v \in writes[p] : w.table = v.table
    BY <1>11, AbandonKeeps
  <2> HIDE DEF W
  <2> QED
    BY <2>1, <2>2, <2>3, <2>4, FewerWrites
<1>4. CASE StopTasks(p)
  <2> DEFINE W == Abandon(writes[p], {"task"})
  <2>1. PICK S \in SUBSET Jobs :
            /\ job' = [j \in Jobs |-> IF j \in S THEN WithStatus(job[j], "failed") ELSE job[j]]
            /\ view' = [q \in Procs |-> Behind(q, S)]
    BY <1>4 DEF StopTasks
  <2>2. \A j \in Jobs : /\ WithStatus(job[j], "failed") \in Records
                        /\ Updated(job[j], WithStatus(job[j], "failed"))
                        /\ Updated(job[j], job[j])
    BY <1>1, UpdateIsRecord DEF Updated, NewStatuses, Terminal
  <2>3. job' \in [Jobs -> Records] /\ \A j \in Jobs : Updated(job[j], job'[j])
    BY <1>1, <2>1, <2>2
  <2>4. view' \in [Procs -> Caches]
    BY <2>1, BehindIsCache
  <2>5. ledger' = ledger /\ balance' = balance /\ writes' = [writes EXCEPT ![p] = W]
    BY <1>4 DEF StopTasks
  <2>6. W \in SUBSET Writes /\ \A w \in W : \E v \in writes[p] : w.table = v.table
    BY <1>11, AbandonKeeps
  <2> HIDE DEF W
  <2>7. Follows(Now')
    BY <2>3, <2>5, RecordsChange DEF Follows
  <2> QED
    BY <2>4, <2>5, <2>6, <2>7, FewerWrites
<1>5. ASSUME NEW j \in Jobs, ReturnJob(p, j) PROVE StoreMoves
  <2>1. Queued(job[j]) \in Records /\ Updated(job[j], Queued(job[j]))
    BY <1>1, UpdateIsRecord DEF Updated
  <2>2. /\ UNCHANGED <<ledger, balance, writes>>
        /\ Save(p, j, Queued(job[j])) \/ UNCHANGED <<job, view>>
    BY <1>5 DEF ReturnJob
  <2>3. CASE Save(p, j, Queued(job[j]))
    BY <2>1, <2>2, <2>3, SaveMoves
  <2>4. CASE UNCHANGED <<job, view>>
    BY <1>1, <2>2, <2>4, NoMove DEF store
  <2> QED
    BY <2>2, <2>3, <2>4
<1>6. ASSUME NEW j \in Jobs, ReturnToBroker(p, j) PROVE StoreMoves
  BY <1>1, <1>6, NoMove DEF ReturnToBroker
<1>7. CASE Boot(p)
  <2> DEFINE jobs == [j \in Jobs |-> IF job[j].status \in Active THEN Queued(job[j]) ELSE job[j]]
             u == Table(jobs, ledger, balance)
  <2>1. \A j \in Jobs : Queued(job[j]) \in Records /\ Updated(job[j], Queued(job[j]))
                        /\ Updated(job[j], job[j])
    BY <1>1, UpdateIsRecord DEF Updated
  <2>2. jobs \in [Jobs -> Records] /\ \A j \in Jobs : Updated(job[j], jobs[j])
    BY <1>1, <2>1
  <2>3. Mutate(p, "boot", Nothing, u)
    BY <1>7 DEF Boot
  <2>4. /\ u.job = jobs /\ u.ledger = ledger /\ u.balance = balance
        /\ u = Table(u.job, u.ledger, u.balance)
        /\ Now.job = job /\ Now.ledger = ledger /\ Now.balance = balance
    BY TableFields DEF Now
  <2> HIDE DEF jobs, u
  <2>5. Change(Now, u)
    BY <1>1, <2>2, <2>4 DEF Change
  <2> QED
    BY <2>3, <2>5, MutateMoves
<1> QED
  BY <1>2, <1>3, <1>4, <1>5, <1>6, <1>7, <1>12 DEF StopStep, StartStep

LEMMA WriteMoves ==
    ASSUME TypeOK, NEW p \in Procs, WriteStep(p) \/ LateWrite(p)
    PROVE  StoreMoves
<1>1. PICK w \in writes[p] : Replace(p, w)
  BY DEF WriteStep, LateWrite, Written
<1> QED
  BY <1>1, ReplaceMoves

\* Every step of the system is such a move or leaves the store alone.
LEMMA StepMoves ==
    ASSUME TypeOK, [Next]_vars
    PROVE  StoreMoves
<1>1. CASE Next
  BY <1>1, ClockMoves, RequestMoves, LoopMoves, TaskMoves, SweepMoves, StopMoves, WriteMoves DEF Next
<1>2. CASE UNCHANGED vars
  BY <1>2, NoMove DEF vars, TypeOK, Caches
<1> QED
  BY <1>1, <1>2

-----------------------------------------------------------------------------

(* What a step does to the broker and to the memory of the processes.      *)

ControlOK ==
    /\ place \in [Jobs -> {"out", "queued", "claimed", "stale"}]
    /\ up \subseteq Procs
    /\ asked \subseteq Jobs
    /\ claims \in [Procs -> [Jobs -> Tokens \cup {NoToken}]]
    /\ task \in [Procs -> [Jobs -> TaskStates]]
    /\ seen \in [Procs -> [Jobs -> 0..AttemptLimit]]
    /\ phase \in [Procs -> Phases]
    /\ todo \in [Procs -> [Jobs -> Steps]]
    /\ busy \in [Procs -> BOOLEAN]
    /\ sweep \in [Procs -> [Jobs -> {Nothing, "timeout", "release"}]]
    /\ request \in [Procs -> [Jobs -> Requests]]

LEMMA ZeroAttempts == 0 \in 0..AttemptLimit
BY JobsAssumption, SMT

\* Noting or dropping a claim keeps the table of claims typed.
LEMMA ClaimTyped ==
    ASSUME ControlOK, NEW p \in Procs, NEW j \in Jobs,
           \/ claims' = claims
           \/ \E t \in Tokens \cup {NoToken} : claims' = [claims EXCEPT ![p][j] = t]
    PROVE  claims' \in [Procs -> [Jobs -> Tokens \cup {NoToken}]]
<1>1. CASE claims' = claims
  BY <1>1 DEF ControlOK
<1>2. ASSUME NEW t \in Tokens \cup {NoToken}, claims' = [claims EXCEPT ![p][j] = t]
      PROVE  claims' \in [Procs -> [Jobs -> Tokens \cup {NoToken}]]
  BY <1>2 DEF ControlOK
<1> QED
  BY <1>1, <1>2

LEMMA RequestControl ==
    ASSUME ControlOK, NEW p \in Procs, NEW j \in Jobs,
           ClientStep(p, j) \/ RequestStep(p, j) \/ Mishap(p, j)
    PROVE  ControlOK'
<1> USE DEF ControlOK, store, rest, loop, tasks
<1>1. CASE Create(p, j)
  BY <1>1 DEF Create, Mutate, Ask, Requests
<1>2. CASE Delete(p, j)
  BY <1>2 DEF Delete
<1>3. CASE RequestEnqueue(p, j)
  <2>1. request' \in [Procs -> [Jobs -> Requests]]
    <3>1. PICK x \in Requests : request' = [request EXCEPT ![p][j] = x]
      BY <1>3, Zenon DEF RequestEnqueue, Ask, Requests
    <3> QED
      BY <3>1
  <2>2. phase' \in [Procs -> Phases]
    BY <1>3 DEF RequestEnqueue, Phases
  <2>3. place' \in [Jobs -> {"out", "queued", "claimed", "stale"}]
    BY <1>3 DEF RequestEnqueue, BrokerEnqueue
  <2> QED
    BY <1>3, <2>1, <2>2, <2>3 DEF RequestEnqueue
<1>4. CASE RequestDiscard(p, j)
  BY <1>4 DEF RequestDiscard, Ask, Requests, BrokerDiscard
<1>5. CASE RequestFail(p, j)
  BY <1>5 DEF RequestFail, Ask, Requests
<1>6. CASE RequestRelease(p, j)
  BY <1>6 DEF RequestRelease, WriteRelease, Mutate
<1>7. CASE RequestRaises(p, j)
  BY <1>7 DEF RequestRaises, Ask, Requests, BrokerEnqueue
<1>8. CASE CloseFails(p, j)
  BY <1>8, ZeroAttempts DEF CloseFails, Leave, Goes, BrokerComplete, TaskStates
<1> QED
  BY <1>1, <1>2, <1>3, <1>4, <1>5, <1>6, <1>7, <1>8 DEF ClientStep, RequestStep, Mishap

LEMMA LoopControl ==
    ASSUME ControlOK, NEW p \in Procs, LoopStep(p)
    PROVE  ControlOK'
<1> USE DEF ControlOK, store, rest, loop, tasks
<1>1. CASE PassStep(p)
  <2>1. CASE Inspect(p)
    BY <2>1 DEF Inspect, Phases, Steps
  <2>2. CASE RecoverStale(p)
    BY <2>2 DEF RecoverStale, Phases, Noted
  <2>3. CASE Survey(p)
    <3>1. \A j \in Jobs : Verdict(p, j) \in Steps
      BY DEF Verdict, Steps
    <3> QED
      BY <2>3, <3>1 DEF Survey, Phases, Noted
  <2>4. CASE EndPass(p)
    BY <2>4 DEF EndPass, Phases
  <2> QED
    BY <1>1, <2>1, <2>2, <2>3, <2>4 DEF PassStep
<1>2. ASSUME NEW j \in Jobs, PassJobStep(p, j) PROVE ControlOK'
  <2>1. CASE ReconcileJob(p, j)
    BY <2>1 DEF ReconcileJob, Then, Steps, BrokerDiscard
  <2>2. CASE Dequeue(p, j)
    BY <2>2 DEF Dequeue, Then, Steps
  <2>3. CASE Take(p, j)
    BY <2>3 DEF Take, Then, Noted, Steps, TaskStates, Fresh
  <2>4. CASE Refuse(p, j)
    <3>1. claims' = claims \/ claims' = [claims EXCEPT ![p][j] = NoToken]
      BY <2>4, Zenon DEF Refuse
    <3>2. claims' \in [Procs -> [Jobs -> Tokens \cup {NoToken}]]
      BY <3>1, ClaimTyped
    <3>3. todo' \in [Procs -> [Jobs -> Steps]]
      BY <2>4 DEF Refuse, Then, Steps
    <3> QED
      BY <2>4, <3>2, <3>3 DEF Refuse
  <2>5. CASE CompleteRefused(p, j)
    BY <2>5 DEF CompleteRefused, Then, Steps, BrokerComplete
  <2>6. CASE HeartbeatJob(p, j)
    <3>1. claims' = claims \/ claims' = [claims EXCEPT ![p][j] = NoToken]
      BY <2>6, Zenon DEF HeartbeatJob
    <3>2. claims' \in [Procs -> [Jobs -> Tokens \cup {NoToken}]]
      BY <3>1, ClaimTyped
    <3>3. todo' \in [Procs -> [Jobs -> Steps]]
      BY <2>6 DEF HeartbeatJob, Then, Steps
    <3> QED
      BY <2>6, <3>2, <3>3 DEF HeartbeatJob
  <2>7. CASE BeatBroker(p, j)
    BY <2>7 DEF BeatBroker, Then, Steps, BrokerBeat
  <2>8. CASE RetryJob(p, j)
    BY <2>8 DEF RetryJob, Then, Steps
  <2>9. CASE TimeOutJob(p, j) \/ GiveUpJob(p, j)
    <3>1. PICK s \in {"timed_out", "failed"} : EndJob(p, j, s)
      BY <2>9 DEF TimeOutJob, GiveUpJob
    <3>2. todo' \in [Procs -> [Jobs -> Steps]]
      BY <3>1 DEF EndJob, Then, Steps
    <3> QED
      BY <3>1, <3>2 DEF EndJob
  <2>10. CASE ReleaseJob(p, j)
    BY <2>10 DEF ReleaseJob, WriteRelease, Mutate
  <2>11. CASE EnqueueJob(p, j)
    BY <2>11 DEF EnqueueJob, Then, Steps, BrokerEnqueue
  <2> QED
    BY <1>2, <2>1, <2>2, <2>3, <2>4, <2>5, <2>6, <2>7, <2>8, <2>9, <2>10, <2>11 DEF PassJobStep
<1> QED
  BY <1>1, <1>2 DEF LoopStep

LEMMA TaskControl ==
    ASSUME ControlOK, job' \in [Jobs -> Records], NEW p \in Procs, NEW j \in Jobs, TaskStep(p, j)
    PROVE  ControlOK'
<1> USE DEF ControlOK, store, rest, loop, tasks, Goes, TaskStates
<1>1. CASE Begin(p, j)
  <2>1. job'[j].attempts \in 0..AttemptLimit
    BY RecordFields
  <2>2. seen' \in [Procs -> [Jobs -> 0..AttemptLimit]]
    BY <1>1, <2>1 DEF Begin
  <2>3. claims' \in [Procs -> [Jobs -> Tokens \cup {NoToken}]]
    <3>1. claims' = claims \/ \E t \in Tokens : claims' = [claims EXCEPT ![p][j] = t]
      BY <1>1, Zenon DEF Begin, Fresh
    <3> QED
      BY <3>1, ClaimTyped
  <2>4. task' \in [Procs -> [Jobs -> TaskStates]]
    BY <1>1 DEF Begin
  <2> QED
    BY <1>1, <2>2, <2>3, <2>4 DEF Begin
<1>2. CASE BeginRefused(p, j)
  <2>1. claims' = claims \/ claims' = [claims EXCEPT ![p][j] = NoToken]
    BY <1>2, Zenon DEF BeginRefused
  <2>2. claims' \in [Procs -> [Jobs -> Tokens \cup {NoToken}]]
    BY <2>1, ClaimTyped
  <2>3. task' \in [Procs -> [Jobs -> TaskStates]]
    BY <1>2 DEF BeginRefused
  <2> QED
    BY <1>2, <2>2, <2>3 DEF BeginRefused
<1>3. CASE SettleAgain(p, j)
  BY <1>3 DEF SettleAgain, Mutate
<1>4. CASE TemporaryFailure(p, j)
  BY <1>4 DEF TemporaryFailure
<1>5. CASE RenderFails(p, j)
  BY <1>5 DEF RenderFails
<1>6. CASE FailJob(p, j)
  BY <1>6 DEF FailJob
<1>7. CASE ReleaseFailed(p, j)
  BY <1>7 DEF ReleaseFailed, WriteRelease, Mutate
<1>8. CASE Close(p, j)
  BY <1>8, ZeroAttempts DEF Close, Leave, BrokerComplete
<1>9. ASSUME NEW c \in Costs, Settle(p, j, c) PROVE ControlOK'
  BY <1>9 DEF Settle, Mutate
<1>10. ASSUME NEW c \in Costs, SettleRaises(p, j, c) PROVE ControlOK'
  BY <1>10 DEF SettleRaises
<1> QED
  BY <1>1, <1>2, <1>3, <1>4, <1>5, <1>6, <1>7, <1>8, <1>9, <1>10 DEF TaskStep

LEMMA StopControl ==
    ASSUME ControlOK, NEW p \in Procs,
           \/ StopStep(p) \/ StartStep(p) \/ OrphanList(p)
           \/ PassFails(p) \/ GracefulStop(p) \/ Crash(p)
    PROVE  ControlOK'
<1> USE DEF ControlOK, store, rest, loop, tasks
<1>0. /\ Calm \in [Jobs -> TaskStates] /\ Calm \in [Jobs -> Steps] /\ Calm \in [Jobs -> Requests]
      /\ Calm \in [Jobs -> {Nothing, "timeout", "release"}]
      /\ [j \in Jobs |-> NoToken] \in [Jobs -> Tokens \cup {NoToken}]
      /\ [j \in Jobs |-> 0] \in [Jobs -> 0..AttemptLimit]
  BY ZeroAttempts DEF Calm, TaskStates, Steps, Requests
<1>1. CASE StopTasks(p)
  <2>1. /\ phase' = [phase EXCEPT ![p] = "returning"]
        /\ place' = [j \in Jobs |->
                    IF place[j] \in {"claimed", "stale"} /\ task[p][j] \in {"failing", "releasing", "closing"}
                    THEN "out" ELSE place[j]]
        /\ todo' = [todo EXCEPT ![p] = [j \in Jobs |->
                    IF Tracked(p, j) \/ claims[p][j] # NoToken THEN "recover" ELSE Nothing]]
    BY <1>1 DEF StopTasks
  <2>2. place' \in [Jobs -> {"out", "queued", "claimed", "stale"}]
    BY <2>1
  <2>3. phase' \in [Procs -> Phases] /\ todo' \in [Procs -> [Jobs -> Steps]]
    BY <2>1 DEF Phases, Steps
  <2>4. /\ task' = [task EXCEPT ![p] = Calm]
        /\ claims' = [claims EXCEPT ![p] = [j \in Jobs |-> NoToken]]
        /\ seen' = [seen EXCEPT ![p] = [j \in Jobs |-> 0]]
        /\ UNCHANGED <<up, asked, busy, sweep, request>>
    BY <1>1 DEF StopTasks
  <2> QED
    BY <1>0, <2>2, <2>3, <2>4
<1>2. CASE Stopped(p) \/ Crash(p)
  <2>1. Down(p)
    BY <1>2 DEF Stopped, Crash
  <2> QED
    BY <1>0, <2>1 DEF Down, Phases
<1>3. ASSUME NEW j \in Jobs, ReturnJob(p, j) PROVE ControlOK'
  BY <1>3 DEF ReturnJob, Then, Steps
<1>4. ASSUME NEW j \in Jobs, ReturnToBroker(p, j) PROVE ControlOK'
  BY <1>4 DEF ReturnToBroker, Then, Steps, BrokerComplete
<1>5. CASE Start(p)
  BY <1>5 DEF Start, Phases
<1>6. CASE Boot(p)
  BY <1>6 DEF Boot, Mutate
<1>7. CASE OrphanList(p)
  BY <1>7 DEF OrphanList
<1>8. CASE PassFails(p)
  BY <1>0, <1>8 DEF PassFails, Phases
<1>9. CASE GracefulStop(p)
  BY <1>0, <1>9 DEF GracefulStop, Phases
<1> QED
  BY <1>1, <1>2, <1>3, <1>4, <1>5, <1>6, <1>7, <1>8, <1>9 DEF StopStep, StartStep

\* The part that waited for a mutate goes on.
LEMMA WriteControl ==
    ASSUME ControlOK, NEW p \in Procs, WriteStep(p) \/ LateWrite(p)
    PROVE  ControlOK'
<1>1. PICK w \in writes[p] : Written(p, w)
  BY DEF WriteStep, LateWrite
<1>2. \A f, x, y, S : f \in [Jobs -> S] /\ y \in S => After(f, w, x, y) \in [Jobs -> S]
  BY DEF After
<1>3. request' \in [Procs -> [Jobs -> Requests]]
  <2>1. request[p] \in [Jobs -> Requests] /\ "enqueue" \in Requests /\ "rejected" \in Requests
    BY DEF ControlOK, Requests
  <2>2. After(request[p], w, "create", "enqueue") \in [Jobs -> Requests]
    BY <1>2, <2>1
  <2>3. After(After(request[p], w, "create", "enqueue"), w, "request", "rejected") \in [Jobs -> Requests]
    BY <1>2, <2>1, <2>2
  <2> QED
    BY <1>1, <2>3 DEF Written, Resume, ControlOK
<1>4. sweep' \in [Procs -> [Jobs -> {Nothing, "timeout", "release"}]]
  <2>1. After(sweep[p], w, "sweep", Nothing) \in [Jobs -> {Nothing, "timeout", "release"}]
    BY <1>2 DEF ControlOK
  <2> QED
    BY <1>1, <2>1 DEF Written, Resume, ControlOK
<1>5. task' \in [Procs -> [Jobs -> TaskStates]]
  <2>1. task[p] \in [Jobs -> TaskStates] /\ "closing" \in TaskStates
    BY DEF ControlOK, TaskStates
  <2>2. After(task[p], w, "task", "closing") \in [Jobs -> TaskStates]
    BY <1>2, <2>1
  <2> QED
    BY <1>1, <2>2 DEF Written, Resume, ControlOK
<1>6. todo' \in [Procs -> [Jobs -> Steps]]
  <2>1. todo[p] \in [Jobs -> Steps] /\ Nothing \in Steps /\ "enqueue" \in Steps
    BY DEF ControlOK, Steps
  <2>2. After(todo[p], w, "loop", Nothing) \in [Jobs -> Steps]
    BY <1>2, <2>1
  <2>3. Enlisted(p, w) \in [Jobs -> Steps]
    BY <2>1 DEF Enlisted
  <2> QED
    BY <1>1, <2>2, <2>3 DEF Written, Resume, ControlOK
<1>7. phase' \in [Procs -> Phases]
  BY <1>1 DEF Written, Resume, ControlOK, Phases
<1> QED
  BY <1>1, <1>3, <1>4, <1>5, <1>6, <1>7 DEF Written, ControlOK

LEMMA StepControl ==
    ASSUME ControlOK, job' \in [Jobs -> Records], [Next]_vars
    PROVE  ControlOK'
<1>1. ASSUME NEW j \in Jobs, ClaimGoesStale(j) \/ DeadlinePasses(j) PROVE ControlOK'
  BY <1>1 DEF ClaimGoesStale, DeadlinePasses, ControlOK, store, rest, loop, tasks
<1>2. ASSUME NEW p \in Procs, NEW j \in Jobs, CachedDeadlinePasses(p, j) PROVE ControlOK'
  BY <1>2 DEF CachedDeadlinePasses, ControlOK, store, rest, loop, tasks
<1>3. ASSUME NEW p \in Procs, NEW j \in Jobs, SweepStep(p, j) PROVE ControlOK'
  <2>1. sweep' \in [Procs -> [Jobs -> {Nothing, "timeout", "release"}]]
    <3>1. CASE sweep' = sweep
      BY <3>1 DEF ControlOK
    <3>2. CASE \E x \in {Nothing, "release"} : sweep' = [sweep EXCEPT ![p][j] = x]
      BY <3>2 DEF ControlOK
    <3>3. SweepTimeOut(p, j) => \E x \in {Nothing, "release"} : sweep' = [sweep EXCEPT ![p][j] = x]
      BY Zenon DEF SweepTimeOut
    <3>4. SweepRelease(p, j) => sweep' = sweep
      BY DEF SweepRelease, rest
    <3> QED
      BY <1>3, <3>1, <3>2, <3>3, <3>4 DEF SweepStep
  <2>2. UNCHANGED <<place, up, asked, tasks, loop, request>>
    BY <1>3 DEF SweepStep, SweepTimeOut, SweepRelease, rest
  <2> QED
    BY <2>1, <2>2 DEF ControlOK, tasks, loop
<1>4. CASE UNCHANGED vars
  BY <1>4 DEF vars, ControlOK, store, rest, loop, tasks
<1>5. CASE Next
  BY <1>1, <1>2, <1>3, <1>5, RequestControl, LoopControl, TaskControl, StopControl, WriteControl DEF Next
<1> QED
  BY <1>4, <1>5

-----------------------------------------------------------------------------
(* The theorems.                                                           *)

LEMMA TypeInit == Init => TypeOK
<1> SUFFICES ASSUME Init PROVE TypeOK
  OBVIOUS
<1>1. /\ Absent \in Records /\ NoEntries \in Entries /\ 0 \in 0..AttemptLimit /\ Funds \in Nat
  <2>1. NoEntries \in Entries
    BY JobsAssumption, SMT DEF NoEntries, Entries
  <2>2. 0 \in 0..AttemptLimit /\ 0 \in 0..Reserve
    BY JobsAssumption, SMT
  <2>3. Absent \in Records
    BY <2>2, Zenon DEF Absent, Records, Statuses, Active, Terminal
  <2> QED
    BY <2>1, <2>2, <2>3, LifecycleAssumption
<1>2. /\ job \in [Jobs -> Records] /\ ledger \in [Jobs -> Entries] /\ balance \in Nat
      /\ view \in [Procs -> [Jobs -> Records \cup {Current}]]
      /\ writes \in [Procs -> SUBSET Writes]
  BY <1>1 DEF Init
<1>3. ControlOK
  BY <1>1 DEF Init, ControlOK, Calm, TaskStates, Steps, Requests, Phases
<1> QED
  BY <1>2, <1>3 DEF TypeOK, ControlOK

\* Whatever is stored or about to be written is a table.
LEMMA FollowsIsTable ==
    ASSUME TypeOK, NEW u, Follows(u)
    PROVE  u \in Tables
<1>1. \A q \in Procs : \A v \in writes[q] : v.table \in Tables
  BY DEF TypeOK, Writes
<1>2. Now \in Tables
  BY NowIsTable
<1> QED
  BY <1>1, <1>2, ChangeIsTable DEF Follows

LEMMA TypeStep == TypeOK /\ [Next]_vars => TypeOK'
<1> SUFFICES ASSUME TypeOK, [Next]_vars PROVE TypeOK'
  OBVIOUS
<1>1. StoreMoves
  BY StepMoves
<1>2. job' \in [Jobs -> Records] /\ ledger' \in [Jobs -> Entries] /\ balance' \in Nat
  <2>1. Now' \in Tables
    BY <1>1, FollowsIsTable DEF StoreMoves
  <2>2. Now' = Table(job', ledger', balance')
    BY DEF Now
  <2>3. Now'.job = job' /\ Now'.ledger = ledger' /\ Now'.balance = balance'
    BY <2>2, TableFields
  <2> QED
    BY <2>1, <2>3 DEF Tables
<1>3. ControlOK'
  BY <1>2, StepControl DEF TypeOK, ControlOK
<1>4. view' \in [Procs -> Caches] /\ writes' \in [Procs -> SUBSET Writes]
  BY <1>1 DEF StoreMoves
<1> QED
  BY <1>2, <1>3, <1>4 DEF TypeOK, ControlOK, Caches

\* Every variable keeps its type, in the store and in the tables about to be
\* written: no completion takes the balance below zero and no path counts an
\* attempt beyond the limit.
THEOREM LifecycleTypeCorrect == Spec => []TypeOK
<1>1. Init => TypeOK
  BY TypeInit
<1>2. TypeOK /\ [Next]_vars => TypeOK'
  BY TypeStep
<1> QED
  BY <1>1, <1>2, PTL DEF Spec

-----------------------------------------------------------------------------
(* What every version of the table says of its records.                    *)

\* No record that does not run holds a token, and each that says it was charged
\* has its spend entry beside it.
Sound(t) ==
    \A j \in Jobs : /\ Tidy(t.job[j])
                    /\ t.job[j].credit = "settled" => t.ledger[j].spend > 0

SoundInv ==
    /\ Sound(Now)
    /\ \A p \in Procs : \A w \in writes[p] : Sound(w.table)

\* The spend entry of a job after a callback.
LEMMA SpendAfter ==
    ASSUME NEW t \in Tables, NEW u, Change(t, u), NEW j \in Jobs
    PROVE  \/ Updated(t.job[j], u.job[j]) /\ u.ledger[j].spend = t.ledger[j].spend
           \/ \E c \in Costs : /\ u.job[j] = Completed(t.job[j], c)
                               /\ u.ledger[j].spend = IF t.ledger[j].spend = 0 THEN c
                                                      ELSE t.ledger[j].spend
<1>1. /\ t.job \in [Jobs -> Records] /\ t.ledger \in [Jobs -> Entries]
      /\ t.ledger[j] \in Entries /\ Reserve \in 0..Reserve
  BY JobsAssumption, SMT DEF Tables
<1> DEFINE e == t.ledger[j]
<1>2. Write(e, "reserve", Reserve).spend = e.spend /\ Write(e, "release", Reserve).spend = e.spend
  <2>1. ASSUME NEW key \in Keys, NEW k \in Keys \ {key}
        PROVE  Write(e, key, Reserve)[k] = e[k]
    BY <1>1, WriteOnce
  <2>2. /\ "reserve" \in Keys /\ "spend" \in Keys \ {"reserve"}
        /\ "release" \in Keys /\ "spend" \in Keys \ {"release"}
    BY DEF Keys
  <2> QED
    BY <2>1, <2>2, Zenon
<1>3. \A c \in Costs : Settlement(e, c).spend = IF e.spend = 0 THEN c ELSE e.spend
  BY <1>1, SettlementOnceEach
<1>4. CASE \A i \in Jobs :
              /\ Updated(t.job[i], u.job[i])
              /\ u.ledger[i] \in {t.ledger[i], Write(t.ledger[i], "reserve", Reserve),
                                  Write(t.ledger[i], "release", Reserve)}
  BY <1>2, <1>4
<1>5. ASSUME NEW i \in Jobs, NEW c \in Costs,
             u.job = [t.job EXCEPT ![i] = Completed(t.job[i], c)],
             u.ledger = [t.ledger EXCEPT ![i] = Settlement(t.ledger[i], c)]
      PROVE  \/ Updated(t.job[j], u.job[j]) /\ u.ledger[j].spend = t.ledger[j].spend
             \/ u.job[j] = Completed(t.job[j], c)
                /\ u.ledger[j].spend = IF t.ledger[j].spend = 0 THEN c ELSE t.ledger[j].spend
  BY <1>1, <1>3, <1>5 DEF Updated
<1> QED
  BY <1>4, <1>5 DEF Change

LEMMA ChangeIsSound ==
    ASSUME NEW t \in Tables, NEW u, Sound(t), Change(t, u)
    PROVE  Sound(u)
<1> SUFFICES ASSUME NEW j \in Jobs
             PROVE  Tidy(u.job[j]) /\ (u.job[j].credit = "settled" => u.ledger[j].spend > 0)
  BY DEF Sound
<1>1. /\ t.job[j] \in Records /\ t.ledger[j] \in Entries /\ t.ledger[j].spend \in Nat
      /\ Tidy(t.job[j]) /\ (t.job[j].credit = "settled" => t.ledger[j].spend > 0)
  BY JobsAssumption, SMT DEF Tables, Entries, Sound
<1>2. CASE Updated(t.job[j], u.job[j]) /\ u.ledger[j].spend = t.ledger[j].spend
  BY <1>1, <1>2, UpdateIsTidy, UpdateSettlesNothing
<1>3. ASSUME NEW c \in Costs, u.job[j] = Completed(t.job[j], c),
             u.ledger[j].spend = IF t.ledger[j].spend = 0 THEN c ELSE t.ledger[j].spend
      PROVE  Tidy(u.job[j]) /\ (u.job[j].credit = "settled" => u.ledger[j].spend > 0)
  <2>1. Tidy(u.job[j])
    BY <1>1, <1>3, UpdateIsTidy
  <2>2. u.job[j].credit = "settled" => c # 0
    BY <1>1, <1>3, CompletionSettles
  <2>3. c \in Nat
    BY JobsAssumption, SMT
  <2> QED
    BY <1>1, <1>3, <2>1, <2>2, <2>3, SMT
<1> QED
  BY <1>2, <1>3, SpendAfter

LEMMA SoundStep == TypeOK /\ SoundInv /\ [Next]_vars => SoundInv'
<1> SUFFICES ASSUME TypeOK, SoundInv, [Next]_vars PROVE SoundInv'
  OBVIOUS
<1>1. ASSUME NEW u, Follows(u) PROVE Sound(u)
  BY <1>1, NowIsTable, ChangeIsSound DEF Follows, SoundInv
<1>2. StoreMoves
  BY StepMoves
<1>3. Sound(Now')
  BY <1>1, <1>2 DEF StoreMoves
<1>4. \A p \in Procs : \A w \in writes'[p] : Sound(w.table)
  BY <1>1, <1>2 DEF StoreMoves
<1> QED
  BY <1>3, <1>4 DEF SoundInv, Sound, Now

LEMMA TablesAreSound == Spec => []SoundInv
<1>1. Init => SoundInv
  <2> SUFFICES ASSUME Init PROVE SoundInv
    OBVIOUS
  <2>1. Now.job = job
    BY TableFields DEF Now
  <2>2. \A j \in Jobs : Now.job[j] = Absent
    BY <2>1 DEF Init
  <2>3. Absent.token = NoToken /\ Absent.credit # "settled"
    BY Zenon DEF Absent
  <2>4. Sound(Now)
    BY <2>2, <2>3 DEF Sound, Tidy
  <2> QED
    BY <2>4 DEF SoundInv, Init
<1> QED
  BY <1>1, SoundStep, LifecycleTypeCorrect, PTL DEF Spec

\* No record that does not run has a claim token, whichever process saved what
\* it had read however long ago, and whatever that overwrote.
THEOREM TokensAreDropped == Spec => []TokenOnlyWhileRunning
<1>1. SoundInv => TokenOnlyWhileRunning
  <2>1. Now.job = job
    BY TableFields DEF Now
  <2> QED
    BY <2>1 DEF SoundInv, Sound, Tidy, TokenOnlyWhileRunning
<1> QED
  BY <1>1, TablesAreSound, PTL

\* A record that says it was charged has a spend entry, however the charge
\* interleaves with retries, time-outs, failures and second completions, and
\* although one process may write back what another has already replaced.
THEOREM SettledJobsAreCharged == Spec => []SettledIsCharged
<1>1. SoundInv => SettledIsCharged
  <2>1. Now.job = job /\ Now.ledger = ledger
    BY TableFields DEF Now
  <2> QED
    BY <2>1 DEF SoundInv, Sound, SettledIsCharged
<1> QED
  BY <1>1, TablesAreSound, PTL

-----------------------------------------------------------------------------
(* The balance and the sum of all charges.  The sum over the jobs is the   *)
(* number of units spent: the pairs of a job and a number below its spend  *)
(* entry.  That the fold of the property computes this number is shown by  *)
(* a smallest set of jobs for which it would not.                          *)

Spends(t) == [j \in Jobs |-> t.ledger[j].spend]
Units(f, s) == {u \in s \X (0..Reserve) : u[2] < f[u[1]]}

\* Every version of the table accounts for the credits it says are gone.
Explained(t) == t.balance + Cardinality(Units(Spends(t), Jobs)) = Funds

BalanceInv ==
    /\ Explained(Now)
    /\ \A p \in Procs : \A w \in writes[p] : Explained(w.table)

\* The units of a set of jobs are those of one of them and those of the others.
LEMMA UnitsOfOne ==
    ASSUME IsFiniteSet(Jobs), NEW f \in [Jobs -> 0..Reserve], NEW s \in SUBSET Jobs, NEW x \in s
    PROVE  /\ Cardinality(Units(f, s)) = f[x] + Cardinality(Units(f, s \ {x}))
           /\ Cardinality(Units(f, s \ {x})) \in Nat
<1> DEFINE one == {x} \X (0..(f[x] - 1))
           others == Units(f, s \ {x})
<1>1. Reserve \in Nat /\ f[x] \in 0..Reserve
  BY JobsAssumption
<1>2. IsFiniteSet(0..Reserve) /\ IsFiniteSet(0..(f[x] - 1)) /\ Cardinality(0..(f[x] - 1)) = f[x]
  <2>1. f[x] \in Nat /\ f[x] - 1 \in Int /\ 0 \in Int /\ Reserve \in Int
    BY <1>1
  <2>2. /\ IsFiniteSet(0..(f[x] - 1)) /\ IsFiniteSet(0..Reserve)
        /\ Cardinality(0..(f[x] - 1)) = IF 0 > f[x] - 1 THEN 0 ELSE (f[x] - 1) - 0 + 1
    BY <2>1, FS_Interval
  <2> QED
    BY <2>1, <2>2
<1>3. IsFiniteSet(one) /\ Cardinality(one) = f[x]
  <2>1. IsFiniteSet({x}) /\ Cardinality({x}) = 1
    BY FS_Singleton
  <2>2. IsFiniteSet(one) /\ Cardinality(one) = Cardinality({x}) * Cardinality(0..(f[x] - 1))
    BY <1>2, <2>1, FS_Product
  <2> QED
    BY <1>1, <1>2, <2>1, <2>2
<1>4. IsFiniteSet(others)
  <2>1. IsFiniteSet(s \ {x})
    BY FS_Subset
  <2>2. IsFiniteSet((s \ {x}) \X (0..Reserve))
    BY <1>2, <2>1, FS_Product
  <2>3. others \in SUBSET ((s \ {x}) \X (0..Reserve))
    BY DEF Units
  <2> QED
    BY <2>2, <2>3, FS_Subset
<1>5. Units(f, s) = one \cup others
  BY <1>1 DEF Units
<1>6. one \cap others = {}
  BY DEF Units
<1> HIDE DEF one, others
<1>7. Cardinality(one \cup others) = Cardinality(one) + Cardinality(others) - Cardinality(one \cap others)
  BY <1>3, <1>4, FS_Union
<1>8. Cardinality({}) = 0 /\ Cardinality(others) \in Nat
  BY <1>4, FS_EmptySet, FS_CardinalityType
<1>9. Cardinality(Units(f, s)) = f[x] + Cardinality(others) - 0
  BY <1>3, <1>5, <1>6, <1>7, <1>8
<1>10. Cardinality(Units(f, s)) = f[x] + Cardinality(others)
  BY <1>1, <1>8, <1>9
<1> QED
  BY <1>8, <1>10 DEF others

\* The sum of the property is the number of units.
LEMMA SumIsUnits ==
    ASSUME IsFiniteSet(Jobs), TypeOK
    PROVE  MapThenSumSet(LAMBDA j : ledger[j].spend, Jobs) = Cardinality(Units(Spends(Now), Jobs))
<1> DEFINE spends == Spends(Now)
           Some(s) == CHOOSE x \in s : TRUE
           Step(it) == [s \in SUBSET Jobs |-> IF s = {} THEN 0
                                              ELSE ledger[Some(s)].spend + it[s \ {Some(s)}]]
           count == [s \in SUBSET Jobs |-> Cardinality(Units(spends, s))]
           sum == CHOOSE it : it = Step(it)
<1>1. MapThenSumSet(LAMBDA j : ledger[j].spend, Jobs) = sum[Jobs]
  BY DEF MapThenSumSet, MapThenFoldSet
<1>2. spends \in [Jobs -> 0..Reserve] /\ \A j \in Jobs : spends[j] = ledger[j].spend
  <2>1. Now.ledger = ledger
    BY TableFields DEF Now
  <2> QED
    BY <2>1, SMT DEF Spends, TypeOK, Entries
<1>3. \A s \in SUBSET Jobs : s # {} => Some(s) \in s
  OBVIOUS
<1> HIDE DEF Some, spends
<1>4. \A s \in SUBSET Jobs : count[s] = IF s = {} THEN 0 ELSE ledger[Some(s)].spend + count[s \ {Some(s)}]
  <2> SUFFICES ASSUME NEW s \in SUBSET Jobs
               PROVE  count[s] = IF s = {} THEN 0 ELSE ledger[Some(s)].spend + count[s \ {Some(s)}]
    OBVIOUS
  <2>1. CASE s = {}
    <3>1. Units(spends, s) = {}
      BY <2>1 DEF Units
    <3> QED
      BY <2>1, <3>1, FS_EmptySet
  <2>2. CASE s # {}
    <3>1. Some(s) \in s /\ spends[Some(s)] = ledger[Some(s)].spend
      BY <1>2, <1>3, <2>2
    <3>2. Cardinality(Units(spends, s)) = spends[Some(s)] + Cardinality(Units(spends, s \ {Some(s)}))
      BY <1>2, <3>1, UnitsOfOne
    <3> QED
      BY <2>2, <3>1, <3>2
  <2> QED
    BY <2>1, <2>2
<1>5. count = Step(count)
  BY <1>4
<1>6. sum = Step(sum)
  BY <1>5
<1> HIDE DEF count, sum
<1>7. \A s \in SUBSET Jobs : sum[s] = IF s = {} THEN 0 ELSE ledger[Some(s)].spend + sum[s \ {Some(s)}]
  BY <1>6
<1>8. \A s \in SUBSET Jobs : sum[s] = count[s]
  <2> DEFINE Wrong == {s \in SUBSET Jobs : sum[s] # count[s]}
  <2>1. SUFFICES ASSUME Wrong # {} PROVE FALSE
    OBVIOUS
  <2>2. IsWellFoundedOn(StrictSubsetOrdering(Jobs), SUBSET Jobs)
    BY FS_StrictSubsetOrderingWellFounded, FS_FiniteSubsetsOfFinite
  <2>3. PICK s \in Wrong : \A r \in Wrong : <<r, s>> \notin StrictSubsetOrdering(Jobs)
    <3>1. Wrong \subseteq SUBSET Jobs
      OBVIOUS
    <3> HIDE DEF Wrong
    <3> QED
      BY <2>1, <2>2, <3>1, WFMin
  <2>4. CASE s = {}
    BY <1>4, <1>7, <2>4
  <2>5. CASE s # {}
    <3> DEFINE r == s \ {Some(s)}
    <3>1. r \in SUBSET Jobs /\ r \subseteq s /\ r # s
      BY <1>3, <2>5
    <3>2. <<r, s>> \in StrictSubsetOrdering(Jobs)
      BY <3>1 DEF StrictSubsetOrdering
    <3>3. sum[r] = count[r]
      BY <2>3, <3>1, <3>2
    <3> QED
      BY <1>4, <1>7, <2>5, <3>3
  <2> QED
    BY <2>4, <2>5
<1> QED
  BY <1>1, <1>8 DEF count, spends

LEMMA NothingSpent == IsFiniteSet(Jobs) /\ Init => BalanceInv
<1> SUFFICES ASSUME IsFiniteSet(Jobs), Init PROVE BalanceInv
  OBVIOUS
<1>1. Now.ledger = ledger /\ Now.balance = balance
  BY TableFields DEF Now
<1>2. \A j \in Jobs : Spends(Now)[j] = 0
  BY <1>1 DEF Init, Spends, NoEntries
<1>3. Units(Spends(Now), Jobs) = {}
  BY <1>2 DEF Units
<1>4. Explained(Now)
  BY <1>1, <1>3, FS_EmptySet, LifecycleAssumption DEF Init, Explained
<1> QED
  BY <1>4 DEF Init, BalanceInv

\* Jobs other than j spend what they spent.
LEMMA OneMoreSpend ==
    ASSUME IsFiniteSet(Jobs), NEW f \in [Jobs -> 0..Reserve], NEW g \in [Jobs -> 0..Reserve], NEW j \in Jobs,
           \A i \in Jobs \ {j} : g[i] = f[i]
    PROVE  /\ Cardinality(Units(g, Jobs)) = Cardinality(Units(f, Jobs)) + g[j] - f[j]
           /\ Cardinality(Units(f, Jobs)) \in Nat
<1>1. Units(g, Jobs \ {j}) = Units(f, Jobs \ {j})
  BY DEF Units
<1>2. /\ Cardinality(Units(f, Jobs)) = f[j] + Cardinality(Units(f, Jobs \ {j}))
      /\ Cardinality(Units(g, Jobs)) = g[j] + Cardinality(Units(g, Jobs \ {j}))
      /\ Cardinality(Units(f, Jobs \ {j})) \in Nat
  BY UnitsOfOne
<1>3. f[j] \in Nat /\ g[j] \in Nat
  BY JobsAssumption
<1> QED
  BY <1>1, <1>2, <1>3

\* A callback spends nothing, or takes from the balance what it enters as spent.
LEMMA ChangeSpends ==
    ASSUME NEW t \in Tables, NEW u, Change(t, u)
    PROVE  \/ u.balance = t.balance /\ \A j \in Jobs : u.ledger[j].spend = t.ledger[j].spend
           \/ \E j \in Jobs, c \in Costs :
                  /\ t.ledger[j].spend = 0 /\ u.ledger[j].spend = c /\ u.balance = t.balance - c
                  /\ \A i \in Jobs \ {j} : u.ledger[i].spend = t.ledger[i].spend
<1>1. t.ledger \in [Jobs -> Entries] /\ Reserve \in 0..Reserve
  BY JobsAssumption, SMT DEF Tables
<1>2. ASSUME NEW j \in Jobs
      PROVE  /\ Write(t.ledger[j], "reserve", Reserve).spend = t.ledger[j].spend
             /\ Write(t.ledger[j], "release", Reserve).spend = t.ledger[j].spend
  <2>1. ASSUME NEW key \in Keys, NEW k \in Keys \ {key}
        PROVE  Write(t.ledger[j], key, Reserve)[k] = t.ledger[j][k]
    BY <1>1, WriteOnce
  <2>2. /\ "reserve" \in Keys /\ "spend" \in Keys \ {"reserve"}
        /\ "release" \in Keys /\ "spend" \in Keys \ {"release"}
    BY DEF Keys
  <2> QED
    BY <2>1, <2>2, Zenon
<1>3. CASE /\ u.balance = t.balance
           /\ \A j \in Jobs :
                 u.ledger[j] \in {t.ledger[j], Write(t.ledger[j], "reserve", Reserve),
                                  Write(t.ledger[j], "release", Reserve)}
  BY <1>2, <1>3
<1>4. ASSUME NEW j \in Jobs, NEW c \in Costs,
             u.ledger = [t.ledger EXCEPT ![j] = Settlement(t.ledger[j], c)],
             u.balance = IF t.ledger[j].spend = 0 THEN t.balance - c ELSE t.balance
      PROVE  \/ u.balance = t.balance /\ \A i \in Jobs : u.ledger[i].spend = t.ledger[i].spend
             \/ /\ t.ledger[j].spend = 0 /\ u.ledger[j].spend = c /\ u.balance = t.balance - c
                /\ \A i \in Jobs \ {j} : u.ledger[i].spend = t.ledger[i].spend
  <2>1. Settlement(t.ledger[j], c).spend = IF t.ledger[j].spend = 0 THEN c ELSE t.ledger[j].spend
    BY <1>1, SettlementOnceEach
  <2>2. u.ledger[j] = Settlement(t.ledger[j], c) /\ \A i \in Jobs \ {j} : u.ledger[i] = t.ledger[i]
    BY <1>1, <1>4
  <2> QED
    BY <1>4, <2>1, <2>2
<1> QED
  BY <1>3, <1>4 DEF Change

LEMMA ChangeIsExplained ==
    ASSUME IsFiniteSet(Jobs), NEW t \in Tables, NEW u, Explained(t), Change(t, u)
    PROVE  Explained(u)
<1> DEFINE f == Spends(t)
           g == Spends(u)
<1>1. /\ f \in [Jobs -> 0..Reserve] /\ g \in [Jobs -> 0..Reserve]
      /\ \A j \in Jobs : f[j] = t.ledger[j].spend /\ g[j] = u.ledger[j].spend
  <2>1. t.ledger \in [Jobs -> Entries] /\ u.ledger \in [Jobs -> Entries]
    BY DEF Tables, Change
  <2> QED
    BY <2>1, SMT DEF Spends, Entries
<1>2. t.balance \in Nat /\ t.balance + Cardinality(Units(f, Jobs)) = Funds
  BY DEF Tables, Explained
<1> HIDE DEF f, g
<1>3. CASE u.balance = t.balance /\ \A j \in Jobs : u.ledger[j].spend = t.ledger[j].spend
  <2>1. g = f
    BY <1>1, <1>3
  <2> QED
    BY <1>2, <1>3, <2>1 DEF Explained, g
<1>4. ASSUME NEW j \in Jobs, NEW c \in Costs,
             t.ledger[j].spend = 0, u.ledger[j].spend = c, u.balance = t.balance - c,
             \A i \in Jobs \ {j} : u.ledger[i].spend = t.ledger[i].spend
      PROVE  Explained(u)
  <2>1. \A i \in Jobs \ {j} : g[i] = f[i]
    BY <1>1, <1>4
  <2>2. /\ Cardinality(Units(g, Jobs)) = Cardinality(Units(f, Jobs)) + g[j] - f[j]
        /\ Cardinality(Units(f, Jobs)) \in Nat
    BY <1>1, <2>1, OneMoreSpend
  <2>3. c \in Nat /\ f[j] = 0 /\ g[j] = c
    BY <1>1, <1>4, JobsAssumption
  <2>4. u.balance + Cardinality(Units(g, Jobs)) = Funds
    BY <1>2, <1>4, <2>2, <2>3
  <2> QED
    BY <2>4 DEF Explained, g
<1> QED
  BY <1>3, <1>4, ChangeSpends

LEMMA BalanceStep == IsFiniteSet(Jobs) /\ TypeOK /\ BalanceInv /\ [Next]_vars => BalanceInv'
<1> SUFFICES ASSUME IsFiniteSet(Jobs), TypeOK, BalanceInv, [Next]_vars PROVE BalanceInv'
  OBVIOUS
<1>1. ASSUME NEW u, Follows(u) PROVE Explained(u)
  BY <1>1, NowIsTable, ChangeIsExplained DEF Follows, BalanceInv
<1>2. StoreMoves
  BY StepMoves
<1>3. Explained(Now')
  BY <1>1, <1>2 DEF StoreMoves
<1>4. \A p \in Procs : \A w \in writes'[p] : Explained(w.table)
  BY <1>1, <1>2 DEF StoreMoves
<1> QED
  BY <1>3, <1>4 DEF BalanceInv, Explained, Now

\* What the account has lost is the sum of all spend entries, for any finite
\* number of jobs, whoever renders and settles them and however often, and
\* whichever writes of one process another one overwrites.
THEOREM BalanceIsExplained == IsFiniteSet(Jobs) => (Spec => []LedgerExplainsBalance)
<1> SUFFICES ASSUME IsFiniteSet(Jobs) PROVE Spec => []LedgerExplainsBalance
  OBVIOUS
<1>1. Init => BalanceInv
  BY NothingSpent
<1>2. TypeOK /\ BalanceInv /\ [Next]_vars => BalanceInv'
  BY BalanceStep
<1>3. TypeOK /\ BalanceInv => LedgerExplainsBalance
  <2>1. Now.balance = balance
    BY TableFields DEF Now
  <2> QED
    BY <2>1, SumIsUnits DEF BalanceInv, Explained, LedgerExplainsBalance
<1> QED
  BY <1>1, <1>2, <1>3, LifecycleTypeCorrect, PTL DEF Spec
===============================================================================
