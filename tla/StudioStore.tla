----------------------------- MODULE StudioStore -----------------------------
(***************************************************************************)
(* The Postgres store of Studio: one table of records that the web process *)
(* and the workers share, and in each process a cached StudioState, read   *)
(* without asking the database.  A call holds the asyncio lock of its      *)
(* process while a thread runs the database part; only that thread takes   *)
(* the advisory lock, and mutate takes it for the rewrite alone.           *)
(*                                                                         *)
(* A record is the set of the writes that made it what it is, so the table *)
(* is the set of all writes that can be seen in it.                        *)
(***************************************************************************)

CONSTANTS
    Procs,      \* processes
    Writes,     \* calls that write, each made at most once
    Whole,      \* those that are mutate
    Saves,      \* those that are save_model or delete_model; the others are mutate_generation
    RecordOf,   \* the record a write is about
    Setups,     \* who makes which calls, and whether callers may be cancelled
    Nobody

SameRecord(w) == {v \in Writes : RecordOf[v] = RecordOf[w]}

\* save_model writes what the caller made up, so its record is nobody else's.
ASSUME StoreAssumption ==
    /\ Whole \subseteq Writes
    /\ Saves \subseteq Writes \ Whole
    /\ \A w \in Saves : SameRecord(w) = {w}
    /\ Setups \subseteq [calls : [Procs -> SUBSET Writes], cancels : BOOLEAN]
    /\ Procs \cap Writes = {}
    /\ Nobody \notin Procs \cup Writes

VARIABLES
    setup,      \* the one of Setups that is running
    records,    \* durable: writes visible in the table
    writeLock,  \* the write whose transaction has locked, or Nobody
    objects,    \* StudioState objects, named after the mutate that loaded or process that started with it
    state,      \* process -> its _state, one of these objects
    lock,       \* process -> the write that holds its asyncio lock, or Nobody
    caller,     \* write -> the process that makes it, or Nobody
    call,       \* write -> where the call is
    buffer      \* write -> what its thread has read or is about to write

vars == <<setup, records, writeLock, objects, state, lock, caller, call, buffer>>

Places == {"new", "begun", "loaded", "edited", "writing", "locked", "committed",
           "raised", "returned", "failed"}

Row == Writes \ (Whole \cup Saves)

At(w, place) == call[w] = place
Goes(w, place) == call' = [call EXCEPT ![w] = place]

\* The caller of w still waits for it; a cancelled one has let go of the lock.
Awaited(w) == caller[w] # Nobody /\ lock[caller[w]] = w

Cache(p) == objects[state[p]]

\* self._state.<collection>[id] = ...
Assign(p, record, value) == objects' = [objects EXCEPT ![state[p]] = (@ \ record) \cup value]

-----------------------------------------------------------------------------
(* The coroutines of a process.                                            *)

Acquire(p, w) ==
    /\ w \in setup.calls[p]
    /\ At(w, "new")
    /\ lock[p] = Nobody
    /\ lock' = [lock EXCEPT ![p] = w]
    /\ caller' = [caller EXCEPT ![w] = p]

Begin(p, w) ==
    /\ w \notin Saves
    /\ Acquire(p, w)
    /\ Goes(w, "begun")
    /\ UNCHANGED <<setup, records, writeLock, objects, state, buffer>>

\* The cache is edited before the database is asked.
BeginSave(p, w) ==
    /\ w \in Saves
    /\ Acquire(p, w)
    /\ Assign(p, {w}, {w})
    /\ buffer' = [buffer EXCEPT ![w] = {w}]
    /\ Goes(w, "writing")
    /\ UNCHANGED <<setup, records, writeLock, state>>

\* mutate, between its two threads: the new object becomes the cache and the
\* callback edits it, or raises half-way.
Edit(w) ==
    /\ At(w, "loaded")
    /\ Awaited(w)
    /\ objects' = [objects EXCEPT ![w] = buffer[w] \cup {w}]
    /\ state' = [state EXCEPT ![caller[w]] = w]
    /\ Goes(w, "edited")
    /\ UNCHANGED <<setup, records, writeLock, lock, caller, buffer>>

EditRaises(w) ==
    /\ At(w, "loaded")
    /\ Awaited(w)
    /\ \E edits \in {{}, {w}} : objects' = [objects EXCEPT ![w] = buffer[w] \cup edits]
    /\ state' = [state EXCEPT ![caller[w]] = w]
    /\ Goes(w, "raised")
    /\ UNCHANGED <<setup, records, writeLock, lock, caller, buffer>>

\* Mutant: mutate_generation does not tell the cache.
ReturnUncached(w) ==
    /\ At(w, "committed")
    /\ Awaited(w)
    /\ lock' = [lock EXCEPT ![caller[w]] = Nobody]
    /\ Goes(w, "returned")
    /\ UNCHANGED <<setup, records, writeLock, objects, state, caller, buffer>>

\* mutate_generation puts the record it wrote into the cache.
Return(w) ==
    /\ At(w, "committed")
    /\ Awaited(w)
    /\ IF w \in Row THEN Assign(caller[w], SameRecord(w), buffer[w]) ELSE UNCHANGED objects
    /\ lock' = [lock EXCEPT ![caller[w]] = Nobody]
    /\ Goes(w, "returned")
    /\ UNCHANGED <<setup, records, writeLock, state, caller, buffer>>

ReturnError(w) ==
    /\ At(w, "raised")
    /\ Awaited(w)
    /\ lock' = [lock EXCEPT ![caller[w]] = Nobody]
    /\ Goes(w, "failed")
    /\ UNCHANGED <<setup, records, writeLock, objects, state, caller, buffer>>

\* The caller is cancelled: the lock is free and the thread, if it has started,
\* goes on.  What a load has read is dropped.
Cancel(w) ==
    /\ setup.cancels
    /\ Awaited(w)
    /\ lock' = [lock EXCEPT ![caller[w]] = Nobody]
    /\ \/ /\ call[w] \in {"begun", "loaded", "edited"} \/ (w \in Saves /\ At(w, "writing"))
          /\ Goes(w, "failed")
       \/ /\ w \in Whole => call[w] \notin {"begun", "loaded"}
          /\ UNCHANGED call
    /\ UNCHANGED <<setup, records, writeLock, objects, state, caller, buffer>>

-----------------------------------------------------------------------------
(* The threads.                                                            *)

\* _load_sync, without the advisory lock
Load(w) ==
    /\ w \in Whole
    /\ At(w, "begun")
    /\ buffer' = [buffer EXCEPT ![w] = records]
    /\ Goes(w, "loaded")
    /\ UNCHANGED <<setup, records, writeLock, objects, state, lock, caller>>

\* _serialize_state_rows reads the object the process may meanwhile go on using.
Serialize(w) ==
    /\ At(w, "edited")
    /\ buffer' = [buffer EXCEPT ![w] = objects[w]]
    /\ Goes(w, "writing")
    /\ UNCHANGED <<setup, records, writeLock, objects, state, lock, caller>>

\* One transaction that locks, deletes all rows and inserts the serialised ones.
Replace(w) ==
    /\ w \in Whole
    /\ At(w, "writing")
    /\ writeLock = Nobody
    /\ records' = buffer[w]
    /\ Goes(w, "committed")
    /\ UNCHANGED <<setup, writeLock, objects, state, lock, caller, buffer>>

\* One transaction that locks and writes or deletes the record.
Upsert(w) ==
    /\ w \in Saves
    /\ At(w, "writing")
    /\ writeLock = Nobody
    /\ records' = (records \ SameRecord(w)) \cup buffer[w]
    /\ Goes(w, "committed")
    /\ UNCHANGED <<setup, writeLock, objects, state, lock, caller, buffer>>

\* Mutant: mutate_generation starts from the cached record.
LockRowCached(w) ==
    /\ w \in Row
    /\ At(w, "begun")
    /\ writeLock = Nobody
    /\ writeLock' = w
    /\ buffer' = [buffer EXCEPT ![w] = Cache(caller[w]) \cap SameRecord(w)]
    /\ Goes(w, "locked")
    /\ UNCHANGED <<setup, records, objects, state, lock, caller>>

\* _mutate_generation_sync: lock, read the record, then write it or leave it.
LockRow(w) ==
    /\ w \in Row
    /\ At(w, "begun")
    /\ writeLock = Nobody
    /\ writeLock' = w
    /\ buffer' = [buffer EXCEPT ![w] = records \cap SameRecord(w)]
    /\ Goes(w, "locked")
    /\ UNCHANGED <<setup, records, objects, state, lock, caller>>

CommitRow(w) ==
    /\ At(w, "locked")
    /\ buffer' = [buffer EXCEPT ![w] = @ \cup {w}]
    /\ records' = (records \ SameRecord(w)) \cup buffer'[w]
    /\ writeLock' = Nobody
    /\ Goes(w, "committed")
    /\ UNCHANGED <<setup, objects, state, lock, caller>>

\* The callback declines, or the database fails: rolled back.
RollBack(w) ==
    /\ call[w] \in {"begun", "edited", "writing", "locked"}
    /\ writeLock' = IF writeLock = w THEN Nobody ELSE writeLock
    /\ Goes(w, "raised")
    /\ UNCHANGED <<setup, records, objects, state, lock, caller, buffer>>

\* The commit took effect, but its answer or the release of the connection fails.
RaiseAfterCommit(w) ==
    /\ At(w, "committed")
    /\ Goes(w, "raised")
    /\ UNCHANGED <<setup, records, writeLock, objects, state, lock, caller, buffer>>

-----------------------------------------------------------------------------
(* A process dies with its threads, whose transactions are rolled back, and *)
(* loads the table when it starts again.                                    *)

Unfinished == {"begun", "loaded", "edited", "writing", "locked", "committed", "raised"}

Restart(p) ==
    LET dead == {w \in Writes : caller[w] = p /\ call[w] \in Unfinished} IN
    /\ call' = [w \in Writes |-> IF w \in dead THEN "failed" ELSE call[w]]
    /\ writeLock' = IF writeLock \in dead THEN Nobody ELSE writeLock
    /\ lock' = [lock EXCEPT ![p] = Nobody]
    /\ state' = [state EXCEPT ![p] = p]
    /\ objects' = [objects EXCEPT ![p] = records]
    /\ UNCHANGED <<setup, records, caller, buffer>>

-----------------------------------------------------------------------------

Init ==
    /\ setup \in Setups
    /\ records = {}
    /\ writeLock = Nobody
    /\ objects = [o \in Procs \cup Writes |-> {}]
    /\ state = [p \in Procs |-> p]
    /\ lock = [p \in Procs |-> Nobody]
    /\ caller = [w \in Writes |-> Nobody]
    /\ call = [w \in Writes |-> "new"]
    /\ buffer = [w \in Writes |-> {}]

CoroutineStep(w) == Edit(w) \/ EditRaises(w) \/ Return(w) \/ ReturnError(w) \/ Cancel(w)

ThreadStep(w) ==
    \/ Load(w) \/ Serialize(w) \/ Replace(w) \/ Upsert(w) \/ LockRow(w) \/ CommitRow(w)
    \/ RollBack(w) \/ RaiseAfterCommit(w)

Next ==
    \/ \E p \in Procs, w \in Writes : Begin(p, w) \/ BeginSave(p, w)
    \/ \E w \in Writes : CoroutineStep(w) \/ ThreadStep(w)
    \/ \E p \in Procs : Restart(p)

Spec == Init /\ [][Next]_vars

-----------------------------------------------------------------------------
(* Properties.                                                             *)

TypeOK ==
    /\ setup \in Setups
    /\ records \subseteq Writes
    /\ writeLock \in Writes \cup {Nobody}
    /\ objects \in [Procs \cup Writes -> SUBSET Writes]
    /\ state \in [Procs -> Procs \cup Writes]
    /\ lock \in [Procs -> Writes \cup {Nobody}]
    /\ caller \in [Writes -> Procs \cup {Nobody}]
    /\ call \in [Writes -> Places]
    /\ buffer \in [Writes -> SUBSET Writes]

\* The setups in which mutate is safe: nobody makes it, or one process makes all
\* the calls and lets each of them end.
Alone(s) == ~s.cancels /\ \A p, q \in Procs : s.calls[p] # {} /\ s.calls[q] # {} => p = q
Careful(s) == (\A p \in Procs : s.calls[p] \cap Whole = {}) \/ Alone(s)

\* Every write takes effect at once on top of the others, and stays when its
\* call has returned, through rollbacks, failing commits and restarts.
Contract == INSTANCE StoreContract WITH returned <- {w \in Writes : At(w, "returned")}
KeepsStoreContract == Contract!Spec

\* The only writer's cache and the table differ by nothing but writes whose call
\* failed, whenever no call is in progress: its reads miss no write that returned.
CacheFollowsTable ==
    Alone(setup) =>
        \A p \in Procs : setup.calls[p] # {} /\ lock[p] = Nobody =>
            \A w \in Writes : (w \in Cache(p) <=> w \in records) \/ At(w, "failed")

\* No commit takes back what another write has committed: writers of several
\* processes cannot race the same state snapshot (store.py:16-18).
CommittedStays == [][records \subseteq records']_records
=============================================================================
