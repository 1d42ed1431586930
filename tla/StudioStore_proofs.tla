-------------------------- MODULE StudioStore_proofs --------------------------
(***************************************************************************)
(* Proofs about StudioStore: types, what the locks exclude, and that the   *)
(* store keeps its contract in every setup in which mutate is safe.        *)
(***************************************************************************)
EXTENDS StudioStore, TLAPS

\* A write past "new" was called by a process that may call it, and a process
\* that holds its asyncio lock does so for one of its own unfinished calls.
Made == \A w \in Writes : ~At(w, "new") => caller[w] \in Procs /\ w \in setup.calls[caller[w]]
Held == \A p \in Procs : lock[p] # Nobody => caller[lock[p]] = p /\ call[lock[p]] \in Unfinished

\* Without cancellation every unfinished call still holds the lock.
Waited == ~setup.cancels => \A w \in Writes : call[w] \in Unfinished => Awaited(w)

Kinds ==
    \A w \in Writes :
        /\ call[w] \in {"loaded", "edited"} => w \in Whole
        /\ At(w, "locked") => w \in Row
        /\ At(w, "begun") => w \notin Saves
        /\ At(w, "writing") => w \notin Row

\* What a transaction read under the advisory lock is still so.
Locked ==
    \A w \in Writes :
        /\ At(w, "locked") <=> writeLock = w
        /\ At(w, "locked") => buffer[w] = records \cap SameRecord(w)

\* What a mutate loaded is still so, although it holds no database lock.
Snapshots ==
    \A w \in Whole :
        /\ At(w, "loaded") => buffer[w] = records
        /\ At(w, "edited") => objects[w] = records \cup {w}
        /\ At(w, "writing") => buffer[w] = records \cup {w}

Saved == \A w \in Saves : At(w, "writing") => buffer[w] = {w}
Seen  == \A w \in Writes : call[w] \in {"committed", "returned"} => w \in records

Inv ==
    /\ TypeOK /\ Made /\ Held /\ Waited /\ Kinds
    /\ Locked /\ Saved
    /\ Careful(setup) => Snapshots /\ Seen

\* A setup that makes a mutate and is careful is one process.
LEMMA MutateIsAlone ==
    ASSUME Inv, Careful(setup), NEW w \in Whole, ~At(w, "new")
    PROVE  Alone(setup)
BY StoreAssumption DEF Inv, Made, TypeOK, Careful

\* ... and in such a setup no two calls are unfinished at once.
LEMMA OnlyOne ==
    ASSUME Inv, Alone(setup), NEW v \in Writes, NEW w \in Writes,
           call[v] \in Unfinished, call[w] \in Unfinished
    PROVE  v = w
<1>1. ~At(v, "new") /\ ~At(w, "new")
    BY DEF At, Unfinished
<1>2. /\ caller[v] \in Procs /\ v \in setup.calls[caller[v]]
      /\ caller[w] \in Procs /\ w \in setup.calls[caller[w]]
    BY <1>1 DEF Inv, Made
<1>3. caller[v] = caller[w]
    BY <1>2 DEF Alone
<1>4. Awaited(v) /\ Awaited(w)
    BY DEF Inv, Waited, Alone
<1> QED BY <1>3, <1>4 DEF Awaited

\* No call begins while another is unfinished.
LEMMA NoneBegins ==
    ASSUME Inv, Alone(setup), NEW p \in Procs, NEW v \in Writes, NEW w \in Writes,
           Acquire(p, v), call[w] \in Unfinished
    PROVE  FALSE
<1>1. caller[w] \in Procs /\ w \in setup.calls[caller[w]]
    BY DEF Inv, Made, At, Unfinished
<1>2. v \in setup.calls[p] /\ lock[p] = Nobody
    BY DEF Acquire
<1>3. caller[w] = p
    BY <1>1, <1>2 DEF Alone
<1>4. Awaited(w)
    BY DEF Inv, Waited, Alone
<1> QED BY <1>2, <1>3, <1>4, StoreAssumption DEF Awaited

LEMMA InitInv == Init => Inv
<1> SUFFICES ASSUME Init PROVE Inv OBVIOUS
<1> USE StoreAssumption DEF Init
<1>1. TypeOK BY DEF TypeOK, Places
<1>2. Made /\ Held /\ Waited /\ Kinds BY DEF Made, Held, Waited, Kinds, At, Unfinished
<1>3. Locked /\ Saved /\ Seen /\ Snapshots
    BY DEF Locked, Saved, Seen, Snapshots, At
<1> QED BY <1>1, <1>2, <1>3 DEF Inv

LEMMA BeginInv ==
    ASSUME Inv, NEW p \in Procs, NEW w \in Writes, Begin(p, w) PROVE Inv'
<1> USE StoreAssumption DEF Begin, Acquire, At, Goes
<1>1. TypeOK'
    BY DEF Inv, TypeOK, Places
<1>2. Made' /\ Held'
    BY DEF Inv, TypeOK, Made, Held, Awaited, Unfinished
<1>3. Waited'
  <2> SUFFICES ASSUME ~setup.cancels, NEW v \in Writes, call'[v] \in Unfinished
               PROVE  Awaited(v)'
    BY DEF Waited
  <2>1. CASE v = w
    BY <2>1 DEF Inv, TypeOK, Awaited
  <2>2. CASE v # w
    BY <2>2 DEF Inv, TypeOK, Waited, Awaited, Unfinished
  <2> QED BY <2>1, <2>2
<1>4. Kinds'
    BY DEF Inv, TypeOK, Kinds, Row
<1>5. Locked'
    BY DEF Inv, TypeOK, Kinds, Locked, Row, SameRecord, Unfinished
<1>6. Saved'
    BY DEF Inv, TypeOK, Saved
<1>7. ASSUME Careful(setup) PROVE Snapshots'
    BY <1>7 DEF Inv, TypeOK, Snapshots, Unfinished
<1>8. ASSUME Careful(setup) PROVE Seen'
    BY <1>8 DEF Inv, TypeOK, Kinds, Locked, Saved, Snapshots, Seen, Row, SameRecord, Unfinished
<1> QED BY <1>1, <1>2, <1>3, <1>4, <1>5, <1>6, <1>7, <1>8 DEF Inv, Careful, Alone

LEMMA BeginSaveInv ==
    ASSUME Inv, NEW p \in Procs, NEW w \in Writes, BeginSave(p, w) PROVE Inv'
<1> USE StoreAssumption DEF BeginSave, Acquire, Assign, At, Goes
<1>1. TypeOK'
    BY DEF Inv, TypeOK, Places
<1>2. Made' /\ Held'
    BY DEF Inv, TypeOK, Made, Held, Awaited, Unfinished
<1>3. Waited'
  <2> SUFFICES ASSUME ~setup.cancels, NEW v \in Writes, call'[v] \in Unfinished
               PROVE  Awaited(v)'
    BY DEF Waited
  <2>1. CASE v = w
    BY <2>1 DEF Inv, TypeOK, Awaited
  <2>2. CASE v # w
    BY <2>2 DEF Inv, TypeOK, Waited, Awaited, Unfinished
  <2> QED BY <2>1, <2>2
<1>4. Kinds'
    BY DEF Inv, TypeOK, Kinds, Row
<1>5. Locked'
    BY DEF Inv, TypeOK, Kinds, Locked, Row, SameRecord, Unfinished
<1>6. Saved'
    BY DEF Inv, TypeOK, Saved
<1>7. ASSUME Careful(setup) PROVE Snapshots'
  <2>1. SUFFICES ASSUME NEW v \in Whole, call[v] \in Unfinished
                 PROVE  FALSE
    BY <1>7 DEF Inv, TypeOK, Snapshots, Unfinished
  <2>2. ~At(v, "new")
    BY <2>1 DEF Unfinished
  <2> QED BY <1>7, <2>1, <2>2, MutateIsAlone, NoneBegins
<1>8. ASSUME Careful(setup) PROVE Seen'
    BY <1>8 DEF Inv, TypeOK, Kinds, Locked, Saved, Snapshots, Seen, Row, SameRecord, Unfinished
<1> QED BY <1>1, <1>2, <1>3, <1>4, <1>5, <1>6, <1>7, <1>8 DEF Inv, Careful, Alone

LEMMA EditInv ==
    ASSUME Inv, NEW w \in Writes, Edit(w) PROVE Inv'
<1> USE StoreAssumption DEF Edit, At, Goes
<1>1. TypeOK'
    BY DEF Inv, TypeOK, Places
<1>2. Made' /\ Held'
    BY DEF Inv, TypeOK, Made, Held, Awaited, Unfinished
<1>3. Waited'
    BY DEF Inv, TypeOK, Waited, Held, Awaited, Unfinished
<1>4. Kinds'
    BY DEF Inv, TypeOK, Kinds, Row
<1>5. Locked'
    BY DEF Inv, TypeOK, Kinds, Locked, Row, SameRecord, Unfinished
<1>6. Saved'
    BY DEF Inv, TypeOK, Saved
<1>7. ASSUME Careful(setup) PROVE Snapshots'
    BY <1>7 DEF Inv, TypeOK, Snapshots, Unfinished
<1>8. ASSUME Careful(setup) PROVE Seen'
    BY <1>8 DEF Inv, TypeOK, Kinds, Locked, Saved, Snapshots, Seen, Row, SameRecord, Unfinished
<1> QED BY <1>1, <1>2, <1>3, <1>4, <1>5, <1>6, <1>7, <1>8 DEF Inv, Careful, Alone

LEMMA EditRaisesInv ==
    ASSUME Inv, NEW w \in Writes, EditRaises(w) PROVE Inv'
<1> USE StoreAssumption DEF EditRaises, At, Goes
<1>1. TypeOK'
  <2>1. objects' \in [Procs \cup Writes -> SUBSET Writes]
    BY DEF Inv, TypeOK
  <2>2. state' \in [Procs -> Procs \cup Writes]
    BY DEF Inv, TypeOK, Awaited
  <2> QED BY <2>1, <2>2 DEF Inv, TypeOK, Places
<1>2. Made' /\ Held'
    BY DEF Inv, TypeOK, Made, Held, Awaited, Unfinished
<1>3. Waited'
    BY DEF Inv, TypeOK, Waited, Held, Awaited, Unfinished
<1>4. Kinds'
    BY DEF Inv, TypeOK, Kinds, Row
<1>5. Locked'
    BY DEF Inv, TypeOK, Kinds, Locked, Row, SameRecord, Unfinished
<1>6. Saved'
    BY DEF Inv, TypeOK, Saved
<1>7. ASSUME Careful(setup) PROVE Snapshots'
    BY <1>7 DEF Inv, TypeOK, Snapshots, Unfinished
<1>8. ASSUME Careful(setup) PROVE Seen'
    BY <1>8 DEF Inv, TypeOK, Kinds, Locked, Saved, Snapshots, Seen, Row, SameRecord, Unfinished
<1> QED BY <1>1, <1>2, <1>3, <1>4, <1>5, <1>6, <1>7, <1>8 DEF Inv, Careful, Alone

LEMMA ReturnInv ==
    ASSUME Inv, NEW w \in Writes, Return(w) PROVE Inv'
<1> USE StoreAssumption DEF Return, Assign, Cache, At, Goes
<1>1. TypeOK'
  <2>1. objects' \in [Procs \cup Writes -> SUBSET Writes]
    BY DEF Inv, TypeOK
  <2>2. lock' \in [Procs -> Writes \cup {Nobody}]
    BY DEF Inv, TypeOK, Awaited
  <2> QED BY <2>1, <2>2 DEF Inv, TypeOK, Places
<1>2. Made' /\ Held'
    BY DEF Inv, TypeOK, Made, Held, Awaited, Unfinished
<1>3. Waited'
    BY DEF Inv, TypeOK, Waited, Held, Awaited, Unfinished
<1>4. Kinds'
    BY DEF Inv, TypeOK, Kinds, Row
<1>5. Locked'
    BY DEF Inv, TypeOK, Kinds, Locked, Row, SameRecord, Unfinished
<1>6. Saved'
    BY DEF Inv, TypeOK, Saved
<1>7. ASSUME Careful(setup) PROVE Snapshots'
  <2>1. SUFFICES ASSUME NEW v \in Whole, call[v] \in Unfinished
                 PROVE  v = w
    BY <1>7 DEF Inv, TypeOK, Kinds, Snapshots, Unfinished, Row
  <2>2. ~At(v, "new") /\ call[w] \in Unfinished
    BY <2>1 DEF Unfinished
  <2> QED BY <1>7, <2>1, <2>2, MutateIsAlone, OnlyOne
<1>8. ASSUME Careful(setup) PROVE Seen'
    BY <1>8 DEF Inv, TypeOK, Kinds, Locked, Saved, Snapshots, Seen, Row, SameRecord, Unfinished
<1> QED BY <1>1, <1>2, <1>3, <1>4, <1>5, <1>6, <1>7, <1>8 DEF Inv, Careful, Alone

LEMMA ReturnErrorInv ==
    ASSUME Inv, NEW w \in Writes, ReturnError(w) PROVE Inv'
<1> USE StoreAssumption DEF ReturnError, At, Goes
<1>1. TypeOK'
    BY DEF Inv, TypeOK, Places
<1>2. Made' /\ Held'
    BY DEF Inv, TypeOK, Made, Held, Awaited, Unfinished
<1>3. Waited'
    BY DEF Inv, TypeOK, Waited, Held, Awaited, Unfinished
<1>4. Kinds'
    BY DEF Inv, TypeOK, Kinds, Row
<1>5. Locked'
    BY DEF Inv, TypeOK, Kinds, Locked, Row, SameRecord, Unfinished
<1>6. Saved'
    BY DEF Inv, TypeOK, Saved
<1>7. ASSUME Careful(setup) PROVE Snapshots'
    BY <1>7 DEF Inv, TypeOK, Snapshots, Unfinished
<1>8. ASSUME Careful(setup) PROVE Seen'
    BY <1>8 DEF Inv, TypeOK, Kinds, Locked, Saved, Snapshots, Seen, Row, SameRecord, Unfinished
<1> QED BY <1>1, <1>2, <1>3, <1>4, <1>5, <1>6, <1>7, <1>8 DEF Inv, Careful, Alone

LEMMA CancelInv ==
    ASSUME Inv, NEW w \in Writes, Cancel(w) PROVE Inv'
<1> USE StoreAssumption DEF Cancel, At, Goes
<1>1. TypeOK'
    BY DEF Inv, TypeOK, Places
<1>2. Made' /\ Held'
    BY DEF Inv, TypeOK, Made, Held, Awaited, Unfinished
<1>3. Waited'
    BY DEF Inv, TypeOK, Waited, Held, Awaited, Unfinished
<1>4. Kinds'
    BY DEF Inv, TypeOK, Kinds, Row
<1>5. Locked'
    BY DEF Inv, TypeOK, Kinds, Locked, Row, SameRecord, Unfinished
<1>6. Saved'
    BY DEF Inv, TypeOK, Saved
<1>7. ASSUME Careful(setup) PROVE Snapshots'
    BY <1>7 DEF Inv, TypeOK, Snapshots, Unfinished
<1>8. ASSUME Careful(setup) PROVE Seen'
    BY <1>8 DEF Inv, TypeOK, Kinds, Locked, Saved, Snapshots, Seen, Row, SameRecord, Unfinished
<1> QED BY <1>1, <1>2, <1>3, <1>4, <1>5, <1>6, <1>7, <1>8 DEF Inv, Careful, Alone

LEMMA LoadInv ==
    ASSUME Inv, NEW w \in Writes, Load(w) PROVE Inv'
<1> USE StoreAssumption DEF Load, At, Goes
<1>1. TypeOK'
    BY DEF Inv, TypeOK, Places
<1>2. Made' /\ Held'
    BY DEF Inv, TypeOK, Made, Held, Awaited, Unfinished
<1>3. Waited'
    BY DEF Inv, TypeOK, Waited, Held, Awaited, Unfinished
<1>4. Kinds'
    BY DEF Inv, TypeOK, Kinds, Row
<1>5. Locked'
    BY DEF Inv, TypeOK, Kinds, Locked, Row, SameRecord, Unfinished
<1>6. Saved'
    BY DEF Inv, TypeOK, Saved
<1>7. ASSUME Careful(setup) PROVE Snapshots'
    BY <1>7 DEF Inv, TypeOK, Snapshots, Unfinished
<1>8. ASSUME Careful(setup) PROVE Seen'
    BY <1>8 DEF Inv, TypeOK, Kinds, Locked, Saved, Snapshots, Seen, Row, SameRecord, Unfinished
<1> QED BY <1>1, <1>2, <1>3, <1>4, <1>5, <1>6, <1>7, <1>8 DEF Inv, Careful, Alone

LEMMA SerializeInv ==
    ASSUME Inv, NEW w \in Writes, Serialize(w) PROVE Inv'
<1> USE StoreAssumption DEF Serialize, At, Goes
<1>1. TypeOK'
    BY DEF Inv, TypeOK, Places
<1>2. Made' /\ Held'
    BY DEF Inv, TypeOK, Made, Held, Awaited, Unfinished
<1>3. Waited'
    BY DEF Inv, TypeOK, Waited, Held, Awaited, Unfinished
<1>4. Kinds'
    BY DEF Inv, TypeOK, Kinds, Row
<1>5. Locked'
    BY DEF Inv, TypeOK, Kinds, Locked, Row, SameRecord, Unfinished
<1>6. Saved'
    BY DEF Inv, TypeOK, Kinds, Saved
<1>7. ASSUME Careful(setup) PROVE Snapshots'
    BY <1>7 DEF Inv, TypeOK, Snapshots, Unfinished
<1>8. ASSUME Careful(setup) PROVE Seen'
    BY <1>8 DEF Inv, TypeOK, Kinds, Locked, Saved, Snapshots, Seen, Row, SameRecord, Unfinished
<1> QED BY <1>1, <1>2, <1>3, <1>4, <1>5, <1>6, <1>7, <1>8 DEF Inv, Careful, Alone

LEMMA ReplaceInv ==
    ASSUME Inv, NEW w \in Writes, Replace(w) PROVE Inv'
<1> USE StoreAssumption DEF Replace, At, Goes
<1>1. TypeOK'
    BY DEF Inv, TypeOK, Places
<1>2. Made' /\ Held'
    BY DEF Inv, TypeOK, Made, Held, Awaited, Unfinished
<1>3. Waited'
    BY DEF Inv, TypeOK, Waited, Held, Awaited, Unfinished
<1>4. Kinds'
    BY DEF Inv, TypeOK, Kinds, Row
<1>5. Locked'
    BY DEF Inv, TypeOK, Kinds, Locked, Row, SameRecord, Unfinished
<1>6. Saved'
    BY DEF Inv, TypeOK, Saved
<1>7. ASSUME Careful(setup) PROVE Snapshots'
  <2>1. SUFFICES ASSUME NEW v \in Whole, call[v] \in Unfinished
                 PROVE  v = w
    BY <1>7 DEF Inv, TypeOK, Kinds, Snapshots, Unfinished, Row
  <2>2. ~At(v, "new") /\ call[w] \in Unfinished
    BY <2>1 DEF Unfinished
  <2> QED BY <1>7, <2>1, <2>2, MutateIsAlone, OnlyOne
<1>8. ASSUME Careful(setup) PROVE Seen'
    BY <1>8 DEF Inv, TypeOK, Kinds, Locked, Saved, Snapshots, Seen, Row, SameRecord, Unfinished
<1> QED BY <1>1, <1>2, <1>3, <1>4, <1>5, <1>6, <1>7, <1>8 DEF Inv, Careful, Alone

LEMMA UpsertInv ==
    ASSUME Inv, NEW w \in Writes, Upsert(w) PROVE Inv'
<1> USE StoreAssumption DEF Upsert, At, Goes
<1>1. TypeOK'
    BY DEF Inv, TypeOK, Places
<1>2. Made' /\ Held'
    BY DEF Inv, TypeOK, Made, Held, Awaited, Unfinished
<1>3. Waited'
    BY DEF Inv, TypeOK, Waited, Held, Awaited, Unfinished
<1>4. Kinds'
    BY DEF Inv, TypeOK, Kinds, Row
<1>5. Locked'
    BY DEF Inv, TypeOK, Kinds, Locked, Row, SameRecord, Unfinished
<1>6. Saved'
    BY DEF Inv, TypeOK, Saved
<1>7. ASSUME Careful(setup) PROVE Snapshots'
  <2>1. SUFFICES ASSUME NEW v \in Whole, call[v] \in Unfinished
                 PROVE  v = w
    BY <1>7 DEF Inv, TypeOK, Kinds, Snapshots, Unfinished, Row
  <2>2. ~At(v, "new") /\ call[w] \in Unfinished
    BY <2>1 DEF Unfinished
  <2> QED BY <1>7, <2>1, <2>2, MutateIsAlone, OnlyOne
<1>8. ASSUME Careful(setup) PROVE Seen'
    BY <1>8 DEF Inv, TypeOK, Kinds, Locked, Saved, Snapshots, Seen, Row, SameRecord, Unfinished
<1> QED BY <1>1, <1>2, <1>3, <1>4, <1>5, <1>6, <1>7, <1>8 DEF Inv, Careful, Alone

LEMMA LockRowInv ==
    ASSUME Inv, NEW w \in Writes, LockRow(w) PROVE Inv'
<1> USE StoreAssumption DEF LockRow, At, Goes
<1>1. TypeOK'
    BY DEF Inv, TypeOK, Places
<1>2. Made' /\ Held'
    BY DEF Inv, TypeOK, Made, Held, Awaited, Unfinished
<1>3. Waited'
    BY DEF Inv, TypeOK, Waited, Held, Awaited, Unfinished
<1>4. Kinds'
    BY DEF Inv, TypeOK, Kinds, Row
<1>5. Locked'
    BY DEF Inv, TypeOK, Kinds, Locked, Row, SameRecord, Unfinished
<1>6. Saved'
    BY DEF Inv, TypeOK, Saved
<1>7. ASSUME Careful(setup) PROVE Snapshots'
    BY <1>7 DEF Inv, TypeOK, Snapshots, Unfinished
<1>8. ASSUME Careful(setup) PROVE Seen'
    BY <1>8 DEF Inv, TypeOK, Kinds, Locked, Saved, Snapshots, Seen, Row, SameRecord, Unfinished
<1> QED BY <1>1, <1>2, <1>3, <1>4, <1>5, <1>6, <1>7, <1>8 DEF Inv, Careful, Alone

LEMMA CommitRowInv ==
    ASSUME Inv, NEW w \in Writes, CommitRow(w) PROVE Inv'
<1> USE StoreAssumption DEF CommitRow, At, Goes
<1>1. TypeOK'
    BY DEF Inv, TypeOK, Places
<1>2. Made' /\ Held'
    BY DEF Inv, TypeOK, Made, Held, Awaited, Unfinished
<1>3. Waited'
    BY DEF Inv, TypeOK, Waited, Held, Awaited, Unfinished
<1>4. Kinds'
    BY DEF Inv, TypeOK, Kinds, Row
<1>5. Locked'
    BY DEF Inv, TypeOK, Kinds, Locked, Row, SameRecord, Unfinished
<1>6. Saved'
    BY DEF Inv, TypeOK, Saved
<1>7. ASSUME Careful(setup) PROVE Snapshots'
  <2>1. SUFFICES ASSUME NEW v \in Whole, call[v] \in Unfinished
                 PROVE  v = w
    BY <1>7 DEF Inv, TypeOK, Kinds, Snapshots, Unfinished, Row
  <2>2. ~At(v, "new") /\ call[w] \in Unfinished
    BY <2>1 DEF Unfinished
  <2> QED BY <1>7, <2>1, <2>2, MutateIsAlone, OnlyOne
<1>8. ASSUME Careful(setup) PROVE Seen'
    BY <1>8 DEF Inv, TypeOK, Kinds, Locked, Saved, Snapshots, Seen, Row, SameRecord, Unfinished
<1> QED BY <1>1, <1>2, <1>3, <1>4, <1>5, <1>6, <1>7, <1>8 DEF Inv, Careful, Alone

LEMMA RollBackInv ==
    ASSUME Inv, NEW w \in Writes, RollBack(w) PROVE Inv'
<1> USE StoreAssumption DEF RollBack, At, Goes
<1>1. TypeOK'
    BY DEF Inv, TypeOK, Places
<1>2. Made' /\ Held'
    BY DEF Inv, TypeOK, Made, Held, Awaited, Unfinished
<1>3. Waited'
    BY DEF Inv, TypeOK, Waited, Held, Awaited, Unfinished
<1>4. Kinds'
    BY DEF Inv, TypeOK, Kinds, Row
<1>5. Locked'
    BY DEF Inv, TypeOK, Kinds, Locked, Row, SameRecord, Unfinished
<1>6. Saved'
    BY DEF Inv, TypeOK, Saved
<1>7. ASSUME Careful(setup) PROVE Snapshots'
    BY <1>7 DEF Inv, TypeOK, Snapshots, Unfinished
<1>8. ASSUME Careful(setup) PROVE Seen'
    BY <1>8 DEF Inv, TypeOK, Kinds, Locked, Saved, Snapshots, Seen, Row, SameRecord, Unfinished
<1> QED BY <1>1, <1>2, <1>3, <1>4, <1>5, <1>6, <1>7, <1>8 DEF Inv, Careful, Alone

LEMMA RaiseAfterCommitInv ==
    ASSUME Inv, NEW w \in Writes, RaiseAfterCommit(w) PROVE Inv'
<1> USE StoreAssumption DEF RaiseAfterCommit, At, Goes
<1>1. TypeOK'
    BY DEF Inv, TypeOK, Places
<1>2. Made' /\ Held'
    BY DEF Inv, TypeOK, Made, Held, Awaited, Unfinished
<1>3. Waited'
    BY DEF Inv, TypeOK, Waited, Held, Awaited, Unfinished
<1>4. Kinds'
    BY DEF Inv, TypeOK, Kinds, Row
<1>5. Locked'
    BY DEF Inv, TypeOK, Kinds, Locked, Row, SameRecord, Unfinished
<1>6. Saved'
    BY DEF Inv, TypeOK, Saved
<1>7. ASSUME Careful(setup) PROVE Snapshots'
    BY <1>7 DEF Inv, TypeOK, Snapshots, Unfinished
<1>8. ASSUME Careful(setup) PROVE Seen'
    BY <1>8 DEF Inv, TypeOK, Kinds, Locked, Saved, Snapshots, Seen, Row, SameRecord, Unfinished
<1> QED BY <1>1, <1>2, <1>3, <1>4, <1>5, <1>6, <1>7, <1>8 DEF Inv, Careful, Alone

LEMMA RestartInv ==
    ASSUME Inv, NEW p \in Procs, Restart(p) PROVE Inv'
<1> USE StoreAssumption DEF Restart, At, Goes
<1>1. TypeOK'
    BY DEF Inv, TypeOK, Places
<1>2. Made' /\ Held'
    BY DEF Inv, TypeOK, Made, Held, Awaited, Unfinished
<1>3. Waited'
    BY DEF Inv, TypeOK, Waited, Held, Awaited, Unfinished
<1>4. Kinds'
    BY DEF Inv, TypeOK, Kinds, Row
<1>5. Locked'
    BY DEF Inv, TypeOK, Kinds, Locked, Row, SameRecord, Unfinished
<1>6. Saved'
    BY DEF Inv, TypeOK, Saved
<1>7. ASSUME Careful(setup) PROVE Snapshots'
    BY <1>7 DEF Inv, TypeOK, Snapshots, Unfinished
<1>8. ASSUME Careful(setup) PROVE Seen'
    BY <1>8 DEF Inv, TypeOK, Kinds, Locked, Saved, Snapshots, Seen, Row, SameRecord, Unfinished
<1> QED BY <1>1, <1>2, <1>3, <1>4, <1>5, <1>6, <1>7, <1>8 DEF Inv, Careful, Alone
-----------------------------------------------------------------------------

LEMMA NextInv == Inv /\ [Next]_vars => Inv'
<1> SUFFICES ASSUME Inv, [Next]_vars PROVE Inv' OBVIOUS
<1>1. ASSUME NEW p \in Procs, NEW w \in Writes, Begin(p, w) \/ BeginSave(p, w) PROVE Inv'
    BY <1>1, BeginInv, BeginSaveInv
<1>2. ASSUME NEW w \in Writes, CoroutineStep(w) PROVE Inv'
    BY <1>2, EditInv, EditRaisesInv, ReturnInv, ReturnErrorInv, CancelInv DEF CoroutineStep
<1>3. ASSUME NEW w \in Writes, ThreadStep(w) PROVE Inv'
    BY <1>3, LoadInv, SerializeInv, ReplaceInv, UpsertInv, LockRowInv, CommitRowInv,
       RollBackInv, RaiseAfterCommitInv DEF ThreadStep
<1>4. ASSUME NEW p \in Procs, Restart(p) PROVE Inv'
    BY <1>4, RestartInv
<1>5. CASE UNCHANGED vars
    BY <1>5 DEF vars, Inv, TypeOK, Made, Held, Waited, Kinds, Locked, Saved, Snapshots, Seen,
                At, Awaited, Careful, Alone
<1> QED BY <1>1, <1>2, <1>3, <1>4, <1>5 DEF Next

LEMMA SpecInv == Spec => []Inv
BY InitInv, NextInv, PTL DEF Spec

\* Every variable keeps its type.
THEOREM StoreTypeCorrect == Spec => []TypeOK
<1>1. Inv => TypeOK BY DEF Inv
<1> QED BY <1>1, SpecInv, PTL

\* A transaction adds its own write and nothing else to the table.
Commits(w) == Replace(w) \/ Upsert(w) \/ CommitRow(w)

LEMMA CommitAdds ==
    ASSUME Inv, Careful(setup), NEW w \in Writes, Commits(w)
    PROVE  records' = records \cup {w}
<1>1. CASE Replace(w)
    BY <1>1 DEF Replace, Inv, Snapshots
<1>2. CASE Upsert(w)
    BY <1>2, StoreAssumption DEF Upsert, Inv, Saved
<1>3. CASE CommitRow(w)
  <2>1. records' = (records \ SameRecord(w)) \cup (records \cap SameRecord(w)) \cup {w}
    BY <1>3 DEF CommitRow, Goes, Inv, TypeOK, Locked
  <2> QED BY <2>1
<1> QED BY <1>1, <1>2, <1>3 DEF Commits

\* What each action is to the contract.
LEMMA StepKeepsContract ==
    ASSUME Inv, Careful(setup), [Next]_vars
    PROVE  [Contract!Next]_(Contract!vars)
<1> DEFINE Done == {w \in Writes : At(w, "returned")}
<1> SUFFICES \/ UNCHANGED <<records, Done>>
             \/ \E w \in Writes : \/ records' = records \cup {w} /\ Done' = Done
                                  \/ w \in records /\ Done' = Done \cup {w} /\ records' = records
    BY DEF Contract!Next, Contract!vars, Contract!Commit, Contract!Return
<1> USE StoreAssumption DEF At, Goes
<1>1. ASSUME NEW p \in Procs, NEW w \in Writes, Begin(p, w) \/ BeginSave(p, w)
      PROVE  UNCHANGED <<records, Done>>
    BY <1>1 DEF Begin, BeginSave, Acquire, Inv, TypeOK
<1>2. ASSUME NEW w \in Writes, Edit(w) \/ EditRaises(w) \/ ReturnError(w) \/ Cancel(w)
      PROVE  UNCHANGED <<records, Done>>
    BY <1>2 DEF Edit, EditRaises, ReturnError, Cancel, Inv, TypeOK
<1>3. ASSUME NEW w \in Writes, Return(w)
      PROVE  w \in records /\ Done' = Done \cup {w} /\ records' = records
    BY <1>3 DEF Return, Inv, TypeOK, Seen
<1>4. ASSUME NEW w \in Writes, Load(w) \/ Serialize(w) \/ LockRow(w) \/ RollBack(w) \/ RaiseAfterCommit(w)
      PROVE  UNCHANGED <<records, Done>>
    BY <1>4 DEF Load, Serialize, LockRow, RollBack, RaiseAfterCommit, Inv, TypeOK
<1>5. ASSUME NEW w \in Writes, Commits(w) PROVE records' = records \cup {w} /\ Done' = Done
  <2>1. Done' = Done
    BY <1>5 DEF Commits, Replace, Upsert, CommitRow, Inv, TypeOK
  <2> QED BY <1>5, <2>1, CommitAdds
<1>6. ASSUME NEW p \in Procs, Restart(p) PROVE UNCHANGED <<records, Done>>
    BY <1>6 DEF Restart, Inv, TypeOK, Unfinished
<1>7. CASE UNCHANGED vars
    BY <1>7 DEF vars
<1> QED BY <1>1, <1>2, <1>3, <1>4, <1>5, <1>6, <1>7 DEF Next, CoroutineStep, ThreadStep, Commits

\* When every setup is careful, the store keeps its contract: writes take effect
\* one at a time on top of each other and stay.
THEOREM StoreKeepsContract ==
    ASSUME \A s \in Setups : Careful(s)
    PROVE  Spec => KeepsStoreContract
<1>1. Init => Contract!Init
    BY DEF Init, Contract!Init, At
<1>2. Inv /\ [Next]_vars => [Contract!Next]_(Contract!vars)
    BY StepKeepsContract DEF Inv, TypeOK
<1> QED BY <1>1, <1>2, SpecInv, PTL DEF Spec, KeepsStoreContract, Contract!Spec

\* When every setup is careful, no commit takes back what another write has
\* committed (_replace_rows_sync rewrites the table it loaded).
THEOREM CarefulCommitsStay ==
    ASSUME \A s \in Setups : Careful(s)
    PROVE  Spec => CommittedStays
<1>1. Inv /\ [Next]_vars => [records \subseteq records']_records
  <2> SUFFICES ASSUME Inv, [Next]_vars PROVE [records \subseteq records']_records OBVIOUS
  <2>1. [Contract!Next]_(Contract!vars)
    BY StepKeepsContract DEF Inv, TypeOK
  <2> QED BY <2>1 DEF Contract!Next, Contract!vars, Contract!Commit, Contract!Return
<1> QED BY <1>1, SpecInv, PTL DEF Spec, CommittedStays

-----------------------------------------------------------------------------
(* The cache of the only writer.                                           *)

\* A process uses the object it started with or one that a mutate loaded.
Homes == \A p \in Procs : state[p] \in {p} \cup Writes

\* What a call has put into the cache is there until the call ends, ...
Edits ==
    \A w \in Writes :
        /\ w \in Whole /\ call[w] \in {"edited", "writing", "committed"}
              => state[caller[w]] = w /\ w \in objects[w]
        /\ w \in Saves /\ call[w] \in {"writing", "committed"} => w \in Cache(caller[w])
        /\ w \in Row /\ At(w, "committed") => buffer[w] = records \cap SameRecord(w)

\* ... and but for it and the failed ones cache and table are the same.
Near ==
    \A p \in Procs : setup.calls[p] # {} =>
        \A w \in Writes : (w \in Cache(p) <=> w \in records) \/ At(w, "failed") \/ lock[p] = w

CacheInv == Homes /\ (Alone(setup) => Edits /\ Near)

LEMMA InitCache == Init => CacheInv
BY StoreAssumption DEF Init, CacheInv, Homes, Edits, Near, Cache, At

\* Who makes calls at all is the caller of every unfinished one and holds its lock.
LEMMA OnlyCaller ==
    ASSUME Inv, Alone(setup), NEW p \in Procs, setup.calls[p] # {},
           NEW w \in Writes, call[w] \in Unfinished
    PROVE  caller[w] = p /\ lock[p] = w
<1>1. caller[w] \in Procs /\ w \in setup.calls[caller[w]]
    BY DEF Inv, Made, At, Unfinished
<1>2. caller[w] = p
    BY <1>1 DEF Alone
<1> QED BY <1>2 DEF Inv, Waited, Alone, Awaited

LEMMA BeginKeepsCache ==
    ASSUME Inv, CacheInv, NEW p \in Procs, NEW w \in Writes, Begin(p, w) PROVE CacheInv'
<1> USE StoreAssumption DEF Begin, Acquire, At, Goes
<1>1. Homes'
    BY DEF Inv, TypeOK, CacheInv, Homes, Awaited
<1>2. ASSUME Alone(setup) PROVE Edits'
    BY <1>2, OnlyOne DEF Inv, TypeOK, Kinds, CacheInv, Homes, Edits, Near, Cache, Awaited, Row, Unfinished
<1>3. ASSUME Alone(setup) PROVE Near'
    BY <1>3, OnlyOne DEF Inv, TypeOK, Made, CacheInv, Homes, Edits, Near, Cache, Awaited, Alone, Unfinished
<1> QED BY <1>1, <1>2, <1>3 DEF CacheInv, Alone

LEMMA BeginSaveKeepsCache ==
    ASSUME Inv, CacheInv, NEW p \in Procs, NEW w \in Writes, BeginSave(p, w) PROVE CacheInv'
<1> USE StoreAssumption DEF BeginSave, Acquire, Assign, At, Goes
<1>1. Homes'
    BY DEF Inv, TypeOK, CacheInv, Homes, Awaited
<1>2. ASSUME Alone(setup) PROVE Edits'
    BY <1>2, OnlyOne DEF Inv, TypeOK, Kinds, CacheInv, Homes, Edits, Near, Cache, Awaited, Row, Unfinished
<1>3. ASSUME Alone(setup) PROVE Near'
    BY <1>3, OnlyOne DEF Inv, TypeOK, Made, CacheInv, Homes, Edits, Near, Cache, Awaited, Alone, Unfinished
<1> QED BY <1>1, <1>2, <1>3 DEF CacheInv, Alone

LEMMA EditKeepsCache ==
    ASSUME Inv, CacheInv, NEW w \in Writes, Edit(w) PROVE CacheInv'
<1> USE StoreAssumption DEF Edit, At, Goes
<1>1. Homes'
    BY DEF Inv, TypeOK, CacheInv, Homes, Awaited
<1>2. ASSUME Alone(setup) PROVE Edits'
    BY <1>2, OnlyOne DEF Inv, TypeOK, Kinds, CacheInv, Homes, Edits, Near, Cache, Awaited, Row, Unfinished
<1>3. ASSUME Alone(setup) PROVE Near'
  <2>1. buffer[w] = records
    BY <1>3 DEF Inv, Kinds, Snapshots, Careful
  <2>2. \A p \in Procs : setup.calls[p] # {} => caller[w] = p /\ lock[p] = w
    BY <1>3, OnlyCaller DEF Unfinished
  <2>3. \A p \in Procs : setup.calls[p] # {} =>
            \A v \in Writes \ {w} : v \in Cache(p)' <=> v \in records
    BY <2>1, <2>2 DEF Inv, TypeOK, Cache
  <2>4. UNCHANGED <<setup, lock, records>>
    OBVIOUS
  <2> QED BY <2>2, <2>3, <2>4 DEF Near
<1> QED BY <1>1, <1>2, <1>3 DEF CacheInv, Alone

LEMMA EditRaisesKeepsCache ==
    ASSUME Inv, CacheInv, NEW w \in Writes, EditRaises(w) PROVE CacheInv'
<1> USE StoreAssumption DEF EditRaises, At, Goes
<1>1. Homes'
    BY DEF Inv, TypeOK, CacheInv, Homes, Awaited
<1>2. ASSUME Alone(setup) PROVE Edits'
    BY <1>2, OnlyOne DEF Inv, TypeOK, Kinds, CacheInv, Homes, Edits, Near, Cache, Awaited, Row, Unfinished
<1>3. ASSUME Alone(setup) PROVE Near'
  <2>1. buffer[w] = records
    BY <1>3 DEF Inv, Kinds, Snapshots, Careful
  <2>2. \A p \in Procs : setup.calls[p] # {} => caller[w] = p /\ lock[p] = w
    BY <1>3, OnlyCaller DEF Unfinished
  <2>3. \A p \in Procs : setup.calls[p] # {} =>
            \A v \in Writes \ {w} : v \in Cache(p)' <=> v \in records
    BY <2>1, <2>2 DEF Inv, TypeOK, Cache
  <2>4. UNCHANGED <<setup, lock, records>>
    OBVIOUS
  <2> QED BY <2>2, <2>3, <2>4 DEF Near
<1> QED BY <1>1, <1>2, <1>3 DEF CacheInv, Alone

LEMMA ReturnKeepsCache ==
    ASSUME Inv, CacheInv, NEW w \in Writes, Return(w) PROVE CacheInv'
<1> USE StoreAssumption DEF Return, Assign, At, Goes
<1>1. Homes'
    BY DEF Inv, TypeOK, CacheInv, Homes, Awaited
<1>2. ASSUME Alone(setup) PROVE Edits'
    BY <1>2, OnlyOne DEF Inv, TypeOK, Kinds, CacheInv, Homes, Edits, Near, Cache, Awaited, Row, Unfinished
<1>3. ASSUME Alone(setup) PROVE Near'
  <2> SUFFICES ASSUME NEW p \in Procs, setup.calls[p] # {}, NEW v \in Writes, ~At(v, "failed")'
               PROVE  (v \in Cache(p))' <=> v \in records
    BY DEF Near
  <2>1. caller[w] = p /\ lock[p] = w
    BY <1>3, OnlyCaller DEF Unfinished
  <2>2. w \in records
    BY <1>3 DEF Inv, Seen, Careful
  <2>3. v # w => (v \in Cache(p) <=> v \in records)
    BY <1>3, <2>1 DEF Inv, TypeOK, CacheInv, Near
  <2>4. CASE w \in Row
    <3>1. Cache(p)' = (Cache(p) \ SameRecord(w)) \cup (records \cap SameRecord(w))
      BY <1>3, <2>1, <2>4 DEF Inv, TypeOK, CacheInv, Edits, Cache
    <3> QED BY <2>2, <2>3, <3>1 DEF SameRecord
  <2>5. CASE w \notin Row
    <3>1. Cache(p)' = Cache(p)
      BY <2>5 DEF Cache
    <3>2. w \in Cache(p)
      BY <1>3, <2>1, <2>5 DEF CacheInv, Edits, Cache, Row
    <3> QED BY <2>2, <2>3, <3>1, <3>2
  <2> QED BY <2>4, <2>5
<1> QED BY <1>1, <1>2, <1>3 DEF CacheInv, Alone

LEMMA ReturnErrorKeepsCache ==
    ASSUME Inv, CacheInv, NEW w \in Writes, ReturnError(w) PROVE CacheInv'
<1> USE StoreAssumption DEF ReturnError, At, Goes
<1>1. Homes'
    BY DEF Inv, TypeOK, CacheInv, Homes, Awaited
<1>2. ASSUME Alone(setup) PROVE Edits'
    BY <1>2, OnlyOne DEF Inv, TypeOK, Kinds, CacheInv, Homes, Edits, Near, Cache, Awaited, Row, Unfinished
<1>3. ASSUME Alone(setup) PROVE Near'
    BY <1>3, OnlyOne DEF Inv, TypeOK, Made, CacheInv, Homes, Edits, Near, Cache, Awaited, Alone, Unfinished
<1> QED BY <1>1, <1>2, <1>3 DEF CacheInv, Alone

LEMMA CancelKeepsCache ==
    ASSUME Inv, CacheInv, NEW w \in Writes, Cancel(w) PROVE CacheInv'
<1> USE StoreAssumption DEF Cancel, At, Goes
<1>1. Homes'
    BY DEF Inv, TypeOK, CacheInv, Homes, Awaited
<1>2. ASSUME Alone(setup) PROVE Edits'
    BY <1>2, OnlyOne DEF Inv, TypeOK, Kinds, CacheInv, Homes, Edits, Near, Cache, Awaited, Row, Unfinished
<1>3. ASSUME Alone(setup) PROVE Near'
    BY <1>3, OnlyOne DEF Inv, TypeOK, Made, CacheInv, Homes, Edits, Near, Cache, Awaited, Alone, Unfinished
<1> QED BY <1>1, <1>2, <1>3 DEF CacheInv, Alone

LEMMA LoadKeepsCache ==
    ASSUME Inv, CacheInv, NEW w \in Writes, Load(w) PROVE CacheInv'
<1> USE StoreAssumption DEF Load, At, Goes
<1>1. Homes'
    BY DEF Inv, TypeOK, CacheInv, Homes, Awaited
<1>2. ASSUME Alone(setup) PROVE Edits'
    BY <1>2, OnlyOne DEF Inv, TypeOK, Kinds, CacheInv, Homes, Edits, Near, Cache, Awaited, Row, Unfinished
<1>3. ASSUME Alone(setup) PROVE Near'
    BY <1>3, OnlyOne DEF Inv, TypeOK, Made, CacheInv, Homes, Edits, Near, Cache, Awaited, Alone, Unfinished
<1> QED BY <1>1, <1>2, <1>3 DEF CacheInv, Alone

LEMMA SerializeKeepsCache ==
    ASSUME Inv, CacheInv, NEW w \in Writes, Serialize(w) PROVE CacheInv'
<1> USE StoreAssumption DEF Serialize, At, Goes
<1>1. Homes'
    BY DEF Inv, TypeOK, CacheInv, Homes, Awaited
<1>2. ASSUME Alone(setup) PROVE Edits'
    BY <1>2, OnlyOne DEF Inv, TypeOK, Kinds, CacheInv, Homes, Edits, Near, Cache, Awaited, Row, Unfinished
<1>3. ASSUME Alone(setup) PROVE Near'
    BY <1>3, OnlyOne DEF Inv, TypeOK, Made, CacheInv, Homes, Edits, Near, Cache, Awaited, Alone, Unfinished
<1> QED BY <1>1, <1>2, <1>3 DEF CacheInv, Alone

LEMMA ReplaceKeepsCache ==
    ASSUME Inv, CacheInv, NEW w \in Writes, Replace(w) PROVE CacheInv'
<1> USE StoreAssumption DEF Replace, At, Goes
<1>1. Homes'
    BY DEF Inv, TypeOK, CacheInv, Homes, Awaited
<1>2. ASSUME Alone(setup) PROVE Edits'
    BY <1>2, OnlyOne DEF Inv, TypeOK, Kinds, CacheInv, Homes, Edits, Near, Cache, Awaited, Row, Unfinished
<1>3. ASSUME Alone(setup) PROVE Near'
  <2>1. records' = records \cup {w}
    BY <1>3, CommitAdds DEF Commits, Careful
  <2>2. \A p \in Procs : setup.calls[p] # {} => lock[p] = w
    BY <1>3, OnlyCaller DEF Unfinished
  <2>3. UNCHANGED <<setup, lock, objects, state>>
    OBVIOUS
  <2> QED BY <1>3, <2>1, <2>2, <2>3 DEF Inv, TypeOK, CacheInv, Near, Cache
<1> QED BY <1>1, <1>2, <1>3 DEF CacheInv, Alone

LEMMA UpsertKeepsCache ==
    ASSUME Inv, CacheInv, NEW w \in Writes, Upsert(w) PROVE CacheInv'
<1> USE StoreAssumption DEF Upsert, At, Goes
<1>1. Homes'
    BY DEF Inv, TypeOK, CacheInv, Homes, Awaited
<1>2. ASSUME Alone(setup) PROVE Edits'
    BY <1>2, OnlyOne DEF Inv, TypeOK, Kinds, CacheInv, Homes, Edits, Near, Cache, Awaited, Row, Unfinished
<1>3. ASSUME Alone(setup) PROVE Near'
  <2>1. records' = records \cup {w}
    BY <1>3, CommitAdds DEF Commits, Careful
  <2>2. \A p \in Procs : setup.calls[p] # {} => lock[p] = w
    BY <1>3, OnlyCaller DEF Unfinished
  <2>3. UNCHANGED <<setup, lock, objects, state>>
    OBVIOUS
  <2> QED BY <1>3, <2>1, <2>2, <2>3 DEF Inv, TypeOK, CacheInv, Near, Cache
<1> QED BY <1>1, <1>2, <1>3 DEF CacheInv, Alone

LEMMA LockRowKeepsCache ==
    ASSUME Inv, CacheInv, NEW w \in Writes, LockRow(w) PROVE CacheInv'
<1> USE StoreAssumption DEF LockRow, At, Goes
<1>1. Homes'
    BY DEF Inv, TypeOK, CacheInv, Homes, Awaited
<1>2. ASSUME Alone(setup) PROVE Edits'
    BY <1>2, OnlyOne DEF Inv, TypeOK, Kinds, CacheInv, Homes, Edits, Near, Cache, Awaited, Row, Unfinished
<1>3. ASSUME Alone(setup) PROVE Near'
    BY <1>3, OnlyOne DEF Inv, TypeOK, Made, CacheInv, Homes, Edits, Near, Cache, Awaited, Alone, Unfinished
<1> QED BY <1>1, <1>2, <1>3 DEF CacheInv, Alone

LEMMA CommitRowKeepsCache ==
    ASSUME Inv, CacheInv, NEW w \in Writes, CommitRow(w) PROVE CacheInv'
<1> USE StoreAssumption DEF CommitRow, At, Goes
<1>1. Homes'
    BY DEF Inv, TypeOK, CacheInv, Homes, Awaited
<1>2. ASSUME Alone(setup) PROVE Edits'
  <2> SUFFICES ASSUME NEW v \in Row, At(v, "committed")'
               PROVE  (buffer[v] = records \cap SameRecord(v))'
    BY <1>2 DEF Inv, TypeOK, Kinds, CacheInv, Edits, Cache, Row
  <2>1. v \in Writes /\ (v # w => call[v] = "committed")
    BY DEF Inv, TypeOK, Row
  <2>2. v = w
    BY <1>2, <2>1, OnlyOne DEF Unfinished
  <2>3. buffer'[w] = (records \cap SameRecord(w)) \cup {w}
    BY DEF Inv, TypeOK, Locked
  <2>4. records' = records \cup {w}
    BY <1>2, CommitAdds DEF Commits, Careful
  <2> QED BY <2>2, <2>3, <2>4 DEF SameRecord
<1>3. ASSUME Alone(setup) PROVE Near'
  <2>1. records' = records \cup {w}
    BY <1>3, CommitAdds DEF Commits, Careful
  <2>2. \A p \in Procs : setup.calls[p] # {} => lock[p] = w
    BY <1>3, OnlyCaller DEF Unfinished
  <2>3. UNCHANGED <<setup, lock, objects, state>>
    OBVIOUS
  <2> QED BY <1>3, <2>1, <2>2, <2>3 DEF Inv, TypeOK, CacheInv, Near, Cache
<1> QED BY <1>1, <1>2, <1>3 DEF CacheInv, Alone

LEMMA RollBackKeepsCache ==
    ASSUME Inv, CacheInv, NEW w \in Writes, RollBack(w) PROVE CacheInv'
<1> USE StoreAssumption DEF RollBack, At, Goes
<1>1. Homes'
    BY DEF Inv, TypeOK, CacheInv, Homes, Awaited
<1>2. ASSUME Alone(setup) PROVE Edits'
    BY <1>2, OnlyOne DEF Inv, TypeOK, Kinds, CacheInv, Homes, Edits, Near, Cache, Awaited, Row, Unfinished
<1>3. ASSUME Alone(setup) PROVE Near'
    BY <1>3, OnlyOne DEF Inv, TypeOK, Made, CacheInv, Homes, Edits, Near, Cache, Awaited, Alone, Unfinished
<1> QED BY <1>1, <1>2, <1>3 DEF CacheInv, Alone

LEMMA RaiseAfterCommitKeepsCache ==
    ASSUME Inv, CacheInv, NEW w \in Writes, RaiseAfterCommit(w) PROVE CacheInv'
<1> USE StoreAssumption DEF RaiseAfterCommit, At, Goes
<1>1. Homes'
    BY DEF Inv, TypeOK, CacheInv, Homes, Awaited
<1>2. ASSUME Alone(setup) PROVE Edits'
    BY <1>2, OnlyOne DEF Inv, TypeOK, Kinds, CacheInv, Homes, Edits, Near, Cache, Awaited, Row, Unfinished
<1>3. ASSUME Alone(setup) PROVE Near'
    BY <1>3, OnlyOne DEF Inv, TypeOK, Made, CacheInv, Homes, Edits, Near, Cache, Awaited, Alone, Unfinished
<1> QED BY <1>1, <1>2, <1>3 DEF CacheInv, Alone

LEMMA RestartKeepsCache ==
    ASSUME Inv, CacheInv, NEW p \in Procs, Restart(p) PROVE CacheInv'
<1> USE StoreAssumption DEF Restart, At, Goes
<1>1. Homes'
    BY DEF Inv, TypeOK, CacheInv, Homes, Awaited
<1>2. ASSUME Alone(setup) PROVE Edits'
    BY <1>2, OnlyOne DEF Inv, TypeOK, Made, CacheInv, Homes, Edits, Cache, Row, Unfinished
<1>3. ASSUME Alone(setup) PROVE Near'
    BY <1>3, OnlyOne DEF Inv, TypeOK, Made, CacheInv, Homes, Edits, Near, Cache, Awaited, Alone, Unfinished
<1> QED BY <1>1, <1>2, <1>3 DEF CacheInv, Alone

LEMMA NextCache == Inv /\ CacheInv /\ [Next]_vars => CacheInv'
<1> SUFFICES ASSUME Inv, CacheInv, [Next]_vars PROVE CacheInv' OBVIOUS
<1>1. ASSUME NEW p \in Procs, NEW w \in Writes, Begin(p, w) \/ BeginSave(p, w) PROVE CacheInv'
    BY <1>1, BeginKeepsCache, BeginSaveKeepsCache
<1>2. ASSUME NEW w \in Writes, CoroutineStep(w) PROVE CacheInv'
    BY <1>2, EditKeepsCache, EditRaisesKeepsCache, ReturnKeepsCache, ReturnErrorKeepsCache, CancelKeepsCache DEF CoroutineStep
<1>3. ASSUME NEW w \in Writes, ThreadStep(w) PROVE CacheInv'
    BY <1>3, LoadKeepsCache, SerializeKeepsCache, ReplaceKeepsCache, UpsertKeepsCache, LockRowKeepsCache, CommitRowKeepsCache,
       RollBackKeepsCache, RaiseAfterCommitKeepsCache DEF ThreadStep
<1>4. ASSUME NEW p \in Procs, Restart(p) PROVE CacheInv'
    BY <1>4, RestartKeepsCache
<1>5. CASE UNCHANGED vars
    BY <1>5 DEF vars, CacheInv, Homes, Edits, Near, Cache, At, Alone
<1> QED BY <1>1, <1>2, <1>3, <1>4, <1>5 DEF Next

\* Whatever the processes, calls and setups are: the only writer's cache follows
\* the table.
THEOREM CacheIsTheTable == Spec => []CacheFollowsTable
<1>1. Inv /\ CacheInv => CacheFollowsTable
    BY StoreAssumption DEF Inv, TypeOK, CacheInv, Near, CacheFollowsTable
<1> QED BY <1>1, SpecInv, InitCache, NextCache, PTL DEF Spec
=============================================================================
