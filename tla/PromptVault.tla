----------------------------- MODULE PromptVault -----------------------------
(***************************************************************************)
(* The vault of OmniaPrompt (apps/prompt-vault/web): providers/vault-      *)
(* provider.tsx, lib/supabase/vault-state.ts and lib/storage.ts.  A page   *)
(* keeps the whole data set in memory, writes it to the local storage of   *)
(* its browser at every change and, for a signed-in user, merges it once   *)
(* with the row of user_vault_state and from then on overwrites that row   *)
(* 1.2 s after the last change.  Pages of one browser share the storage,   *)
(* pages of one user share the row.                                        *)
(*                                                                         *)
(* A text is named by the stamp of the edit that wrote it, 0 being the     *)
(* text of the example entry every new browser starts from.  What a record *)
(* holds beside its text, the preferences, and the records that are only   *)
(* collected (projects, activities, suggestions, queued mutations: merged  *)
(* by id and, but for the cut after 30 drafts and 100 mutations, never     *)
(* removed), are abstracted to the stamp of the edit.  All stamps are of   *)
(* one clock.                                                              *)
(***************************************************************************)
EXTENDS Integers, Sequences

CONSTANTS
    Users,
    Browsers,
    Pages,
    BrowserOf,  \* the browser a page is open in
    Entries,
    Example,    \* the entry of createDemoDataset
    SeedAge,    \* how old the example claims to be when it is created
    Faults,     \* "fail": requests may fail
    Uses,       \* bound: what the user of each page does
    MaxNow,     \* bound: edits and resets in all
    MaxVisits,  \* bound: pages opened, sign-ins and sign-outs in all
    MaxCalls,   \* bound: saves of a page under way at once
    None        \* no user, no data set, no load

ASSUME VaultAssumption ==
    /\ BrowserOf \in [Pages -> Browsers]
    /\ Example \in Entries
    /\ SeedAge \in Nat
    /\ MaxNow \in Nat
    /\ MaxVisits \in Nat
    /\ MaxCalls \in Nat
    /\ None \notin Users

VARIABLES
    now,        \* the stamp of the latest edit
    ids,        \* the entries created so far: a new one has a new random id
    visits,     \* pages opened and sessions changed so far
    storage,    \* localStorage["prompt-vault.preview.v1"] of each browser
    signedIn,   \* the session each browser holds
    row,        \* user_vault_state
    open,       \* is the page open
    dataset,    \* the committed React state
    queued,     \* the stamp of the edit waiting in a transition, 0 for none
    user,       \* sessionUserId
    hydrated,   \* hydratedRemoteUserId
    sync,       \* cloudSyncState
    snapshot,   \* lastRemoteSnapshotRef
    load,       \* the load the hydrating effect waits for
    timer,      \* is the timer of the saving effect set
    calls,      \* the saves under way, in the order they were sent; history: which
                \* of them are the page's own, sent since it hydrated and after the
                \* latest that was accepted
    written,    \* history: the latest sent of the page's own saves that the
                \* database has accepted
    lost        \* history: has the page's latest load, or own save, failed

told == <<written, lost>>
vars == <<now, ids, visits, storage, signedIn, row, open, dataset, queued, user, hydrated,
          sync, snapshot, load, timer, calls, written, lost>>

-----------------------------------------------------------------------------
(* Data sets *)

DraftKeys == Entries \cup {"capture", "new"}

\* createDemoDataset: stamps are counted back from the moment of its creation.
Seed(t) ==
    [entries |-> [e \in Entries |-> IF e = Example
                                    THEN [number |-> 1, text |-> 0, stamp |-> t - SeedAge]
                                    ELSE None],
     versions |-> {[entry |-> Example, number |-> 1, text |-> 0, stamp |-> t - SeedAge]},
     drafts |-> [k \in DraftKeys |-> None],
     records |-> {},
     prefs |-> 0]

Discard(drafts, K) == [k \in DraftKeys |-> IF k \in K THEN None ELSE drafts[k]]
Has(d, e) == d.entries[e] # None

\* A version is known by its chain and its number, and an entry has one chain.
SameId(v, w) == v.entry = w.entry /\ v.number = w.number
LatestOf(d, e) == IF Has(d, e) THEN d.entries[e].number ELSE 0

\* Entry e with a new text, and the snapshot of it.
WithVersion(d, e, text, t) ==
    LET n == LatestOf(d, e) + 1 IN
    [entries |-> [d.entries EXCEPT ![e] = [number |-> n, text |-> text, stamp |-> t]],
     versions |-> d.versions \cup {[entry |-> e, number |-> n, text |-> text, stamp |-> t]},
     drafts |-> d.drafts,
     records |-> d.records \cup {t},
     prefs |-> d.prefs]

\* upsertEntry also drops the drafts of the entry and the capture draft.
upsertEntry(d, e, text, t) ==
    [WithVersion(d, e, text, t) EXCEPT !.drafts = Discard(@, {e, "capture"})]

saveDraft(d, k, t) == [d EXCEPT !.drafts[k] = [stamp |-> t]]

\* Drafts of no entry carry the same missing entryId and are discarded together.
discardDraft(d, k) ==
    [d EXCEPT !.drafts = Discard(@, IF k \in Entries THEN {k} ELSE {"capture", "new"})]

\* The save button of the editor.
handleSave(d, e, t) ==
    discardDraft(upsertEntry(d, e, t, t), IF Has(d, e) THEN e ELSE "capture")

\* toggleFavorite, toggleArchive: no version, but a new updatedAt.
toggle(d, e, t) ==
    [entries |-> [d.entries EXCEPT ![e].stamp = t],
     versions |-> d.versions,
     drafts |-> d.drafts,
     records |-> d.records \cup {t},
     prefs |-> d.prefs]

addRecord(d, t) == [d EXCEPT !.records = @ \cup {t}]

\* A change of the preferences also queues a mutation.
setPreferences(d, t) == [addRecord(d, t) EXCEPT !.prefs = t]

\* pickMostRecent: local wins a tie.
mergeById(remote, local) ==
    [i \in DOMAIN local |->
        IF /\ local[i] # None
           /\ remote[i] # None => local[i].stamp >= remote[i].stamp
        THEN local[i] ELSE remote[i]]

\* Mutant: the merge starts from the remote data set and forgets the versions.
VersionsOfRemote(remote, local) == remote

\* pickNewestVersion: of the versions with one id the most recent stays.
mergeVersions(remote, local) ==
    {v \in remote \cup local :
        \A w \in remote \cup local : SameId(v, w) => w.stamp <= v.stamp}

\* Mutant: the merge forgets a field.
MergeWithoutDrafts(remote, local) ==
    [entries |-> mergeById(remote.entries, local.entries),
     versions |-> mergeVersions(remote.versions, local.versions),
     records |-> remote.records \cup local.records,
     prefs |-> local.prefs]

\* pickLatestPreference: the local preferences stay, the remote ones are dropped.
mergeVaultDatasets(remote, local) ==
    [entries |-> mergeById(remote.entries, local.entries),
     versions |-> mergeVersions(remote.versions, local.versions),
     drafts |-> mergeById(remote.drafts, local.drafts),
     records |-> remote.records \cup local.records,
     prefs |-> local.prefs]

-----------------------------------------------------------------------------
Init ==
    /\ now = 0
    /\ ids = {Example}
    /\ visits = 0
    /\ storage = [b \in Browsers |-> None]
    /\ signedIn = [b \in Browsers |-> None]
    /\ row = [u \in Users |-> None]
    /\ open = [p \in Pages |-> FALSE]
    /\ dataset = [p \in Pages |-> None]
    /\ queued = [p \in Pages |-> 0]
    /\ user = [p \in Pages |-> None]
    /\ hydrated = [p \in Pages |-> None]
    /\ sync = [p \in Pages |-> "idle"]
    /\ snapshot = [p \in Pages |-> None]
    /\ load = [p \in Pages |-> None]
    /\ timer = [p \in Pages |-> FALSE]
    /\ calls = [p \in Pages |-> <<>>]
    /\ written = [p \in Pages |-> None]
    /\ lost = [p \in Pages |-> FALSE]

-----------------------------------------------------------------------------
(* What follows a commit: the two cloud effects are torn down and run again *)
(* with data set d, session user u, hydrated user h and snapshot s.         *)

Awaits(u, d) == [user |-> u, base |-> d, answered |-> FALSE, state |-> None]

\* Mutants: a load under way is not begun again, keeping the old data set or
\* not; no timer is set while a save is under way.
EffectsKeepLoad(p, d, u, h, s) ==
    /\ load' = [load EXCEPT ![p] = IF u # None /\ h # u
                                   THEN IF @ # None THEN @ ELSE Awaits(u, d)
                                   ELSE None]
    /\ timer' = [timer EXCEPT ![p] = u # None /\ h = u /\ s # d]
EffectsLoadOnce(p, d, u, h, s) ==
    /\ load' = [load EXCEPT ![p] = IF u # None /\ h # u /\ sync[p] # "loading"
                                   THEN Awaits(u, d) ELSE None]
    /\ timer' = [timer EXCEPT ![p] = u # None /\ h = u /\ s # d]
EffectsOneSave(p, d, u, h, s) ==
    /\ load' = [load EXCEPT ![p] = IF u # None /\ h # u THEN Awaits(u, d) ELSE None]
    /\ timer' = [timer EXCEPT ![p] = u # None /\ h = u /\ s # d /\ calls[p] = <<>>]

Effects(p, d, u, h, s) ==
    /\ load' = [load EXCEPT ![p] = IF u # None /\ h # u THEN Awaits(u, d) ELSE None]
    /\ timer' = [timer EXCEPT ![p] = u # None /\ h = u /\ s # d]

\* The state that the hydrating effect sets as it starts.
Loading(u, h, otherwise) == IF u # None /\ h # u THEN "loading" ELSE otherwise

\* A new data set is committed: it is stored, and the effects run.
Show(p, d) ==
    /\ dataset' = [dataset EXCEPT ![p] = d]
    /\ storage' = [storage EXCEPT ![BrowserOf[p]] = d]
    /\ Effects(p, d, user[p], hydrated[p], snapshot[p])
    /\ sync' = [sync EXCEPT ![p] = Loading(user[p], hydrated[p], @)]

-----------------------------------------------------------------------------
(* The page and the session *)

Open(p) ==
    /\ ~open[p]
    /\ visits < MaxVisits
    /\ visits' = visits + 1
    /\ open' = [open EXCEPT ![p] = TRUE]
    /\ LET d == IF storage[BrowserOf[p]] = None THEN Seed(now) ELSE storage[BrowserOf[p]]
       IN /\ dataset' = [dataset EXCEPT ![p] = d]
          /\ storage' = [storage EXCEPT ![BrowserOf[p]] = d]
    /\ UNCHANGED <<now, ids, signedIn, row, queued, user, hydrated, sync, snapshot,
                   load, timer, calls, told>>

\* A session that ends, or another that hydrates, has sent none of the saves
\* that are still under way.
Disowned(s) == [i \in 1..Len(s) |-> [s[i] EXCEPT !.own = FALSE]]

\* Nobody waits for the saves a closed page has sent.
Orphaned(s) == [i \in 1..Len(s) |-> [s[i] EXCEPT !.kind = "orphan", !.own = FALSE]]

Close(p) ==
    /\ open[p]
    /\ open' = [open EXCEPT ![p] = FALSE]
    /\ dataset' = [dataset EXCEPT ![p] = None]
    /\ queued' = [queued EXCEPT ![p] = 0]
    /\ user' = [user EXCEPT ![p] = None]
    /\ hydrated' = [hydrated EXCEPT ![p] = None]
    /\ sync' = [sync EXCEPT ![p] = "idle"]
    /\ snapshot' = [snapshot EXCEPT ![p] = None]
    /\ load' = [load EXCEPT ![p] = None]
    /\ timer' = [timer EXCEPT ![p] = FALSE]
    /\ calls' = [calls EXCEPT ![p] = Orphaned(@)]
    /\ written' = [written EXCEPT ![p] = None]
    /\ lost' = [lost EXCEPT ![p] = FALSE]
    /\ UNCHANGED <<now, ids, visits, storage, signedIn, row>>

\* The user signs in, or out, in some page of the browser.
Sign(b) ==
    /\ visits < MaxVisits
    /\ visits' = visits + 1
    /\ \E u \in Users \cup {None} :
          /\ u # signedIn[b]
          /\ signedIn' = [signedIn EXCEPT ![b] = u]
    /\ UNCHANGED <<now, ids, storage, row, open, dataset, queued, user, hydrated, sync,
                   snapshot, load, timer, calls, told>>

\* getUser or onAuthStateChange tells a page; the data set stays.
AuthStateChange(p) ==
    LET u == signedIn[BrowserOf[p]]
        h == IF u = None THEN None ELSE hydrated[p]
        s == IF u = None THEN None ELSE snapshot[p]
    IN /\ open[p]
       /\ user[p] # u
       /\ user' = [user EXCEPT ![p] = u]
       /\ hydrated' = [hydrated EXCEPT ![p] = h]
       /\ snapshot' = [snapshot EXCEPT ![p] = s]
       /\ sync' = [sync EXCEPT ![p] = IF u = None THEN "idle" ELSE Loading(u, h, @)]
       /\ Effects(p, dataset[p], u, h, s)
       /\ calls' = [calls EXCEPT ![p] = IF u = None THEN Disowned(@) ELSE @]
       /\ written' = [written EXCEPT ![p] = IF u = None THEN None ELSE @]
       /\ lost' = [lost EXCEPT ![p] = @ /\ u # None]
       /\ UNCHANGED <<now, ids, visits, storage, signedIn, row, open, dataset, queued>>

-----------------------------------------------------------------------------
(* Edits: queued in a transition, applied when React commits it *)

Edit(p) ==
    /\ open[p]
    /\ queued[p] = 0
    /\ now < MaxNow
    /\ now' = now + 1
    /\ queued' = [queued EXCEPT ![p] = now + 1]
    /\ UNCHANGED <<ids, visits, storage, signedIn, row, open, dataset, user, hydrated, sync,
                   snapshot, load, timer, calls, told>>

\* updateDataset: an updater that returns its argument commits nothing.
Commit(p, d) ==
    /\ queued[p] # 0
    /\ queued' = [queued EXCEPT ![p] = 0]
    /\ IF d = dataset[p]
       THEN UNCHANGED <<dataset, storage, load, timer, sync>>
       ELSE Show(p, d)
    /\ ids' = ids \cup {e \in Entries : Has(d, e)}
    /\ UNCHANGED <<now, visits, signedIn, row, open, user, hydrated, snapshot, calls, told>>

SaveEntry(p) ==
    \E e \in Entries :
        /\ queued[p] # 0
        /\ Has(dataset[p], e) \/ e \notin ids
        /\ Commit(p, handleSave(dataset[p], e, queued[p]))

\* createVersionFromAI: an upsert that is not the editor's.
ApplySuggestion(p) ==
    \E e \in Entries :
        /\ queued[p] # 0
        /\ Has(dataset[p], e)
        /\ Commit(p, upsertEntry(dataset[p], e, queued[p], queued[p]))

DuplicateEntry(p) ==
    \E e, f \in Entries :
        /\ queued[p] # 0
        /\ Has(dataset[p], e)
        /\ f \notin ids
        /\ Commit(p, upsertEntry(dataset[p], f, dataset[p].entries[e].text, queued[p]))

\* restoreVersion finds the first version with the id.
RestoreVersion(p) ==
    /\ queued[p] # 0
    /\ \E v \in dataset[p].versions :
          /\ Has(dataset[p], v.entry)
          /\ \A w \in dataset[p].versions : SameId(v, w) => v.stamp <= w.stamp
          /\ Commit(p, WithVersion(dataset[p], v.entry, v.text, queued[p]))

ToggleFlag(p) ==
    \E e \in Entries :
        /\ queued[p] # 0
        /\ Has(dataset[p], e)
        /\ Commit(p, toggle(dataset[p], e, queued[p]))

\* createProject, recordAISuggestion, setAISuggestionStatus.
AddRecord(p) == Commit(p, addRecord(dataset[p], queued[p]))

UpdatePreferences(p) == Commit(p, setPreferences(dataset[p], queued[p]))

SaveDraft(p) ==
    \E k \in DraftKeys :
        /\ queued[p] # 0
        /\ k \in Entries => Has(dataset[p], k)
        /\ Commit(p, saveDraft(dataset[p], k, queued[p]))

DiscardDraft(p) ==
    \E k \in DraftKeys : Commit(p, discardDraft(dataset[p], k))

\* resetPreview sets the state outside a transition, over whatever is queued.
ResetPreview(p) ==
    /\ open[p]
    /\ now < MaxNow
    /\ now' = now + 1
    /\ queued' = [queued EXCEPT ![p] = 0]
    /\ Show(p, Seed(now + 1))
    /\ UNCHANGED <<ids, visits, signedIn, row, open, user, hydrated, snapshot, calls, told>>

-----------------------------------------------------------------------------
(* The cloud *)

\* The database answers a load.
AnswerLoad(p) ==
    /\ load[p] # None
    /\ ~load[p].answered
    /\ load' = [load EXCEPT ![p].answered = TRUE, ![p].state = row[load[p].user]]
    /\ UNCHANGED <<now, ids, visits, storage, signedIn, row, open, dataset, queued, user,
                   hydrated, sync, snapshot, timer, calls, told>>

\* The merge replaces the state, a queued edit included; the save that may
\* follow is awaited by an effect that has been torn down.
Hydrate(p) ==
    LET l == load[p]
        d == IF l.state = None THEN l.base ELSE mergeVaultDatasets(l.state, l.base)
    IN /\ l # None
       /\ l.answered
       /\ Len(calls[p]) < MaxCalls
       /\ dataset' = [dataset EXCEPT ![p] = d]
       /\ storage' = [storage EXCEPT ![BrowserOf[p]] = d]
       /\ queued' = [queued EXCEPT ![p] = 0]
       /\ hydrated' = [hydrated EXCEPT ![p] = l.user]
       /\ snapshot' = [snapshot EXCEPT ![p] = d]
       /\ Effects(p, d, user[p], l.user, d)
       /\ lost' = [lost EXCEPT ![p] = FALSE]
       /\ IF l.state = d
          THEN /\ sync' = [sync EXCEPT ![p] = "idle"]
               /\ written' = [written EXCEPT ![p] = d]
               /\ calls' = [calls EXCEPT ![p] = Disowned(@)]
          ELSE /\ written' = [written EXCEPT ![p] = None]
               /\ calls' = [calls EXCEPT ![p] =
                      Append(Disowned(@), [kind |-> "first", own |-> TRUE,
                                           user |-> l.user, state |-> d])]
               /\ UNCHANGED sync
       /\ UNCHANGED <<now, ids, visits, signedIn, row, open, user>>

LoadFails(p) ==
    /\ "fail" \in Faults
    /\ load[p] # None
    /\ load' = [load EXCEPT ![p] = None]
    /\ sync' = [sync EXCEPT ![p] = "error"]
    /\ lost' = [lost EXCEPT ![p] = TRUE]
    /\ UNCHANGED <<now, ids, visits, storage, signedIn, row, open, dataset, queued, user,
                   hydrated, snapshot, timer, calls, written>>

\* 1.2 s after the last change: the data set is sent.
TimerFires(p) ==
    /\ timer[p]
    /\ Len(calls[p]) < MaxCalls
    /\ timer' = [timer EXCEPT ![p] = FALSE]
    /\ sync' = [sync EXCEPT ![p] = "saving"]
    /\ calls' = [calls EXCEPT ![p] =
                   Append(@, [kind |-> "save", own |-> TRUE,
                              user |-> user[p], state |-> dataset[p]])]
    /\ lost' = [lost EXCEPT ![p] = FALSE]
    /\ UNCHANGED <<now, ids, visits, storage, signedIn, row, open, dataset, queued, user,
                   hydrated, snapshot, load, written>>

Drop(s, i) == SubSeq(s, 1, i - 1) \o SubSeq(s, i + 1, Len(s))

\* Once a save of the page's own is accepted, those sent before it count no more.
Outrun(s, i) ==
    [j \in 1..Len(s) |-> IF s[i].own /\ j < i THEN [s[j] EXCEPT !.own = FALSE] ELSE s[j]]

\* A save overwrites the row, and its page learns of it.  Nothing orders the
\* saves of a page: an older one may be the last to land, and its data set
\* becomes the snapshot.
SaveLands(p) ==
    \E i \in 1..Len(calls[p]) :
        LET c == calls[p][i] IN
        /\ row' = [row EXCEPT ![c.user] = c.state]
        /\ calls' = [calls EXCEPT ![p] = Drop(Outrun(@, i), i)]
        /\ snapshot' = [snapshot EXCEPT ![p] = IF c.kind = "save" THEN c.state ELSE @]
        /\ sync' = [sync EXCEPT ![p] = IF c.kind = "orphan" THEN @ ELSE "idle"]
        /\ written' = [written EXCEPT ![p] = IF c.own THEN c.state ELSE @]
        /\ UNCHANGED <<now, ids, visits, storage, signedIn, open, dataset, queued, user,
                       hydrated, load, timer, lost>>

\* A save fails before or after it wrote the row.  A "first" save rejects into
\* an effect that is cancelled by then, and the page is not told.
SaveFails(p) ==
    \E i \in 1..Len(calls[p]) :
        LET c == calls[p][i] IN
        /\ c.kind = "orphan" \/ "fail" \in Faults
        /\ row' \in {row, [row EXCEPT ![c.user] = c.state]}
        /\ calls' = [calls EXCEPT ![p] = Drop(@, i)]
        /\ sync' = [sync EXCEPT ![p] = IF c.kind = "save" THEN "error" ELSE @]
        /\ lost' = [lost EXCEPT ![p] = @ \/ (c.own /\ i = Len(calls[p]))]
        /\ UNCHANGED <<now, ids, visits, storage, signedIn, open, dataset, queued, user,
                       hydrated, snapshot, load, timer, written>>

-----------------------------------------------------------------------------
Applied(p) ==
    \/ "save" \in Uses[p] /\ SaveEntry(p)
    \/ "suggest" \in Uses[p] /\ ApplySuggestion(p)
    \/ "duplicate" \in Uses[p] /\ DuplicateEntry(p)
    \/ "restore" \in Uses[p] /\ RestoreVersion(p)
    \/ "toggle" \in Uses[p] /\ ToggleFlag(p)
    \/ "record" \in Uses[p] /\ AddRecord(p)
    \/ "prefs" \in Uses[p] /\ UpdatePreferences(p)
    \/ "draft" \in Uses[p] /\ SaveDraft(p)
    \/ "discard" \in Uses[p] /\ DiscardDraft(p)

\* What a page owes: React commits, timers fire, requests are settled.
Progress(p) ==
    \/ Applied(p)
    \/ AnswerLoad(p)
    \/ Hydrate(p)
    \/ LoadFails(p)
    \/ TimerFires(p)
    \/ SaveLands(p)
    \/ SaveFails(p)

Step(p) ==
    \/ Open(p)
    \/ "close" \in Uses[p] /\ Close(p)
    \/ AuthStateChange(p)
    \/ Edit(p)
    \/ "reset" \in Uses[p] /\ ResetPreview(p)
    \/ Progress(p)

Next ==
    \/ \E p \in Pages : Step(p)
    \/ \E b \in Browsers : Sign(b)

\* A page that owes something does something of it; what users do is not owed.
Fairness == \A p \in Pages : WF_vars(Progress(p))

Spec == Init /\ [][Next]_vars /\ Fairness

-----------------------------------------------------------------------------
(* Properties *)

Stamps == 0..MaxNow
SeedStamps == (-SeedAge)..MaxNow
EntryStates == [number : Nat, text : Stamps, stamp : SeedStamps]
VersionStates == [entry : Entries, number : Nat, text : Stamps, stamp : SeedStamps]
Datasets ==
    [entries : [Entries -> EntryStates \cup {None}],
     versions : SUBSET VersionStates,
     drafts : [DraftKeys -> [stamp : Stamps] \cup {None}],
     records : SUBSET Stamps,
     prefs : Stamps]
Loads == [user : Users, base : Datasets, answered : BOOLEAN, state : Datasets \cup {None}]
Saves == [kind : {"first", "save", "orphan"}, own : BOOLEAN, user : Users, state : Datasets]

\* Every variable holds what the code keeps in it, and a page asks the cloud
\* for nothing unless it is open and knows its user.
TypeOK ==
    /\ now \in Stamps
    /\ ids \subseteq Entries
    /\ visits \in 0..MaxVisits
    /\ storage \in [Browsers -> Datasets \cup {None}]
    /\ signedIn \in [Browsers -> Users \cup {None}]
    /\ row \in [Users -> Datasets \cup {None}]
    /\ open \in [Pages -> BOOLEAN]
    /\ dataset \in [Pages -> Datasets \cup {None}]
    /\ queued \in [Pages -> Stamps]
    /\ user \in [Pages -> Users \cup {None}]
    /\ hydrated \in [Pages -> Users \cup {None}]
    /\ sync \in [Pages -> {"idle", "loading", "saving", "error"}]
    /\ snapshot \in [Pages -> Datasets \cup {None}]
    /\ load \in [Pages -> Loads \cup {None}]
    /\ timer \in [Pages -> BOOLEAN]
    /\ calls \in [Pages -> Seq(Saves)]
    /\ written \in [Pages -> Datasets \cup {None}]
    /\ lost \in [Pages -> BOOLEAN]
    /\ \A p \in Pages :
          /\ open[p] => dataset[p] \in Datasets
          /\ queued[p] # 0 \/ load[p] # None \/ timer[p] => open[p]
          /\ load[p] # None => load[p].user = user[p]
          /\ timer[p] => user[p] # None

\* The version an entry names as its latest is among the versions.
NamesItsVersions(d) ==
    \A e \in Entries : Has(d, e) =>
        \E v \in d.versions : v.entry = e /\ v.number = d.entries[e].number

\* Wherever a data set is kept, shown or under way, every entry's latest
\* version exists in it: merging takes entries and versions from either side,
\* each by stamps of its own, and must never part an entry from its history.
LatestIsRecorded ==
    /\ \A b \in Browsers : storage[b] # None => NamesItsVersions(storage[b])
    /\ \A u \in Users : row[u] # None => NamesItsVersions(row[u])
    /\ \A p \in Pages : open[p] => NamesItsVersions(dataset[p])
    /\ \A p \in Pages : \A i \in 1..Len(calls[p]) : NamesItsVersions(calls[p][i].state)

\* Nothing is owed to the cloud and no failure is shown.
Quiet(p) ==
    /\ user[p] # None
    /\ hydrated[p] = user[p]
    /\ ~timer[p]
    /\ calls[p] = <<>>
    /\ sync[p] = "idle"

\* A page that shows "Cloud ready", has nothing under way and whose latest
\* request did not fail has had what it shows accepted by the database since it
\* hydrated: sessions ended and begun, saves crossing each other, failures made
\* good by the next edit.  Accepted, not kept: an older save that lands later,
\* of this page or of another, takes the row back.  Drafts are excepted: one
\* discarded while it is being sent leaves the data set as the snapshot knows
\* it, and nothing is sent again.
QuietMeansSaved ==
    \A p \in Pages : Quiet(p) /\ ~lost[p] =>
        /\ written[p].entries = dataset[p].entries
        /\ written[p].versions = dataset[p].versions
        /\ written[p].records = dataset[p].records
        /\ written[p].prefs = dataset[p].prefs

\* A browser with one page goes back behind no version it has stored: not by a
\* merge, not by an edit made while a load was under way, not by being closed
\* and opened again.  The chain and the number of the version stay, and its
\* text gives way only to one that is not older; two devices that wrote
\* different texts under one number keep the later (TextsSurviveMerge fails).
\* Only a reset of the workspace discards what is stored.
HistoryKept ==
    [][\A p \in Pages :
         LET b == BrowserOf[p] IN
         \/ ResetPreview(p)
         \/ storage[b] = None
         \/ \A v \in storage[b].versions : \E w \in storage'[b].versions :
                SameId(v, w) /\ v.stamp <= w.stamp]_vars

\* The database has accepted all that the page shows.
Accepted(p) == written[p] # None /\ dataset[p].records \subseteq written[p].records

\* What a page of a signed-in user shows reaches the database: once the users
\* rest, every page with a session has had all the edits it shows accepted, or
\* its latest request has failed.  However loads are begun again by edits and
\* saves cross each other, the last change is sent.  An edit that was still
\* waiting in its transition when the page hydrated is not shown, and is gone.
ShownEditsReachTheCloud ==
    <>[](\A p \in Pages : open[p] /\ user[p] # None => lost[p] \/ Accepted(p))

\* A merge destroys no text (docs/BLUEPRINT.md: "create version if ambiguity
\* exists").  It does: of two texts that two devices wrote as one version of an
\* entry, the earlier is dropped.
TextsSurviveMerge ==
    [][\A p \in Pages :
         Hydrate(p) /\ load[p].state # None =>
            \A v \in load[p].state.versions \cup load[p].base.versions :
                \E w \in dataset'[p].versions : w.entry = v.entry /\ w.text = v.text]_vars

=============================================================================
