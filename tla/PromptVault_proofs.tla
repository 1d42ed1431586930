-------------------------- MODULE PromptVault_proofs --------------------------
(***************************************************************************)
(* For any users, browsers, pages and entries and any bounds: every data   *)
(* set the vault keeps, shows or sends holds the latest version of each of *)
(* its entries, a browser with one page goes back behind no version, and a *)
(* page that says it is in sync has been saved.                            *)
(***************************************************************************)
EXTENDS PromptVault, SequenceTheorems, WellFoundedInduction, TLAPS

\* The data sets in which every entry's latest version is recorded.
Vaults == {d \in Datasets : NamesItsVersions(d)}
VaultLoads == [user : Users, base : Vaults, answered : BOOLEAN, state : Vaults \cup {None}]
VaultSaves == [kind : {"first", "save", "orphan"}, own : BOOLEAN, user : Users,
               state : Vaults]

\* Every version of d is in c, by its id, and not older.
Keeps(d, c) == \A v \in d.versions : \E w \in c.versions : SameId(v, w) /\ v.stamp <= w.stamp

\* The inductive invariant: types, with Vaults for Datasets.
IInv ==
    /\ now \in Stamps
    /\ ids \subseteq Entries
    /\ visits \in 0..MaxVisits
    /\ storage \in [Browsers -> Vaults \cup {None}]
    /\ signedIn \in [Browsers -> Users \cup {None}]
    /\ row \in [Users -> Vaults \cup {None}]
    /\ open \in [Pages -> BOOLEAN]
    /\ dataset \in [Pages -> Vaults \cup {None}]
    /\ queued \in [Pages -> Stamps]
    /\ user \in [Pages -> Users \cup {None}]
    /\ hydrated \in [Pages -> Users \cup {None}]
    /\ sync \in [Pages -> {"idle", "loading", "saving", "error"}]
    /\ snapshot \in [Pages -> Vaults \cup {None}]
    /\ load \in [Pages -> VaultLoads \cup {None}]
    /\ timer \in [Pages -> BOOLEAN]
    /\ calls \in [Pages -> Seq(VaultSaves)]
    /\ written \in [Pages -> Vaults \cup {None}]
    /\ lost \in [Pages -> BOOLEAN]
    /\ \A p \in Pages :
          /\ open[p] => dataset[p] \in Vaults
          /\ queued[p] # 0 \/ load[p] # None \/ timer[p] => open[p]
          /\ load[p] # None => load[p].user = user[p]
          /\ timer[p] => user[p] # None

-----------------------------------------------------------------------------
(* What is done to a data set keeps it a vault and forgets no version *)

LEMMA StampFacts ==
    /\ Stamps \subseteq SeedStamps
    /\ 0 \in Stamps
    /\ \A t \in Stamps : t - SeedAge \in SeedStamps
    /\ SeedStamps \subseteq Int
    /\ \A t \in SeedStamps : t <= MaxNow
    /\ MaxNow \in Nat
  BY VaultAssumption DEF Stamps, SeedStamps

LEMMA VaultParts ==
    ASSUME NEW d \in Vaults
    PROVE  /\ d = [entries |-> d.entries, versions |-> d.versions,
                   drafts |-> d.drafts, records |-> d.records, prefs |-> d.prefs]
           /\ d.entries \in [Entries -> EntryStates \cup {None}]
           /\ d.versions \subseteq VersionStates
           /\ d.drafts \in [DraftKeys -> [stamp : Stamps] \cup {None}]
           /\ d.records \subseteq Stamps
           /\ d.prefs \in Stamps
           /\ NamesItsVersions(d)
  BY DEF Vaults, Datasets

\* A data set with all the versions of another keeps them.
LEMMA KeepsMore ==
    ASSUME NEW d \in Vaults, NEW c, d.versions \subseteq c.versions
    PROVE  Keeps(d, c)
<1> SUFFICES ASSUME NEW v \in d.versions
             PROVE  \E w \in c.versions : SameId(v, w) /\ v.stamp <= w.stamp
  BY DEF Keeps
<1>1. v.stamp \in SeedStamps
  BY VaultParts DEF VersionStates
<1>2. v.stamp \in Int
  BY <1>1, StampFacts
<1>3. v.stamp <= v.stamp
  BY <1>2
<1> QED
  BY <1>3 DEF SameId

LEMMA KeepsAlong ==
    ASSUME NEW c \in Vaults, NEW d \in Vaults, NEW x \in Vaults, Keeps(c, d), Keeps(d, x)
    PROVE  Keeps(c, x)
<1> SUFFICES ASSUME NEW v \in c.versions
             PROVE  \E w \in x.versions : SameId(v, w) /\ v.stamp <= w.stamp
  BY DEF Keeps
<1>1. PICK y \in d.versions : SameId(v, y) /\ v.stamp <= y.stamp
  BY DEF Keeps
<1>2. PICK w \in x.versions : SameId(y, w) /\ y.stamp <= w.stamp
  BY DEF Keeps
<1>3. v.stamp \in SeedStamps /\ y.stamp \in SeedStamps /\ w.stamp \in SeedStamps
  BY VaultParts DEF VersionStates
<1>4. v.stamp \in Int /\ y.stamp \in Int /\ w.stamp \in Int
  BY <1>3, StampFacts
<1>5. v.stamp <= w.stamp
  BY <1>1, <1>2, <1>4
<1> QED
  BY <1>1, <1>2, <1>5 DEF SameId

LEMMA SeedIsVault ==
    ASSUME NEW t \in Stamps
    PROVE  Seed(t) \in Vaults
<1>1. Seed(t) \in Datasets
  BY VaultAssumption, StampFacts DEF Seed, Datasets, EntryStates, VersionStates
<1>2. NamesItsVersions(Seed(t))
  BY DEF Seed, NamesItsVersions, Has
<1> QED
  BY <1>1, <1>2 DEF Vaults

LEMMA WithVersionKeeps ==
    ASSUME NEW d \in Vaults, NEW e \in Entries, NEW text \in Stamps, NEW t \in Stamps
    PROVE  /\ WithVersion(d, e, text, t) \in Vaults
           /\ Keeps(d, WithVersion(d, e, text, t))
<1> DEFINE n == LatestOf(d, e) + 1
           v == [entry |-> e, number |-> n, text |-> text, stamp |-> t]
           c == [entries |-> [d.entries EXCEPT ![e] = [number |-> n, text |-> text, stamp |-> t]],
                 versions |-> d.versions \cup {v},
                 drafts |-> d.drafts,
                 records |-> d.records \cup {t},
                 prefs |-> d.prefs]
<1>1. n \in Nat
  BY VaultParts DEF LatestOf, Has, EntryStates
<1>2. WithVersion(d, e, text, t) = c
  BY DEF WithVersion
<1>3. v \in VersionStates
  BY <1>1, StampFacts DEF VersionStates
<1>4. [number |-> n, text |-> text, stamp |-> t] \in EntryStates
  BY <1>1, StampFacts DEF EntryStates
<1> HIDE DEF n
<1>5. c \in Datasets
  BY <1>3, <1>4, VaultParts DEF Datasets
<1>6. NamesItsVersions(c)
  <2> SUFFICES ASSUME NEW f \in Entries, Has(c, f)
               PROVE  \E w \in c.versions : w.entry = f /\ w.number = c.entries[f].number
    BY DEF NamesItsVersions
  <2>1. CASE f = e
    <3>1. c.entries[e].number = n
      BY VaultParts
    <3>2. v \in c.versions /\ v.entry = e /\ v.number = n
      OBVIOUS
    <3> HIDE DEF c, v
    <3> QED
      BY <2>1, <3>1, <3>2
  <2>2. CASE f # e
    <3>1. c.entries[f] = d.entries[f]
      BY <2>2, VaultParts
    <3> QED
      BY <3>1, VaultParts DEF NamesItsVersions, Has
  <2> QED
    BY <2>1, <2>2
<1>7. Keeps(d, c)
  BY KeepsMore
<1> QED
  BY <1>2, <1>5, <1>6, <1>7 DEF Vaults

\* Only the drafts change.
LEMMA DraftsKeep ==
    ASSUME NEW d \in Vaults, NEW drafts \in [DraftKeys -> [stamp : Stamps] \cup {None}]
    PROVE  /\ [d EXCEPT !.drafts = drafts] \in Vaults
           /\ Keeps(d, [d EXCEPT !.drafts = drafts])
<1> DEFINE c == [entries |-> d.entries, versions |-> d.versions,
                 drafts |-> drafts, records |-> d.records, prefs |-> d.prefs]
<1>1. [d EXCEPT !.drafts = drafts] = c
  BY VaultParts
<1>2. c \in Datasets
  BY VaultParts DEF Datasets
<1>3. NamesItsVersions(c)
  BY VaultParts DEF NamesItsVersions, Has
<1>4. Keeps(d, c)
  BY KeepsMore
<1> QED
  BY <1>1, <1>2, <1>3, <1>4 DEF Vaults

LEMMA DiscardIsDrafts ==
    ASSUME NEW drafts \in [DraftKeys -> [stamp : Stamps] \cup {None}], NEW K
    PROVE  Discard(drafts, K) \in [DraftKeys -> [stamp : Stamps] \cup {None}]
  BY DEF Discard

LEMMA upsertEntryKeeps ==
    ASSUME NEW d \in Vaults, NEW e \in Entries, NEW text \in Stamps, NEW t \in Stamps
    PROVE  /\ upsertEntry(d, e, text, t) \in Vaults
           /\ Keeps(d, upsertEntry(d, e, text, t))
<1> DEFINE c == WithVersion(d, e, text, t)
<1>1. c \in Vaults /\ Keeps(d, c)
  BY WithVersionKeeps
<1> HIDE DEF c
<1>2. upsertEntry(d, e, text, t) = [c EXCEPT !.drafts = Discard(c.drafts, {e, "capture"})]
  BY DEF upsertEntry, c
<1>3. Discard(c.drafts, {e, "capture"}) \in [DraftKeys -> [stamp : Stamps] \cup {None}]
  BY <1>1, VaultParts, DiscardIsDrafts
<1>4. Keeps(c, upsertEntry(d, e, text, t)) /\ upsertEntry(d, e, text, t) \in Vaults
  BY <1>1, <1>2, <1>3, DraftsKeep
<1> QED
  BY <1>1, <1>4, KeepsAlong

LEMMA discardDraftKeeps ==
    ASSUME NEW d \in Vaults, NEW k \in DraftKeys
    PROVE  discardDraft(d, k) \in Vaults /\ Keeps(d, discardDraft(d, k))
<1> DEFINE K == IF k \in Entries THEN {k} ELSE {"capture", "new"}
<1>1. Discard(d.drafts, K) \in [DraftKeys -> [stamp : Stamps] \cup {None}]
  BY VaultParts, DiscardIsDrafts
<1>2. discardDraft(d, k) = [d EXCEPT !.drafts = Discard(d.drafts, K)]
  BY DEF discardDraft
<1> HIDE DEF K
<1> QED
  BY <1>1, <1>2, DraftsKeep

LEMMA handleSaveKeeps ==
    ASSUME NEW d \in Vaults, NEW e \in Entries, NEW t \in Stamps
    PROVE  handleSave(d, e, t) \in Vaults /\ Keeps(d, handleSave(d, e, t))
<1> DEFINE c == upsertEntry(d, e, t, t)
           k == IF Has(d, e) THEN e ELSE "capture"
<1>1. c \in Vaults /\ Keeps(d, c)
  BY upsertEntryKeeps
<1>2. k \in DraftKeys
  BY DEF DraftKeys
<1> HIDE DEF c, k
<1>3. discardDraft(c, k) \in Vaults /\ Keeps(c, discardDraft(c, k))
  BY <1>1, <1>2, discardDraftKeeps
<1>4. Keeps(d, discardDraft(c, k))
  BY <1>1, <1>3, KeepsAlong
<1> QED
  BY <1>3, <1>4 DEF handleSave, c, k

LEMMA saveDraftKeeps ==
    ASSUME NEW d \in Vaults, NEW k \in DraftKeys, NEW t \in Stamps
    PROVE  saveDraft(d, k, t) \in Vaults /\ Keeps(d, saveDraft(d, k, t))
<1> DEFINE drafts == [d.drafts EXCEPT ![k] = [stamp |-> t]]
<1>1. drafts \in [DraftKeys -> [stamp : Stamps] \cup {None}]
  BY VaultParts
<1>2. saveDraft(d, k, t) = [d EXCEPT !.drafts = drafts]
  BY DEF saveDraft
<1> HIDE DEF drafts
<1> QED
  BY <1>1, <1>2, DraftsKeep

LEMMA toggleKeeps ==
    ASSUME NEW d \in Vaults, NEW e \in Entries, NEW t \in Stamps, Has(d, e)
    PROVE  toggle(d, e, t) \in Vaults /\ Keeps(d, toggle(d, e, t))
<1> DEFINE x == [d.entries[e] EXCEPT !.stamp = t]
           c == [entries |-> [d.entries EXCEPT ![e] = x], versions |-> d.versions,
                 drafts |-> d.drafts, records |-> d.records \cup {t}, prefs |-> d.prefs]
<1>1. x \in EntryStates /\ x.number = d.entries[e].number
  BY VaultParts, StampFacts DEF Has, EntryStates
<1>2. toggle(d, e, t) = c
  BY VaultParts DEF toggle, Has, EntryStates
<1> HIDE DEF x
<1>3. c \in Datasets
  BY <1>1, VaultParts DEF Datasets
<1>4. NamesItsVersions(c)
  BY <1>1, VaultParts DEF NamesItsVersions, Has
<1>5. Keeps(d, c)
  BY KeepsMore
<1> QED
  BY <1>2, <1>3, <1>4, <1>5 DEF Vaults

LEMMA addRecordKeeps ==
    ASSUME NEW d \in Vaults, NEW t \in Stamps
    PROVE  addRecord(d, t) \in Vaults /\ Keeps(d, addRecord(d, t))
<1> DEFINE c == [entries |-> d.entries, versions |-> d.versions,
                 drafts |-> d.drafts, records |-> d.records \cup {t}, prefs |-> d.prefs]
<1>1. addRecord(d, t) = c
  BY DEF addRecord, Vaults, Datasets
<1>2. c \in Datasets
  BY VaultParts DEF Datasets
<1>3. NamesItsVersions(c)
  BY VaultParts DEF NamesItsVersions, Has
<1>4. Keeps(d, c)
  BY KeepsMore
<1> QED
  BY <1>1, <1>2, <1>3, <1>4 DEF Vaults

LEMMA setPreferencesKeeps ==
    ASSUME NEW d \in Vaults, NEW t \in Stamps
    PROVE  setPreferences(d, t) \in Vaults /\ Keeps(d, setPreferences(d, t))
<1> DEFINE c == [entries |-> d.entries, versions |-> d.versions,
                 drafts |-> d.drafts, records |-> d.records \cup {t}, prefs |-> t]
<1> DEFINE b == [entries |-> d.entries, versions |-> d.versions,
                 drafts |-> d.drafts, records |-> d.records \cup {t}, prefs |-> d.prefs]
<1>0. addRecord(d, t) = b
  BY DEF addRecord, Vaults, Datasets
<1>1. setPreferences(d, t) = c
  BY <1>0 DEF setPreferences
<1>2. c \in Datasets
  BY VaultParts DEF Datasets
<1>3. NamesItsVersions(c)
  BY VaultParts DEF NamesItsVersions, Has
<1>4. Keeps(d, c)
  BY KeepsMore
<1> QED
  BY <1>1, <1>2, <1>3, <1>4 DEF Vaults

\* Of the versions with v's id, one has the latest stamp.
LEMMA LatestStamp ==
    ASSUME NEW S \in SUBSET VersionStates, NEW v \in S
    PROVE  \E w \in S : /\ SameId(v, w)
                         /\ \A x \in S : SameId(w, x) => x.stamp <= w.stamp
<1> DEFINE Age(w) == MaxNow - w.stamp
           T == {n \in Nat : \E w \in S : SameId(v, w) /\ n = Age(w)}
<1>1. ASSUME NEW w \in S
      PROVE  w.stamp \in Int /\ Age(w) \in Nat
  <2>1. w.stamp \in SeedStamps
    BY DEF VersionStates
  <2>2. w.stamp \in Int /\ w.stamp <= MaxNow /\ MaxNow \in Nat
    BY <2>1, StampFacts
  <2> QED
    BY <2>2
<1>2. T \subseteq Nat /\ T # {}
  <2>1. SameId(v, v)
    BY DEF SameId
  <2> QED
    BY <1>1, <2>1
<1>3. PICK n \in T : \A m \in T : ~(<<m, n>> \in OpToRel(<, Nat))
  <2> HIDE DEF T
  <2> QED
    BY <1>2, NatLessThanWellFounded, WFMin
<1>4. ASSUME NEW m \in T
      PROVE  n <= m
  <2> HIDE DEF T
  <2>1. m \in Nat /\ n \in Nat
    BY <1>2
  <2>2. ~(m < n)
    BY <1>3, <2>1 DEF OpToRel
  <2> QED
    BY <2>1, <2>2
<1>5. PICK w \in S : SameId(v, w) /\ n = Age(w)
  OBVIOUS
<1>6. ASSUME NEW x \in S, SameId(w, x)
      PROVE  x.stamp <= w.stamp
  <2>1. SameId(v, x)
    BY <1>5, <1>6 DEF SameId
  <2>2. n <= Age(x)
    BY <1>1, <1>4, <2>1
  <2> QED
    BY <1>1, <1>5, <2>2, StampFacts
<1> QED
  BY <1>5, <1>6

LEMMA mergeVersionsKeeps ==
    ASSUME NEW R \in SUBSET VersionStates, NEW L \in SUBSET VersionStates
    PROVE  /\ mergeVersions(R, L) \subseteq VersionStates
           /\ \A v \in R \cup L : \E w \in mergeVersions(R, L) :
                 SameId(v, w) /\ v.stamp <= w.stamp
<1>1. R \cup L \in SUBSET VersionStates
  OBVIOUS
<1>2. ASSUME NEW v \in R \cup L
      PROVE  \E w \in mergeVersions(R, L) : SameId(v, w) /\ v.stamp <= w.stamp
  <2>1. PICK w \in R \cup L : /\ SameId(v, w)
                             /\ \A x \in R \cup L : SameId(w, x) => x.stamp <= w.stamp
    BY <1>1, LatestStamp
  <2>2. SameId(w, v)
    BY <2>1 DEF SameId
  <2> QED
    BY <2>1, <2>2 DEF mergeVersions
<1> QED
  BY <1>1, <1>2 DEF mergeVersions

\* A merge takes every entry from one side, and the ids of both.
LEMMA mergeKeeps ==
    ASSUME NEW r \in Vaults, NEW l \in Vaults
    PROVE  /\ mergeVaultDatasets(r, l) \in Vaults
           /\ Keeps(l, mergeVaultDatasets(r, l))
           /\ Keeps(r, mergeVaultDatasets(r, l))
<1> DEFINE c == mergeVaultDatasets(r, l)
<1>1. c.entries \in [Entries -> EntryStates \cup {None}]
  BY VaultParts DEF mergeVaultDatasets, mergeById
<1>2. \A e \in Entries : c.entries[e] = r.entries[e] \/ c.entries[e] = l.entries[e]
  BY VaultParts DEF mergeVaultDatasets, mergeById
<1>3. c.drafts \in [DraftKeys -> [stamp : Stamps] \cup {None}]
  BY VaultParts DEF mergeVaultDatasets, mergeById
<1>4. /\ c.versions \subseteq VersionStates
      /\ \A v \in r.versions \cup l.versions : \E w \in c.versions :
            SameId(v, w) /\ v.stamp <= w.stamp
  BY VaultParts, mergeVersionsKeeps DEF mergeVaultDatasets
<1>5. c.records \subseteq Stamps
  BY VaultParts DEF mergeVaultDatasets
<1>6. c \in Datasets
  <2>1. c = [entries |-> c.entries, versions |-> c.versions,
             drafts |-> c.drafts, records |-> c.records, prefs |-> c.prefs]
    BY DEF mergeVaultDatasets
  <2>2. c.prefs \in Stamps
    BY VaultParts DEF mergeVaultDatasets
  <2> HIDE DEF c
  <2> QED
    BY <1>1, <1>3, <1>4, <1>5, <2>1, <2>2 DEF Datasets
<1> HIDE DEF c
<1>7. NamesItsVersions(c)
  <2> SUFFICES ASSUME NEW e \in Entries, Has(c, e)
               PROVE  \E w \in c.versions : w.entry = e /\ w.number = c.entries[e].number
    BY DEF NamesItsVersions
  <2>1. PICK v \in r.versions \cup l.versions : v.entry = e /\ v.number = c.entries[e].number
    BY <1>2, VaultParts DEF NamesItsVersions, Has
  <2> QED
    BY <1>4, <2>1 DEF SameId
<1> QED
  BY <1>4, <1>6, <1>7 DEF Vaults, Keeps, c

-----------------------------------------------------------------------------
(* The calls under way *)

LEMMA DropKeeps ==
    ASSUME NEW S, NEW s \in Seq(S), NEW i \in 1..Len(s)
    PROVE  Drop(s, i) \in Seq(S)
<1>1. Len(s) \in Nat /\ \A j \in 1..Len(s) : s[j] \in S
  BY LenProperties, ElementOfSeq
<1>2. SubSeq(s, 1, i - 1) \in Seq(S)
  BY <1>1, SubSeqProperties
<1>3. SubSeq(s, i + 1, Len(s)) \in Seq(S)
  BY <1>1, SubSeqProperties
<1> QED
  BY <1>2, <1>3, ConcatProperties DEF Drop

LEMMA OrphanedKeeps ==
    ASSUME NEW s \in Seq(VaultSaves)
    PROVE  Orphaned(s) \in Seq(VaultSaves)
<1>1. Len(s) \in Nat /\ \A j \in 1..Len(s) : s[j] \in VaultSaves
  BY LenProperties, ElementOfSeq
<1>2. \A j \in 1..Len(s) : [s[j] EXCEPT !.kind = "orphan", !.own = FALSE] \in VaultSaves
  BY <1>1 DEF VaultSaves
<1> HIDE DEF VaultSaves
<1>3. Orphaned(s) \in [1..Len(s) -> VaultSaves]
  BY <1>2 DEF Orphaned
<1> QED
  BY <1>1, <1>3

LEMMA DisownedKeeps ==
    ASSUME NEW s \in Seq(VaultSaves)
    PROVE  Disowned(s) \in Seq(VaultSaves)
<1>1. Len(s) \in Nat /\ \A j \in 1..Len(s) : s[j] \in VaultSaves
  BY LenProperties, ElementOfSeq
<1>2. \A j \in 1..Len(s) : [s[j] EXCEPT !.own = FALSE] \in VaultSaves
  BY <1>1 DEF VaultSaves
<1> HIDE DEF VaultSaves
<1>3. Disowned(s) \in [1..Len(s) -> VaultSaves]
  BY <1>2 DEF Disowned
<1> QED
  BY <1>1, <1>3

-----------------------------------------------------------------------------
(* Every step keeps the invariant *)

LEMMA InitIInv == Init => IInv
<1> SUFFICES ASSUME Init PROVE IInv
  OBVIOUS
<1>1. calls \in [Pages -> Seq(VaultSaves)]
  BY EmptySeq DEF Init
<1>2. 0 \in Stamps /\ 0 \in 0..MaxVisits
  BY VaultAssumption DEF Stamps
<1> QED
  BY <1>1, <1>2, VaultAssumption DEF Init, IInv

\* What the effects of a commit leave behind.
LEMMA EffectsLeave ==
    ASSUME IInv, NEW p \in Pages, NEW d \in Vaults, NEW u \in Users \cup {None},
           NEW h, NEW s, Effects(p, d, u, h, s)
    PROVE  /\ load' \in [Pages -> VaultLoads \cup {None}]
           /\ timer' \in [Pages -> BOOLEAN]
           /\ load'[p] # None => load'[p].user = u /\ load'[p].base = d
           /\ timer'[p] => u # None
           /\ \A q \in Pages : q # p => load'[q] = load[q] /\ timer'[q] = timer[q]
<1>1. u # None => Awaits(u, d) \in VaultLoads
  BY DEF Awaits, VaultLoads
<1>2. Awaits(u, d).user = u /\ Awaits(u, d).base = d
  BY DEF Awaits
<1>3. load \in [Pages -> VaultLoads \cup {None}]
  BY DEF IInv
<1>4. timer \in [Pages -> BOOLEAN]
  BY DEF IInv
<1>5. load' = [load EXCEPT ![p] = IF u # None /\ h # u THEN Awaits(u, d) ELSE None]
  BY DEF Effects
<1>6. timer' = [timer EXCEPT ![p] = u # None /\ h = u /\ s # d]
  BY DEF Effects
<1>8. load' \in [Pages -> VaultLoads \cup {None}]
  BY <1>1, <1>3, <1>5
<1>9. load'[p] # None => load'[p].user = u /\ load'[p].base = d
  BY <1>2, <1>3, <1>5
<1>10. timer' \in [Pages -> BOOLEAN] /\ (timer'[p] => u # None)
  BY <1>4, <1>6
<1> QED
  BY <1>3, <1>4, <1>5, <1>6, <1>8, <1>9, <1>10

LEMMA OpenIInv ==
    ASSUME IInv, NEW p \in Pages, Open(p)
    PROVE  IInv'
<1> DEFINE b == BrowserOf[p]
           d == IF storage[b] = None THEN Seed(now) ELSE storage[b]
<1>1. b \in Browsers
  BY VaultAssumption
<1>2. d \in Vaults
  BY <1>1, SeedIsVault DEF IInv
<1> HIDE DEF d, b
<1>3. /\ dataset' = [dataset EXCEPT ![p] = d]
      /\ storage' = [storage EXCEPT ![b] = d]
  BY DEF Open, d, b
<1>4. visits' \in 0..MaxVisits
  BY VaultAssumption DEF IInv, Open
<1>5. /\ open' = [open EXCEPT ![p] = TRUE]
      /\ UNCHANGED <<now, ids, signedIn, row, queued, user, hydrated, sync, snapshot,
                     load, timer, calls, written, lost>>
  BY DEF Open, told
<1>6. \A q \in Pages :
          /\ open'[q] => dataset'[q] \in Vaults
          /\ queued[q] # 0 \/ load[q] # None \/ timer[q] => open'[q]
  BY <1>2, <1>3, <1>5 DEF IInv
<1> QED
  BY <1>1, <1>2, <1>3, <1>4, <1>5, <1>6 DEF IInv

LEMMA CloseIInv ==
    ASSUME IInv, NEW p \in Pages, Close(p)
    PROVE  IInv'
<1>1. calls' \in [Pages -> Seq(VaultSaves)]
  BY OrphanedKeeps DEF IInv, Close
<1>2. 0 \in Stamps
  BY StampFacts
<1> QED
  BY <1>1, <1>2 DEF IInv, Close

LEMMA SignIInv ==
    ASSUME IInv, NEW b \in Browsers, Sign(b)
    PROVE  IInv'
<1>1. visits' \in 0..MaxVisits
  BY VaultAssumption DEF IInv, Sign
<1> QED
  BY <1>1 DEF IInv, Sign, told

LEMMA AuthStateChangeIInv ==
    ASSUME IInv, NEW p \in Pages, AuthStateChange(p)
    PROVE  IInv'
<1> DEFINE u == signedIn[BrowserOf[p]]
           h == IF u = None THEN None ELSE hydrated[p]
           s == IF u = None THEN None ELSE snapshot[p]
<1>1. u \in Users \cup {None}
  BY VaultAssumption DEF IInv
<1>2. h \in Users \cup {None} /\ s \in Vaults \cup {None}
  BY DEF IInv
<1>3. Effects(p, dataset[p], u, h, s)
  BY DEF AuthStateChange
<1>4. dataset[p] \in Vaults /\ open[p]
  BY DEF IInv, AuthStateChange
<1>5. sync' \in [Pages -> {"idle", "loading", "saving", "error"}]
  BY DEF AuthStateChange, Loading, IInv
<1>6. /\ user' = [user EXCEPT ![p] = u]
      /\ hydrated' = [hydrated EXCEPT ![p] = h]
      /\ snapshot' = [snapshot EXCEPT ![p] = s]
      /\ written' = [written EXCEPT ![p] = IF u = None THEN None ELSE @]
      /\ calls' = [calls EXCEPT ![p] = IF u = None THEN Disowned(@) ELSE @]
      /\ lost' = [lost EXCEPT ![p] = @ /\ u # None]
      /\ UNCHANGED <<now, ids, visits, storage, signedIn, row, open, dataset, queued>>
  BY DEF AuthStateChange
<1> HIDE DEF u, h, s
<1>7. /\ load' \in [Pages -> VaultLoads \cup {None}]
      /\ timer' \in [Pages -> BOOLEAN]
      /\ load'[p] # None => load'[p].user = u
      /\ timer'[p] => u # None
      /\ \A q \in Pages : q # p => load'[q] = load[q] /\ timer'[q] = timer[q]
  BY <1>1, <1>3, <1>4, EffectsLeave
<1>8. /\ calls' \in [Pages -> Seq(VaultSaves)]
      /\ written' \in [Pages -> Vaults \cup {None}]
      /\ lost' \in [Pages -> BOOLEAN]
  BY <1>6, DisownedKeeps DEF IInv
<1> QED
  BY <1>1, <1>2, <1>4, <1>5, <1>6, <1>7, <1>8 DEF IInv

LEMMA EditIInv ==
    ASSUME IInv, NEW p \in Pages, Edit(p)
    PROVE  IInv'
<1>1. now' \in Stamps /\ now + 1 \in Stamps
  BY VaultAssumption DEF IInv, Edit, Stamps
<1> QED
  BY <1>1 DEF IInv, Edit, told

\* A vault that is shown is stored, and the rest stays what it is.
LEMMA ShowLeaves ==
    ASSUME IInv, NEW p \in Pages, NEW d \in Vaults, Show(p, d), open[p]
    PROVE  /\ dataset' \in [Pages -> Vaults \cup {None}]
           /\ storage' \in [Browsers -> Vaults \cup {None}]
           /\ load' \in [Pages -> VaultLoads \cup {None}]
           /\ timer' \in [Pages -> BOOLEAN]
           /\ sync' \in [Pages -> {"idle", "loading", "saving", "error"}]
           /\ \A q \in Pages :
                 /\ open[q] => dataset'[q] \in Vaults
                 /\ load'[q] # None \/ timer'[q] => open[q]
                 /\ load'[q] # None => load'[q].user = user[q]
                 /\ timer'[q] => user[q] # None
<1>1. /\ dataset' = [dataset EXCEPT ![p] = d]
      /\ storage' = [storage EXCEPT ![BrowserOf[p]] = d]
      /\ Effects(p, d, user[p], hydrated[p], snapshot[p])
  BY DEF Show
<1>2. sync' \in [Pages -> {"idle", "loading", "saving", "error"}]
  BY DEF Show, Loading, IInv
<1>3. user[p] \in Users \cup {None}
  BY DEF IInv
<1>4. /\ load' \in [Pages -> VaultLoads \cup {None}]
      /\ timer' \in [Pages -> BOOLEAN]
      /\ load'[p] # None => load'[p].user = user[p]
      /\ timer'[p] => user[p] # None
      /\ \A q \in Pages : q # p => load'[q] = load[q] /\ timer'[q] = timer[q]
  BY <1>1, <1>3, EffectsLeave
<1> QED
  BY <1>1, <1>2, <1>4, VaultAssumption DEF IInv

LEMMA CommitIInv ==
    ASSUME IInv, NEW p \in Pages, NEW d \in Vaults, Commit(p, d)
    PROVE  IInv'
<1>1. open[p] /\ 0 \in Stamps
  BY StampFacts DEF IInv, Commit, told
<1>2. ids' \subseteq Entries
  BY DEF IInv, Commit, told
<1>3. CASE d = dataset[p]
  BY <1>1, <1>2, <1>3 DEF IInv, Commit, told
<1>4. CASE d # dataset[p]
  <2>1. Show(p, d)
    BY <1>4 DEF Commit
  <2> QED
    BY <1>1, <1>2, <2>1, ShowLeaves DEF IInv, Commit, told
<1> QED
  BY <1>3, <1>4

\* An edit is applied to a vault, with a stamp.
LEMMA QueuedFacts ==
    ASSUME IInv, NEW p \in Pages, queued[p] # 0
    PROVE  dataset[p] \in Vaults /\ queued[p] \in Stamps
  BY DEF IInv

\* What every edit makes of the data set is a vault that forgets no version.
LEMMA AppliedKeeps ==
    ASSUME IInv, NEW p \in Pages, Applied(p)
    PROVE  \E d \in Vaults : Commit(p, d) /\ Keeps(dataset[p], d)
<1> DEFINE D == dataset[p]
           t == queued[p]
<1>1. queued[p] # 0
  BY DEF Applied, SaveEntry, ApplySuggestion, DuplicateEntry, RestoreVersion, ToggleFlag,
         AddRecord, UpdatePreferences, SaveDraft, DiscardDraft, Commit
<1>2. D \in Vaults /\ t \in Stamps
  BY <1>1, QueuedFacts
<1>3. CASE SaveEntry(p)
  BY <1>2, <1>3, handleSaveKeeps DEF SaveEntry
<1>4. CASE ApplySuggestion(p)
  BY <1>2, <1>4, upsertEntryKeeps DEF ApplySuggestion
<1>5. CASE DuplicateEntry(p)
  <2>1. PICK e \in Entries, f \in Entries :
            Has(D, e) /\ Commit(p, upsertEntry(D, f, D.entries[e].text, t))
    BY <1>5 DEF DuplicateEntry
  <2>2. D.entries[e].text \in Stamps
    BY <1>2, <2>1, VaultParts DEF Has, EntryStates
  <2> QED
    BY <1>2, <2>1, <2>2, upsertEntryKeeps
<1>6. CASE RestoreVersion(p)
  <2>1. PICK v \in D.versions : Commit(p, WithVersion(D, v.entry, v.text, t))
    BY <1>6 DEF RestoreVersion
  <2>2. v.entry \in Entries /\ v.text \in Stamps
    BY <1>2, <2>1, VaultParts DEF VersionStates
  <2> QED
    BY <1>2, <2>1, <2>2, WithVersionKeeps
<1>7. CASE ToggleFlag(p)
  BY <1>2, <1>7, toggleKeeps DEF ToggleFlag
<1>8. CASE AddRecord(p)
  BY <1>2, <1>8, addRecordKeeps DEF AddRecord
<1>11. CASE UpdatePreferences(p)
  BY <1>2, <1>11, setPreferencesKeeps DEF UpdatePreferences
<1>9. CASE SaveDraft(p)
  BY <1>2, <1>9, saveDraftKeeps DEF SaveDraft
<1>10. CASE DiscardDraft(p)
  BY <1>2, <1>10, discardDraftKeeps DEF DiscardDraft
<1> QED
  BY <1>3, <1>4, <1>5, <1>6, <1>7, <1>8, <1>9, <1>10, <1>11 DEF Applied

LEMMA ResetPreviewIInv ==
    ASSUME IInv, NEW p \in Pages, ResetPreview(p)
    PROVE  IInv'
<1>1. now + 1 \in Stamps /\ 0 \in Stamps
  BY VaultAssumption DEF IInv, ResetPreview, Stamps
<1>2. Seed(now + 1) \in Vaults
  BY <1>1, SeedIsVault
<1>3. open[p] /\ Show(p, Seed(now + 1))
  BY DEF ResetPreview
<1>4. queued' \in [Pages -> Stamps] /\ \A q \in Pages : queued'[q] # 0 => queued[q] # 0
  BY <1>1 DEF IInv, ResetPreview
<1> HIDE DEF Seed
<1> QED
  BY <1>1, <1>2, <1>3, <1>4, ShowLeaves DEF IInv, ResetPreview, told

LEMMA AnswerLoadIInv ==
    ASSUME IInv, NEW p \in Pages, AnswerLoad(p)
    PROVE  IInv'
<1>1. load[p] \in VaultLoads /\ load[p].user = user[p]
  BY DEF IInv, AnswerLoad
<1>2. row[load[p].user] \in Vaults \cup {None}
  BY <1>1 DEF IInv, VaultLoads
<1> DEFINE l == [load[p] EXCEPT !.answered = TRUE, !.state = row[load[p].user]]
<1>3. l \in VaultLoads /\ l.user = load[p].user
  BY <1>1, <1>2 DEF VaultLoads
<1>4. load' = [load EXCEPT ![p] = l]
  BY <1>1 DEF AnswerLoad, IInv
<1> HIDE DEF l
<1>5. UNCHANGED <<now, ids, visits, storage, signedIn, row, open, dataset, queued, user,
                  hydrated, sync, snapshot, timer, calls, written, lost>>
  BY DEF AnswerLoad, told
<1>6. load' \in [Pages -> VaultLoads \cup {None}]
  BY <1>3, <1>4 DEF IInv
<1>7. load[p] # None /\ load'[p].user = user[p] /\ \A q \in Pages : q # p => load'[q] = load[q]
  BY <1>1, <1>3, <1>4 DEF IInv, AnswerLoad
<1> QED
  BY <1>5, <1>6, <1>7 DEF IInv

\* What a page makes of the answer to its load.
Merged(l) == IF l.state = None THEN l.base ELSE mergeVaultDatasets(l.state, l.base)

LEMMA MergedKeeps ==
    ASSUME NEW l \in VaultLoads
    PROVE  Merged(l) \in Vaults /\ Keeps(l.base, Merged(l))
<1>1. l.base \in Vaults /\ (l.state # None => l.state \in Vaults)
  BY DEF VaultLoads
<1>2. Keeps(l.base, l.base)
  BY <1>1, KeepsMore
<1> QED
  BY <1>1, <1>2, mergeKeeps DEF Merged

LEMMA HydrateIInv ==
    ASSUME IInv, NEW p \in Pages, Hydrate(p)
    PROVE  IInv'
<1> DEFINE l == load[p]
           d == Merged(l)
<1>1. l \in VaultLoads /\ l.user = user[p] /\ open[p]
  BY DEF IInv, Hydrate
<1>2. d \in Vaults /\ l.user \in Users /\ 0 \in Stamps
  BY <1>1, MergedKeeps, StampFacts DEF VaultLoads
<1>3. /\ dataset' = [dataset EXCEPT ![p] = d]
      /\ storage' = [storage EXCEPT ![BrowserOf[p]] = d]
      /\ queued' = [queued EXCEPT ![p] = 0]
      /\ hydrated' = [hydrated EXCEPT ![p] = l.user]
      /\ snapshot' = [snapshot EXCEPT ![p] = d]
      /\ Effects(p, d, user[p], l.user, d)
      /\ lost' = [lost EXCEPT ![p] = FALSE]
      /\ UNCHANGED <<now, ids, visits, signedIn, row, open, user>>
  BY DEF Hydrate, Merged
<1>4. calls' \in [Pages -> Seq(VaultSaves)]
  <2> DEFINE c == [kind |-> "first", own |-> TRUE, user |-> l.user, state |-> d]
  <2>1. c \in VaultSaves
    BY <1>2 DEF VaultSaves
  <2>2. Disowned(calls[p]) \in Seq(VaultSaves)
    BY DisownedKeeps DEF IInv
  <2>3. \/ calls' = [calls EXCEPT ![p] = Append(Disowned(@), c)]
        \/ calls' = [calls EXCEPT ![p] = Disowned(@)]
    BY DEF Hydrate, Merged
  <2> HIDE DEF c, VaultSaves
  <2>4. Append(Disowned(calls[p]), c) \in Seq(VaultSaves)
    BY <2>1, <2>2, AppendProperties
  <2> QED
    BY <2>2, <2>3, <2>4 DEF IInv
<1>5. /\ sync' \in [Pages -> {"idle", "loading", "saving", "error"}]
      /\ written' \in [Pages -> Vaults \cup {None}]
  <2>1. \/ sync' = [sync EXCEPT ![p] = "idle"] /\ written' = [written EXCEPT ![p] = d]
        \/ UNCHANGED sync /\ written' = [written EXCEPT ![p] = None]
    BY DEF Hydrate, Merged
  <2> HIDE DEF d
  <2>2. CASE sync' = [sync EXCEPT ![p] = "idle"] /\ written' = [written EXCEPT ![p] = d]
    BY <1>2, <2>2 DEF IInv
  <2>3. CASE UNCHANGED sync /\ written' = [written EXCEPT ![p] = None]
    BY <2>3 DEF IInv
  <2> QED
    BY <2>1, <2>2, <2>3
<1> HIDE DEF d, l
<1>6. user[p] \in Users \cup {None}
  BY DEF IInv
<1>7. /\ load' \in [Pages -> VaultLoads \cup {None}]
      /\ timer' \in [Pages -> BOOLEAN]
      /\ load'[p] # None => load'[p].user = user[p]
      /\ timer'[p] => user[p] # None
      /\ \A q \in Pages : q # p => load'[q] = load[q] /\ timer'[q] = timer[q]
  BY <1>2, <1>3, <1>6, EffectsLeave
<1> QED
  BY <1>1, <1>2, <1>3, <1>4, <1>5, <1>7, VaultAssumption DEF IInv

LEMMA LoadFailsIInv ==
    ASSUME IInv, NEW p \in Pages, LoadFails(p)
    PROVE  IInv'
  BY DEF IInv, LoadFails

LEMMA TimerFiresIInv ==
    ASSUME IInv, NEW p \in Pages, TimerFires(p)
    PROVE  IInv'
<1> DEFINE c == [kind |-> "save", own |-> TRUE, user |-> user[p], state |-> dataset[p]]
<1>1. c \in VaultSaves
  BY DEF IInv, TimerFires, VaultSaves
<1>2. Append(calls[p], c) \in Seq(VaultSaves)
  BY <1>1, AppendProperties DEF IInv
<1>3. calls' = [calls EXCEPT ![p] = Append(@, c)]
  BY DEF TimerFires
<1> HIDE DEF c
<1> QED
  BY <1>2, <1>3 DEF IInv, TimerFires

LEMMA OutrunFacts ==
    ASSUME NEW s \in Seq(VaultSaves), NEW i \in 1..Len(s)
    PROVE  /\ Outrun(s, i) \in Seq(VaultSaves)
           /\ Len(Outrun(s, i)) = Len(s)
           /\ \A j \in 1..Len(s) :
                 /\ Outrun(s, i)[j].state = s[j].state
                 /\ Outrun(s, i)[j].kind = s[j].kind
                 /\ Outrun(s, i)[j].own <=> s[j].own /\ ~(s[i].own /\ j < i)
<1>1. Len(s) \in Nat /\ \A j \in 1..Len(s) : s[j] \in VaultSaves
  BY LenProperties, ElementOfSeq
<1>2. \A j \in 1..Len(s) :
          /\ [s[j] EXCEPT !.own = FALSE] \in VaultSaves
          /\ [s[j] EXCEPT !.own = FALSE].state = s[j].state
          /\ [s[j] EXCEPT !.own = FALSE].kind = s[j].kind
          /\ ~[s[j] EXCEPT !.own = FALSE].own
  BY <1>1 DEF VaultSaves
<1> HIDE DEF VaultSaves
<1>3. Outrun(s, i) \in [1..Len(s) -> VaultSaves]
  BY <1>1, <1>2 DEF Outrun
<1>4. Outrun(s, i) \in Seq(VaultSaves) /\ Len(Outrun(s, i)) = Len(s)
  BY <1>1, <1>3
<1>5. \A j \in 1..Len(s) :
          Outrun(s, i)[j] = IF s[i].own /\ j < i THEN [s[j] EXCEPT !.own = FALSE] ELSE s[j]
  BY <1>1 DEF Outrun
<1> HIDE DEF Outrun
<1> QED
  BY <1>2, <1>4, <1>5

LEMMA CallFacts ==
    ASSUME IInv, NEW p \in Pages, NEW i \in 1..Len(calls[p])
    PROVE  /\ calls[p][i] \in VaultSaves
           /\ Drop(calls[p], i) \in Seq(VaultSaves)
           /\ Drop(Outrun(calls[p], i), i) \in Seq(VaultSaves)
<1>1. calls[p] \in Seq(VaultSaves)
  BY DEF IInv
<1>2. /\ Outrun(calls[p], i) \in Seq(VaultSaves)
      /\ Len(Outrun(calls[p], i)) = Len(calls[p])
  BY <1>1, OutrunFacts
<1> QED
  BY <1>1, <1>2, ElementOfSeq, DropKeeps

LEMMA SaveLandsIInv ==
    ASSUME IInv, NEW p \in Pages, SaveLands(p)
    PROVE  IInv'
<1>1. PICK i \in 1..Len(calls[p]) :
        LET c == calls[p][i] IN
        /\ row' = [row EXCEPT ![c.user] = c.state]
        /\ calls' = [calls EXCEPT ![p] = Drop(Outrun(@, i), i)]
        /\ snapshot' = [snapshot EXCEPT ![p] = IF c.kind = "save" THEN c.state ELSE @]
        /\ sync' = [sync EXCEPT ![p] = IF c.kind = "orphan" THEN @ ELSE "idle"]
        /\ written' = [written EXCEPT ![p] = IF c.own THEN c.state ELSE @]
        /\ UNCHANGED <<now, ids, visits, storage, signedIn, open, dataset, queued, user,
                       hydrated, load, timer, lost>>
  BY DEF SaveLands
<1> DEFINE c == calls[p][i]
<1>2. c \in VaultSaves /\ Drop(Outrun(calls[p], i), i) \in Seq(VaultSaves)
  BY CallFacts
<1>3. c.user \in Users /\ c.state \in Vaults
  BY <1>2 DEF VaultSaves
<1> HIDE DEF c
<1> QED
  BY <1>1, <1>2, <1>3 DEF IInv, c

LEMMA SaveFailsIInv ==
    ASSUME IInv, NEW p \in Pages, SaveFails(p)
    PROVE  IInv'
<1>1. PICK i \in 1..Len(calls[p]) :
        LET c == calls[p][i] IN
        /\ row' \in {row, [row EXCEPT ![c.user] = c.state]}
        /\ calls' = [calls EXCEPT ![p] = Drop(@, i)]
        /\ sync' = [sync EXCEPT ![p] = IF c.kind = "save" THEN "error" ELSE @]
        /\ lost' = [lost EXCEPT ![p] = @ \/ (c.own /\ i = Len(calls[p]))]
        /\ UNCHANGED <<now, ids, visits, storage, signedIn, open, dataset, queued, user,
                       hydrated, snapshot, load, timer, written>>
  BY DEF SaveFails
<1> DEFINE c == calls[p][i]
<1>2. c \in VaultSaves /\ Drop(calls[p], i) \in Seq(VaultSaves)
  BY CallFacts
<1>3. c.user \in Users /\ c.state \in Vaults
  BY <1>2 DEF VaultSaves
<1>4. lost' \in [Pages -> BOOLEAN]
  BY <1>1 DEF IInv
<1>5. row' \in [Users -> Vaults \cup {None}]
  BY <1>1, <1>3 DEF IInv
<1>6. sync' \in [Pages -> {"idle", "loading", "saving", "error"}]
  BY <1>1 DEF IInv
<1>7. calls' \in [Pages -> Seq(VaultSaves)]
  BY <1>1, <1>2 DEF IInv
<1> QED
  BY <1>1, <1>4, <1>5, <1>6, <1>7 DEF IInv

LEMMA StepIInv == IInv /\ [Next]_vars => IInv'
<1> SUFFICES ASSUME IInv, [Next]_vars PROVE IInv'
  OBVIOUS
<1>1. CASE UNCHANGED vars
  BY <1>1 DEF IInv, vars, told
<1>2. ASSUME NEW p \in Pages, Open(p) PROVE IInv'
  BY <1>2, OpenIInv
<1>3. ASSUME NEW p \in Pages, Close(p) PROVE IInv'
  BY <1>3, CloseIInv
<1>4. ASSUME NEW p \in Pages, AuthStateChange(p) PROVE IInv'
  BY <1>4, AuthStateChangeIInv
<1>5. ASSUME NEW p \in Pages, Edit(p) PROVE IInv'
  BY <1>5, EditIInv
<1>6. ASSUME NEW p \in Pages, ResetPreview(p) PROVE IInv'
  BY <1>6, ResetPreviewIInv
<1>7. ASSUME NEW p \in Pages, Applied(p) PROVE IInv'
  BY <1>7, AppliedKeeps, CommitIInv
<1>8. ASSUME NEW p \in Pages, AnswerLoad(p) PROVE IInv'
  BY <1>8, AnswerLoadIInv
<1>9. ASSUME NEW p \in Pages, Hydrate(p) PROVE IInv'
  BY <1>9, HydrateIInv
<1>10. ASSUME NEW p \in Pages, LoadFails(p) PROVE IInv'
  BY <1>10, LoadFailsIInv
<1>11. ASSUME NEW p \in Pages, TimerFires(p) PROVE IInv'
  BY <1>11, TimerFiresIInv
<1>12. ASSUME NEW p \in Pages, SaveLands(p) PROVE IInv'
  BY <1>12, SaveLandsIInv
<1>13. ASSUME NEW p \in Pages, SaveFails(p) PROVE IInv'
  BY <1>13, SaveFailsIInv
<1>14. ASSUME NEW b \in Browsers, Sign(b) PROVE IInv'
  BY <1>14, SignIInv
<1> QED
  BY <1>1, <1>2, <1>3, <1>4, <1>5, <1>6, <1>7, <1>8, <1>9, <1>10, <1>11, <1>12, <1>13,
     <1>14 DEF Next, Step, Progress

LEMMA InvariantIInv == Spec => []IInv
  BY InitIInv, StepIInv, PTL DEF Spec

\* Every variable holds what the code keeps in it, and a page asks the cloud
\* for nothing unless it is open and knows its user.
THEOREM VaultTypeCorrect == Spec => []TypeOK
<1>1. IInv => TypeOK
  <2> SUFFICES ASSUME IInv PROVE TypeOK
    OBVIOUS
  <2>1. Vaults \subseteq Datasets
    BY DEF Vaults
  <2>2. VaultLoads \subseteq Loads
    BY <2>1 DEF VaultLoads, Loads
  <2>3. VaultSaves \subseteq Saves
    BY <2>1 DEF VaultSaves, Saves
  <2>4. calls \in [Pages -> Seq(Saves)]
    BY <2>3 DEF IInv
  <2> HIDE DEF Vaults, VaultLoads, VaultSaves
  <2> QED
    BY <2>1, <2>2, <2>4 DEF IInv, TypeOK
<1> QED
  BY <1>1, InvariantIInv, PTL

\* Merges, edits, restores, lost answers and crossing saves never part an entry
\* from the version it names, in any page, browser, row or save.
THEOREM LatestVersionsAreRecorded == Spec => []LatestIsRecorded
<1>1. IInv => LatestIsRecorded
  <2> SUFFICES ASSUME IInv PROVE LatestIsRecorded
    OBVIOUS
  <2>1. \A d \in Vaults : NamesItsVersions(d)
    BY DEF Vaults
  <2>2. ASSUME NEW p \in Pages, NEW i \in 1..Len(calls[p])
        PROVE  calls[p][i].state \in Vaults
    <3>1. calls[p] \in Seq(VaultSaves)
      BY DEF IInv
    <3>2. calls[p][i] \in VaultSaves
      BY <3>1, ElementOfSeq
    <3> QED
      BY <3>2 DEF VaultSaves
  <2> QED
    BY <2>1, <2>2 DEF IInv, LatestIsRecorded
<1> QED
  BY <1>1, InvariantIInv, PTL

-----------------------------------------------------------------------------
(* A browser with one page: the stored data set is the one shown *)

OneToOne == \A p, q \in Pages : BrowserOf[p] = BrowserOf[q] => p = q

\* The page mirrors its storage, and a load is of the data set that is shown.
Mirrored ==
    \A p \in Pages :
        /\ open[p] => storage[BrowserOf[p]] = dataset[p]
        /\ load[p] # None => load[p].base = dataset[p]

\* A vault d put on the page and in the storage together.
LEMMA PutMirrors ==
    ASSUME OneToOne, IInv, Mirrored, NEW p \in Pages, NEW d \in Vaults, NEW h, NEW s,
           dataset' = [dataset EXCEPT ![p] = d],
           storage' = [storage EXCEPT ![BrowserOf[p]] = d],
           Effects(p, d, user[p], h, s),
           UNCHANGED open
    PROVE  Mirrored'
<1>1. user[p] \in Users \cup {None} /\ BrowserOf[p] \in Browsers
  BY VaultAssumption DEF IInv
<1>2. /\ load'[p] # None => load'[p].base = d
      /\ \A q \in Pages : q # p => load'[q] = load[q]
  BY <1>1, EffectsLeave
<1>3. dataset'[p] = d /\ storage'[BrowserOf[p]] = d
  BY <1>1 DEF IInv
<1>4. \A q \in Pages : q # p => /\ dataset'[q] = dataset[q]
                                /\ storage'[BrowserOf[q]] = storage[BrowserOf[q]]
  BY VaultAssumption DEF OneToOne, IInv
<1> QED
  BY <1>2, <1>3, <1>4 DEF Mirrored

LEMMA CommitMirrors ==
    ASSUME OneToOne, IInv, Mirrored, NEW p \in Pages, NEW d \in Vaults, Commit(p, d)
    PROVE  Mirrored'
<1>1. CASE d = dataset[p]
  BY <1>1 DEF Commit, Mirrored
<1>2. CASE d # dataset[p]
  BY <1>2, PutMirrors DEF Commit, Show
<1> QED
  BY <1>1, <1>2

LEMMA OpenMirrors ==
    ASSUME OneToOne, IInv, Mirrored, NEW p \in Pages, Open(p)
    PROVE  Mirrored'
<1> DEFINE b == BrowserOf[p]
           d == IF storage[b] = None THEN Seed(now) ELSE storage[b]
<1>1. /\ dataset' = [dataset EXCEPT ![p] = d]
      /\ storage' = [storage EXCEPT ![b] = d]
      /\ open' = [open EXCEPT ![p] = TRUE]
      /\ UNCHANGED load
  BY DEF Open
<1> HIDE DEF d
<1>2. dataset'[p] = storage'[b]
  BY <1>1, VaultAssumption DEF IInv
<1>3. load[p] = None
  BY DEF IInv, Open
<1>4. \A q \in Pages : q # p => /\ dataset'[q] = dataset[q]
                                /\ storage'[BrowserOf[q]] = storage[BrowserOf[q]]
                                /\ open'[q] = open[q]
  BY <1>1, VaultAssumption DEF OneToOne, IInv
<1> QED
  BY <1>1, <1>2, <1>3, <1>4 DEF Mirrored

LEMMA StepMirrors ==
    ASSUME OneToOne
    PROVE  IInv /\ Mirrored /\ [Next]_vars => Mirrored'
<1> SUFFICES ASSUME IInv, Mirrored, [Next]_vars PROVE Mirrored'
  OBVIOUS
<1>1. CASE UNCHANGED vars
  BY <1>1 DEF Mirrored, vars
<1>2. ASSUME NEW p \in Pages, Open(p) PROVE Mirrored'
  BY <1>2, OpenMirrors
<1>3. ASSUME NEW p \in Pages, Close(p) PROVE Mirrored'
  BY <1>3 DEF Mirrored, Close, IInv
<1>4. ASSUME NEW p \in Pages, AuthStateChange(p) PROVE Mirrored'
  <2> DEFINE u == signedIn[BrowserOf[p]]
             h == IF u = None THEN None ELSE hydrated[p]
             s == IF u = None THEN None ELSE snapshot[p]
  <2>1. u \in Users \cup {None} /\ Effects(p, dataset[p], u, h, s)
    BY <1>4, VaultAssumption DEF AuthStateChange, IInv
  <2> HIDE DEF u, h, s
  <2>2. dataset[p] \in Vaults
    BY <1>4 DEF AuthStateChange, IInv
  <2>3. /\ load'[p] # None => load'[p].base = dataset[p]
        /\ \A q \in Pages : q # p => load'[q] = load[q]
    BY <2>1, <2>2, EffectsLeave
  <2> QED
    BY <1>4, <2>3 DEF Mirrored, AuthStateChange
<1>5. ASSUME NEW p \in Pages, Edit(p) PROVE Mirrored'
  BY <1>5 DEF Mirrored, Edit
<1>6. ASSUME NEW p \in Pages, ResetPreview(p) PROVE Mirrored'
  <2>1. Seed(now + 1) \in Vaults
    BY <1>6, VaultAssumption, SeedIsVault DEF IInv, ResetPreview, Stamps
  <2> HIDE DEF Seed
  <2> QED
    BY <1>6, <2>1, PutMirrors DEF ResetPreview, Show
<1>7. ASSUME NEW p \in Pages, Applied(p) PROVE Mirrored'
  BY <1>7, AppliedKeeps, CommitMirrors
<1>8. ASSUME NEW p \in Pages, AnswerLoad(p) PROVE Mirrored'
  <2>1. load[p] \in VaultLoads
    BY <1>8 DEF AnswerLoad, IInv
  <2>2. load'[p].base = load[p].base /\ \A q \in Pages : q # p => load'[q] = load[q]
    BY <1>8, <2>1 DEF AnswerLoad, IInv, VaultLoads
  <2> QED
    BY <1>8, <2>2 DEF Mirrored, AnswerLoad
<1>9. ASSUME NEW p \in Pages, Hydrate(p) PROVE Mirrored'
  <2>1. load[p] \in VaultLoads
    BY <1>9 DEF Hydrate, IInv
  <2>2. Merged(load[p]) \in Vaults
    BY <2>1, MergedKeeps
  <2>3. /\ dataset' = [dataset EXCEPT ![p] = Merged(load[p])]
        /\ storage' = [storage EXCEPT ![BrowserOf[p]] = Merged(load[p])]
        /\ Effects(p, Merged(load[p]), user[p], load[p].user, Merged(load[p]))
        /\ UNCHANGED open
    BY <1>9 DEF Hydrate, Merged
  <2> QED
    BY <2>2, <2>3, PutMirrors
<1>10. ASSUME NEW p \in Pages, LoadFails(p) PROVE Mirrored'
  BY <1>10 DEF Mirrored, LoadFails, IInv
<1>11. ASSUME NEW p \in Pages, TimerFires(p) PROVE Mirrored'
  BY <1>11 DEF Mirrored, TimerFires
<1>12. ASSUME NEW p \in Pages, SaveLands(p) PROVE Mirrored'
  BY <1>12 DEF Mirrored, SaveLands
<1>13. ASSUME NEW p \in Pages, SaveFails(p) PROVE Mirrored'
  BY <1>13 DEF Mirrored, SaveFails
<1>14. ASSUME NEW b \in Browsers, Sign(b) PROVE Mirrored'
  BY <1>14 DEF Mirrored, Sign
<1> QED
  BY <1>1, <1>2, <1>3, <1>4, <1>5, <1>6, <1>7, <1>8, <1>9, <1>10, <1>11, <1>12, <1>13,
     <1>14 DEF Next, Step, Progress

\* What a step does to a storage.
Forgets(b) == storage[b] # None /\ ~Keeps(storage[b], storage'[b])

LEMMA PutKeeps ==
    ASSUME OneToOne, IInv, Mirrored, NEW p \in Pages, open[p], NEW d \in Vaults,
           Keeps(dataset[p], d), storage' = [storage EXCEPT ![BrowserOf[p]] = d]
    PROVE  \A b \in Browsers : ~Forgets(b)
<1>1. ASSUME NEW b \in Browsers, b # BrowserOf[p]
      PROVE  storage'[b] = storage[b]
  BY <1>1 DEF IInv
<1>2. storage'[BrowserOf[p]] = d /\ storage[BrowserOf[p]] = dataset[p]
  BY VaultAssumption DEF IInv, Mirrored
<1> QED
  BY <1>1, <1>2, KeepsMore DEF IInv, Forgets

LEMMA SameStorage ==
    ASSUME IInv, UNCHANGED storage
    PROVE  \A b \in Browsers : ~Forgets(b)
  BY KeepsMore DEF IInv, Forgets

LEMMA StepForgets ==
    ASSUME OneToOne, IInv, Mirrored, [Next]_vars
    PROVE  \A p \in Pages : ResetPreview(p) \/ ~Forgets(BrowserOf[p])
<1> USE VaultAssumption
<1>1. CASE UNCHANGED vars
  BY <1>1, SameStorage DEF vars
<1>2. ASSUME NEW p \in Pages, Open(p) PROVE \A b \in Browsers : ~Forgets(b)
  <2>1. \A b \in Browsers : storage'[b] = storage[b] \/ storage[b] = None
    BY <1>2 DEF Open, IInv
  <2> QED
    BY <2>1, KeepsMore DEF IInv, Forgets
<1>3. ASSUME NEW p \in Pages, Close(p) PROVE \A b \in Browsers : ~Forgets(b)
  BY <1>3, SameStorage DEF Close
<1>4. ASSUME NEW p \in Pages, AuthStateChange(p) PROVE \A b \in Browsers : ~Forgets(b)
  BY <1>4, SameStorage DEF AuthStateChange
<1>5. ASSUME NEW p \in Pages, Edit(p) PROVE \A b \in Browsers : ~Forgets(b)
  BY <1>5, SameStorage DEF Edit
<1>6. ASSUME NEW p \in Pages, ResetPreview(p), NEW q \in Pages, q # p
      PROVE  ~Forgets(BrowserOf[q])
  <2>1. storage'[BrowserOf[q]] = storage[BrowserOf[q]]
    BY <1>6 DEF ResetPreview, Show, OneToOne, IInv
  <2> QED
    BY <2>1, KeepsMore DEF IInv, Forgets
<1>7. ASSUME NEW p \in Pages, Applied(p) PROVE \A b \in Browsers : ~Forgets(b)
  <2>1. PICK d \in Vaults : Commit(p, d) /\ Keeps(dataset[p], d)
    BY <1>7, AppliedKeeps
  <2>2. CASE d = dataset[p]
    BY <2>1, <2>2, SameStorage DEF Commit
  <2>3. CASE d # dataset[p]
    <3>1. open[p] /\ storage' = [storage EXCEPT ![BrowserOf[p]] = d]
      BY <2>1, <2>3 DEF Commit, Show, IInv
    <3> QED
      BY <2>1, <3>1, PutKeeps
  <2> QED
    BY <2>2, <2>3
<1>8. ASSUME NEW p \in Pages, AnswerLoad(p) PROVE \A b \in Browsers : ~Forgets(b)
  BY <1>8, SameStorage DEF AnswerLoad
<1>9. ASSUME NEW p \in Pages, Hydrate(p) PROVE \A b \in Browsers : ~Forgets(b)
  <2>1. load[p] \in VaultLoads /\ load[p].base = dataset[p] /\ open[p]
    BY <1>9 DEF Hydrate, IInv, Mirrored
  <2>2. Merged(load[p]) \in Vaults /\ Keeps(dataset[p], Merged(load[p]))
    BY <2>1, MergedKeeps
  <2>3. storage' = [storage EXCEPT ![BrowserOf[p]] = Merged(load[p])]
    BY <1>9 DEF Hydrate, Merged
  <2> QED
    BY <2>1, <2>2, <2>3, PutKeeps
<1>10. ASSUME NEW p \in Pages, LoadFails(p) PROVE \A b \in Browsers : ~Forgets(b)
  BY <1>10, SameStorage DEF LoadFails
<1>11. ASSUME NEW p \in Pages, TimerFires(p) PROVE \A b \in Browsers : ~Forgets(b)
  BY <1>11, SameStorage DEF TimerFires
<1>12. ASSUME NEW p \in Pages, SaveLands(p) PROVE \A b \in Browsers : ~Forgets(b)
  BY <1>12, SameStorage DEF SaveLands
<1>13. ASSUME NEW p \in Pages, SaveFails(p) PROVE \A b \in Browsers : ~Forgets(b)
  BY <1>13, SameStorage DEF SaveFails
<1>14. ASSUME NEW b \in Browsers, Sign(b) PROVE \A c \in Browsers : ~Forgets(c)
  BY <1>14, SameStorage DEF Sign
<1> QED
  BY <1>1, <1>2, <1>3, <1>4, <1>5, <1>6, <1>7, <1>8, <1>9, <1>10, <1>11, <1>12, <1>13,
     <1>14 DEF Next, Step, Progress

\* With one page to a browser no step but a reset takes a version from what the
\* browser has stored, or puts an older text under its number, whatever is
\* merged, edited, cancelled or reopened, and by however many devices.
THEOREM VersionsAreKept ==
    ASSUME OneToOne
    PROVE  Spec => HistoryKept
<1>1. Init => Mirrored
  BY DEF Init, Mirrored
<1>2. IInv /\ Mirrored /\ [Next]_vars =>
      [\A p \in Pages :
         LET b == BrowserOf[p] IN
         \/ ResetPreview(p)
         \/ storage[b] = None
         \/ \A v \in storage[b].versions : \E w \in storage'[b].versions :
                SameId(v, w) /\ v.stamp <= w.stamp]_vars
  BY StepForgets DEF Forgets, Keeps
<1> QED
  BY <1>1, <1>2, StepMirrors, InvariantIInv, PTL DEF Spec, HistoryKept

-----------------------------------------------------------------------------
(* A quiet page is saved.  Two things have to be known.  First, what was    *)
(* shown or sent differs from what an edit makes now: an edit but of drafts *)
(* adds a record that is nowhere yet, and a reset a version younger than    *)
(* that of any other data set without records.  Second, while the snapshot, *)
(* or a save under way, agrees with what the page shows, so does the latest *)
(* save of the page's own: the timer is off for a good reason.              *)

Same(c, d) == c.entries = d.entries /\ c.versions = d.versions /\ c.records = d.records
              /\ c.prefs = d.prefs

\* Data sets no pending edit is in, and none of the future.
Dated == {d \in Vaults :
            /\ d.records \subseteq 1..now
            /\ \A p \in Pages : queued[p] \notin d.records
            /\ d.records = {} => \A v \in d.versions : v.stamp <= now - SeedAge}

DatedInv ==
    /\ \A b \in Browsers : storage[b] # None => storage[b] \in Dated
    /\ \A u \in Users : row[u] # None => row[u] \in Dated
    /\ \A p \in Pages :
          /\ open[p] => dataset[p] \in Dated
          /\ hydrated[p] # None => snapshot[p] \in Dated
          /\ load[p] # None => /\ load[p].base \in Dated
                               /\ load[p].state # None => load[p].state \in Dated
          /\ \A i \in 1..Len(calls[p]) : calls[p][i].state \in Dated
          /\ queued[p] <= now
          /\ hydrated[p] # None => open[p]
    /\ \A p, q \in Pages : queued[p] = queued[q] /\ queued[p] # 0 => p = q

\* What the database has, or gets when the latest save of the page's own lands.
Sent(s, w) == IF s # <<>> /\ s[Len(s)].own THEN s[Len(s)].state ELSE w

SavedInv(p) == ~lost[p] =>
    /\ \A i \in 1..Len(calls[p]) :
          calls[p][i].kind = "save" /\ Same(calls[p][i].state, dataset[p]) =>
              Same(Sent(calls[p], written[p]), dataset[p])
    /\ calls[p] # <<>> \/ sync[p] = "idle" =>
          (Same(snapshot[p], dataset[p]) \/ (hydrated[p] = user[p] /\ ~timer[p]) =>
              Same(Sent(calls[p], written[p]), dataset[p]))

\* Saves of the page's own were sent after all others.
OwnInv(p) ==
    /\ \A i, j \in 1..Len(calls[p]) : i < j /\ calls[p][i].own => calls[p][j].own
    /\ hydrated[p] = None => \A i \in 1..Len(calls[p]) : ~calls[p][i].own
    /\ hydrated[p] # None => user[p] # None
    /\ timer[p] => hydrated[p] = user[p]

PageInv == \A p \in Pages : OwnInv(p) /\ (hydrated[p] # None => SavedInv(p))

\* An edit leaves all but the drafts, or adds a record.
Advances(c, d, t) == Same(d, c) \/ d.records = c.records \cup {t}

LEMMA AppliedAdvances ==
    ASSUME IInv, NEW p \in Pages, Applied(p)
    PROVE  \E d \in Vaults : Commit(p, d) /\ Advances(dataset[p], d, queued[p])
<1> DEFINE D == dataset[p]
           t == queued[p]
<1>1. queued[p] # 0
  BY DEF Applied, SaveEntry, ApplySuggestion, DuplicateEntry, RestoreVersion, ToggleFlag,
         AddRecord, UpdatePreferences, SaveDraft, DiscardDraft, Commit
<1>2. D \in Vaults /\ t \in Stamps
  BY <1>1, QueuedFacts
<1>u. ASSUME NEW e \in Entries, NEW x \in Stamps
      PROVE  upsertEntry(D, e, x, t) \in Vaults /\ upsertEntry(D, e, x, t).records = D.records \cup {t}
  BY <1>2, upsertEntryKeeps DEF upsertEntry, WithVersion
<1>d. ASSUME NEW d \in Vaults, NEW k \in DraftKeys
      PROVE  discardDraft(d, k) \in Vaults /\ Same(discardDraft(d, k), d)
  <2>1. PICK drafts : discardDraft(d, k) = [d EXCEPT !.drafts = drafts]
    BY DEF discardDraft
  <2>2. d = [entries |-> d.entries, versions |-> d.versions,
             drafts |-> d.drafts, records |-> d.records, prefs |-> d.prefs]
    BY VaultParts
  <2>3. Same(discardDraft(d, k), d)
    BY <2>1, <2>2 DEF Same
  <2> QED
    BY <2>3, discardDraftKeeps
<1>3. CASE SaveEntry(p)
  <2>1. PICK e \in Entries : Commit(p, handleSave(D, e, t))
    BY <1>3 DEF SaveEntry
  <2>2. handleSave(D, e, t) \in Vaults
    BY <1>2, handleSaveKeeps
  <2>3. handleSave(D, e, t).records = D.records \cup {t}
    BY <1>2, <1>u, <1>d DEF handleSave, Same, DraftKeys
  <2> QED
    BY <2>1, <2>2, <2>3 DEF Advances
<1>4. CASE ApplySuggestion(p)
  BY <1>2, <1>4, <1>u DEF ApplySuggestion, Advances
<1>5. CASE DuplicateEntry(p)
  <2>1. PICK e \in Entries, f \in Entries :
            Has(D, e) /\ Commit(p, upsertEntry(D, f, D.entries[e].text, t))
    BY <1>5 DEF DuplicateEntry
  <2>2. D.entries[e].text \in Stamps
    BY <1>2, <2>1, VaultParts DEF Has, EntryStates
  <2> QED
    BY <2>1, <2>2, <1>u DEF Advances
<1>6. CASE RestoreVersion(p)
  <2>1. PICK v \in D.versions : Commit(p, WithVersion(D, v.entry, v.text, t))
    BY <1>6 DEF RestoreVersion
  <2>2. v.entry \in Entries /\ v.text \in Stamps
    BY <1>2, <2>1, VaultParts DEF VersionStates
  <2>3. WithVersion(D, v.entry, v.text, t).records = D.records \cup {t}
    BY DEF WithVersion
  <2> QED
    BY <1>2, <2>1, <2>2, <2>3, WithVersionKeeps DEF Advances
<1>7. CASE ToggleFlag(p)
  <2>1. PICK e \in Entries : Has(D, e) /\ Commit(p, toggle(D, e, t))
    BY <1>7 DEF ToggleFlag
  <2>2. toggle(D, e, t).records = D.records \cup {t}
    BY DEF toggle
  <2> QED
    BY <1>2, <2>1, <2>2, toggleKeeps DEF Advances
<1>8. CASE AddRecord(p)
  <2>1. addRecord(D, t).records = D.records \cup {t}
    BY <1>2, VaultParts DEF addRecord
  <2> QED
    BY <1>2, <1>8, <2>1, addRecordKeeps DEF AddRecord, Advances
<1>11. CASE UpdatePreferences(p)
  <2>1. setPreferences(D, t).records = D.records \cup {t}
    BY <1>2, VaultParts DEF setPreferences, addRecord
  <2> QED
    BY <1>2, <1>11, <2>1, setPreferencesKeeps DEF UpdatePreferences, Advances
<1>9. CASE SaveDraft(p)
  <2>1. PICK k \in DraftKeys : Commit(p, saveDraft(D, k, t))
    BY <1>9 DEF SaveDraft
  <2>2. Same(saveDraft(D, k, t), D)
    BY <1>2, VaultParts DEF saveDraft, Same
  <2> QED
    BY <1>2, <2>1, <2>2, saveDraftKeeps DEF Advances
<1>10. CASE DiscardDraft(p)
  BY <1>2, <1>10, <1>d DEF DiscardDraft, Advances
<1> QED
  BY <1>3, <1>4, <1>5, <1>6, <1>7, <1>8, <1>9, <1>10, <1>11 DEF Applied

\* What was dated stays so: only edits of the future are begun.
LEMMA DatedStays ==
    ASSUME IInv, now' \in {now, now + 1}, NEW d \in Dated,
           \A q \in Pages : queued'[q] \in {queued[q], 0, now + 1}
    PROVE  d \in Dated'
<1>1. now \in Nat /\ SeedAge \in Nat /\ d \in Vaults
  BY VaultAssumption DEF IInv, Stamps, Dated
<1>2. d.records \subseteq 1..now /\ \A q \in Pages : queued[q] \notin d.records
  BY DEF Dated
<1>3. d.records \subseteq 1..now'
  BY <1>1, <1>2
<1>4. \A q \in Pages : queued'[q] \notin d.records
  BY <1>1, <1>2
<1>5. ASSUME d.records = {}, NEW v \in d.versions PROVE v.stamp <= now' - SeedAge
  <2>1. v.stamp <= now - SeedAge
    BY <1>5 DEF Dated
  <2>2. v.stamp \in Int
    BY <1>1, VaultParts, StampFacts DEF VersionStates
  <2> QED
    BY <1>1, <2>1, <2>2
<1> QED
  BY <1>1, <1>3, <1>4, <1>5 DEF Dated

\* A data set as an edit leaves it.
LEMMA EditedDated ==
    ASSUME IInv, DatedInv, NEW p \in Pages, queued[p] # 0, NEW d \in Vaults,
           Advances(dataset[p], d, queued[p]),
           now' = now, queued' = [queued EXCEPT ![p] = 0]
    PROVE  d \in Dated'
<1>1. dataset[p] \in Dated /\ open[p]
  BY DEF IInv, DatedInv
<1>2. queued[p] \in 1..now /\ now \in Nat
  BY DEF IInv, DatedInv, Stamps
<1>3. \A q \in Pages : queued'[q] \in {queued[q], 0} /\ (q = p => queued'[q] = 0)
  BY DEF IInv
<1>4. dataset[p] \in Dated'
  BY <1>1, <1>3, DatedStays
<1>5. CASE Same(d, dataset[p])
  BY <1>4, <1>5 DEF Same, Dated
<1>6. CASE d.records = dataset[p].records \cup {queued[p]}
  <2>1. d.records \subseteq 1..now' /\ d.records # {}
    BY <1>2, <1>4, <1>6 DEF Dated
  <2>2. ASSUME NEW q \in Pages PROVE queued'[q] \notin d.records
    <3>1. queued'[q] \notin dataset[p].records
      BY <1>4 DEF Dated
    <3>2. queued'[q] # queued[p]
      BY <1>3, <1>2 DEF DatedInv
    <3> QED
      BY <1>6, <3>1, <3>2
  <2> QED
    BY <2>1, <2>2 DEF Dated
<1> QED
  BY <1>5, <1>6 DEF Advances

LEMMA SeedDated ==
    ASSUME IInv, now' \in Stamps, \A q \in Pages : queued'[q] \in Stamps
    PROVE  Seed(now') \in Dated'
<1>1. Seed(now') \in Vaults
  BY SeedIsVault
<1>2. /\ Seed(now').records = {}
      /\ Seed(now').versions = {[entry |-> Example, number |-> 1, text |-> 0, stamp |-> now' - SeedAge]}
  BY DEF Seed
<1>3. now' - SeedAge <= now' - SeedAge
  <2>1. PICK t \in Stamps : t = now'
    OBVIOUS
  <2>2. t - SeedAge \in Int
    BY StampFacts
  <2> QED
    BY <2>1, <2>2
<1> HIDE DEF Seed
<1> QED
  BY <1>1, <1>2, <1>3 DEF Dated

LEMMA MergedDated ==
    ASSUME IInv, DatedInv, NEW p \in Pages, load[p] # None
    PROVE  Merged(load[p]) \in Dated
<1> DEFINE l == load[p]
           m == mergeVaultDatasets(l.state, l.base)
<1>1. l \in VaultLoads /\ l.base \in Dated /\ (l.state # None => l.state \in Dated)
  BY DEF IInv, DatedInv
<1>2. Merged(l) \in Vaults
  BY <1>1, MergedKeeps
<1>3. CASE l.state = None
  BY <1>1, <1>3 DEF Merged
<1>4. CASE l.state # None
  <2>1. Merged(l) = m /\ l.state \in Dated
    BY <1>1, <1>4 DEF Merged
  <2>2. m.records = l.state.records \cup l.base.records
    BY DEF mergeVaultDatasets
  <2>3. m.versions \subseteq l.state.versions \cup l.base.versions
    BY DEF mergeVaultDatasets, mergeVersions
  <2> HIDE DEF m
  <2> QED
    BY <1>1, <1>2, <2>1, <2>2, <2>3 DEF Dated
<1> QED
  BY <1>3, <1>4

LEMMA OrphanedFacts ==
    ASSUME NEW s \in Seq(VaultSaves)
    PROVE  /\ Len(Orphaned(s)) = Len(s)
           /\ \A j \in 1..Len(s) : Orphaned(s)[j].state = s[j].state /\ ~Orphaned(s)[j].own
<1>1. Len(s) \in Nat /\ \A j \in 1..Len(s) : s[j] \in VaultSaves
  BY LenProperties, ElementOfSeq
<1>2. Orphaned(s) = [j \in 1..Len(s) |-> [s[j] EXCEPT !.kind = "orphan", !.own = FALSE]]
  BY DEF Orphaned
<1>3. \A j \in 1..Len(s) : /\ [s[j] EXCEPT !.kind = "orphan", !.own = FALSE].state = s[j].state
                           /\ ~[s[j] EXCEPT !.kind = "orphan", !.own = FALSE].own
  BY <1>1 DEF VaultSaves
<1>4. Len(Orphaned(s)) \in Nat /\ DOMAIN Orphaned(s) = 1..Len(Orphaned(s))
  BY OrphanedKeeps, LenProperties
<1>5. 1..Len(Orphaned(s)) = 1..Len(s)
  BY <1>2, <1>4
<1>6. Len(Orphaned(s)) = Len(s)
  BY <1>1, <1>4, <1>5
<1> QED
  BY <1>2, <1>3, <1>6

LEMMA DisownedFacts ==
    ASSUME NEW s \in Seq(VaultSaves)
    PROVE  /\ Len(Disowned(s)) = Len(s)
           /\ \A j \in 1..Len(s) : Disowned(s)[j].state = s[j].state /\ ~Disowned(s)[j].own
<1>1. Len(s) \in Nat /\ \A j \in 1..Len(s) : s[j] \in VaultSaves
  BY LenProperties, ElementOfSeq
<1>2. Disowned(s) = [j \in 1..Len(s) |-> [s[j] EXCEPT !.own = FALSE]]
  BY DEF Disowned
<1>3. \A j \in 1..Len(s) : /\ [s[j] EXCEPT !.own = FALSE].state = s[j].state
                           /\ ~[s[j] EXCEPT !.own = FALSE].own
  BY <1>1 DEF VaultSaves
<1>4. Len(Disowned(s)) \in Nat /\ DOMAIN Disowned(s) = 1..Len(Disowned(s))
  BY DisownedKeeps, LenProperties
<1>5. 1..Len(Disowned(s)) = 1..Len(s)
  BY <1>2, <1>4
<1>6. Len(Disowned(s)) = Len(s)
  BY <1>1, <1>4, <1>5
<1> QED
  BY <1>2, <1>3, <1>6

\* Data sets only move, but for those the step makes.
LEMMA PlacesDated ==
    ASSUME DatedInv, \A d \in Dated : d \in Dated',
           \A b \in Browsers : storage'[b] = storage[b] \/ storage'[b] \in Dated',
           \A u \in Users : row'[u] = row[u] \/ row'[u] \in Dated',
           \A p \in Pages :
              /\ ~open'[p] \/ dataset'[p] \in Dated' \/ (open[p] /\ dataset'[p] = dataset[p])
              /\ \/ hydrated'[p] = None
                 \/ snapshot'[p] \in Dated'
                 \/ hydrated[p] # None /\ snapshot'[p] = snapshot[p]
              /\ \/ load'[p] = None
                 \/ load'[p] = load[p]
                 \/ /\ load'[p].base \in Dated'
                    /\ load'[p].state # None => load'[p].state \in Dated'
              /\ \A i \in 1..Len(calls'[p]) :
                    \/ calls'[p][i].state \in Dated'
                    \/ \E j \in 1..Len(calls[p]) : calls'[p][i].state = calls[p][j].state
              /\ queued'[p] <= now'
              /\ hydrated'[p] # None => open'[p],
           \A p, q \in Pages : queued'[p] = queued'[q] /\ queued'[p] # 0 => p = q
    PROVE  DatedInv'
<1>1. \A b \in Browsers : storage'[b] # None => storage'[b] \in Dated'
  BY DEF DatedInv
<1>2. \A u \in Users : row'[u] # None => row'[u] \in Dated'
  BY DEF DatedInv
<1>3. ASSUME NEW p \in Pages
      PROVE  /\ open'[p] => dataset'[p] \in Dated'
             /\ hydrated'[p] # None => snapshot'[p] \in Dated'
             /\ load'[p] # None => /\ load'[p].base \in Dated'
                                   /\ load'[p].state # None => load'[p].state \in Dated'
  BY DEF DatedInv
<1>4. ASSUME NEW p \in Pages, NEW i \in 1..Len(calls'[p]) PROVE calls'[p][i].state \in Dated'
  BY DEF DatedInv
<1> HIDE DEF Dated
<1> QED
  BY <1>1, <1>2, <1>3, <1>4 DEF DatedInv

\* No edit is queued, or one is applied or dropped.
LEMMA QueueKeeps ==
    ASSUME IInv, DatedInv, NEW p \in Pages, now' \in {now, now + 1},
           \/ queued' = queued
           \/ queued' = [queued EXCEPT ![p] = 0]
           \/ queued' = [queued EXCEPT ![p] = now + 1] /\ now' = now + 1
    PROVE  /\ \A d \in Dated : d \in Dated'
           /\ \A q \in Pages : queued'[q] <= now'
           /\ \A q, r \in Pages : queued'[q] = queued'[r] /\ queued'[q] # 0 => q = r
<1>1. now \in Nat /\ \A q \in Pages : queued[q] \in Nat /\ queued[q] <= now
  BY DEF IInv, DatedInv, Stamps
<1>2. queued \in [Pages -> Stamps]
  BY DEF IInv
<1>3. \A q \in Pages : queued'[q] = queued[q] \/ (q = p /\ queued'[q] = 0)
                                          \/ (q = p /\ queued'[q] = now + 1 /\ now' = now + 1)
  BY <1>2
<1>4. \A d \in Dated : d \in Dated'
  BY <1>3, DatedStays
<1>5. \A q \in Pages : queued'[q] <= now'
  BY <1>1, <1>3
<1>6. \A q, r \in Pages : queued'[q] = queued'[r] /\ queued'[q] # 0 => q = r
  BY <1>1, <1>3 DEF DatedInv
<1> QED
  BY <1>4, <1>5, <1>6

\* A load is begun with the data set shown.
LEMMA EffectsDated ==
    ASSUME IInv, NEW p \in Pages, NEW d, NEW u, NEW h, NEW s, Effects(p, d, u, h, s)
    PROVE  \A q \in Pages : \/ load'[q] = None
                            \/ q # p /\ load'[q] = load[q]
                            \/ q = p /\ load'[q].base = d /\ load'[q].state = None
<1>1. Awaits(u, d).base = d /\ Awaits(u, d).state = None
  BY DEF Awaits
<1>2. load' = [load EXCEPT ![p] = IF u # None /\ h # u THEN Awaits(u, d) ELSE None]
  BY DEF Effects
<1>3. load \in [Pages -> VaultLoads \cup {None}]
  BY DEF IInv
<1> QED
  BY <1>1, <1>2, <1>3

LEMMA OpenDated ==
    ASSUME IInv, DatedInv, NEW p \in Pages, Open(p)
    PROVE  DatedInv'
<1> DEFINE b == BrowserOf[p]
           d == IF storage[b] = None THEN Seed(now) ELSE storage[b]
<1>1. b \in Browsers /\ now \in Stamps
  BY VaultAssumption DEF IInv
<1>2. /\ dataset' = [dataset EXCEPT ![p] = d]
      /\ storage' = [storage EXCEPT ![b] = d]
      /\ open' = [open EXCEPT ![p] = TRUE]
      /\ now' = now /\ queued' = queued
      /\ UNCHANGED <<row, hydrated, snapshot, load, calls>>
  BY DEF Open
<1>3. Seed(now) \in Dated'
  <2>1. now' \in Stamps /\ \A q \in Pages : queued'[q] \in Stamps
    BY <1>1, <1>2 DEF IInv
  <2>2. Seed(now') \in Dated'
    BY <2>1, SeedDated
  <2> QED
    BY <1>2, <2>2
<1>4. /\ \A x \in Dated : x \in Dated'
      /\ \A q \in Pages : queued'[q] <= now'
      /\ \A q, r \in Pages : queued'[q] = queued'[r] /\ queued'[q] # 0 => q = r
  BY <1>2, QueueKeeps
<1>5. d \in Dated'
  BY <1>1, <1>3, <1>4 DEF DatedInv
<1> HIDE DEF d, b, Dated
<1>6. \A c \in Browsers : storage'[c] = storage[c] \/ storage'[c] \in Dated'
  BY <1>1, <1>2, <1>5 DEF IInv
<1>7. ASSUME NEW q \in Pages
      PROVE  /\ dataset'[q] \in Dated' \/ (dataset'[q] = dataset[q] /\ open'[q] = open[q])
             /\ open[q] => open'[q]
  BY <1>2, <1>5 DEF IInv
<1> QED
  BY <1>2, <1>4, <1>6, <1>7, PlacesDated DEF DatedInv

LEMMA CloseDated ==
    ASSUME IInv, DatedInv, NEW p \in Pages, Close(p)
    PROVE  DatedInv'
<1>1. /\ open' = [open EXCEPT ![p] = FALSE]
      /\ dataset' = [dataset EXCEPT ![p] = None]
      /\ queued' = [queued EXCEPT ![p] = 0]
      /\ hydrated' = [hydrated EXCEPT ![p] = None]
      /\ snapshot' = [snapshot EXCEPT ![p] = None]
      /\ load' = [load EXCEPT ![p] = None]
      /\ calls' = [calls EXCEPT ![p] = Orphaned(@)]
      /\ UNCHANGED <<now, storage, row>>
  BY DEF Close
<1>2. /\ \A x \in Dated : x \in Dated'
      /\ \A q \in Pages : queued'[q] <= now'
      /\ \A q, r \in Pages : queued'[q] = queued'[r] /\ queued'[q] # 0 => q = r
  BY <1>1, QueueKeeps
<1>3. ASSUME NEW q \in Pages
      PROVE  \/ ~open'[q] /\ hydrated'[q] = None /\ load'[q] = None
             \/ /\ open'[q] = open[q] /\ dataset'[q] = dataset[q] /\ hydrated'[q] = hydrated[q]
                /\ snapshot'[q] = snapshot[q] /\ load'[q] = load[q]
  BY <1>1 DEF IInv
<1>4. ASSUME NEW q \in Pages, NEW i \in 1..Len(calls'[q])
      PROVE  \E j \in 1..Len(calls[q]) : calls'[q][i].state = calls[q][j].state
  <2>1. calls[p] \in Seq(VaultSaves)
    BY DEF IInv
  <2>2. /\ Len(Orphaned(calls[p])) = Len(calls[p])
        /\ \A j \in 1..Len(calls[p]) : Orphaned(calls[p])[j].state = calls[p][j].state
    BY <2>1, OrphanedFacts
  <2>3. calls'[q] = IF q = p THEN Orphaned(calls[p]) ELSE calls[q]
    BY <1>1 DEF IInv
  <2> QED
    BY <2>2, <2>3
<1> HIDE DEF Dated
<1>5. \A b \in Browsers : storage'[b] = storage[b]
  BY <1>1
<1>6. \A u \in Users : row'[u] = row[u]
  BY <1>1
<1>7. ASSUME NEW q \in Pages PROVE hydrated'[q] # None => open'[q]
  BY <1>3 DEF DatedInv
<1>8. ASSUME NEW q \in Pages
      PROVE  /\ ~open'[q] \/ (open[q] /\ dataset'[q] = dataset[q])
             /\ hydrated'[q] = None \/ (hydrated[q] # None /\ snapshot'[q] = snapshot[q])
             /\ load'[q] = None \/ load'[q] = load[q]
  BY <1>3
<1> QED
  BY <1>2, <1>4, <1>5, <1>6, <1>7, <1>8, PlacesDated

LEMMA AuthStateChangeDated ==
    ASSUME IInv, DatedInv, NEW p \in Pages, AuthStateChange(p)
    PROVE  DatedInv'
<1> DEFINE u == signedIn[BrowserOf[p]]
           h == IF u = None THEN None ELSE hydrated[p]
           s == IF u = None THEN None ELSE snapshot[p]
<1>1. /\ Effects(p, dataset[p], u, h, s) /\ open[p]
      /\ hydrated' = [hydrated EXCEPT ![p] = h]
      /\ snapshot' = [snapshot EXCEPT ![p] = s]
      /\ calls' = [calls EXCEPT ![p] = IF u = None THEN Disowned(@) ELSE @]
      /\ UNCHANGED <<now, storage, row, open, dataset, queued>>
  BY DEF AuthStateChange
<1>2. /\ \A x \in Dated : x \in Dated'
      /\ \A q \in Pages : queued'[q] <= now'
      /\ \A q, r \in Pages : queued'[q] = queued'[r] /\ queued'[q] # 0 => q = r
  BY <1>1, QueueKeeps
<1>3. \A q \in Pages : \/ load'[q] = None
                       \/ q # p /\ load'[q] = load[q]
                       \/ q = p /\ load'[q].base = dataset[p] /\ load'[q].state = None
  BY <1>1, EffectsDated
<1>4. dataset[p] \in Dated'
  BY <1>1, <1>2 DEF DatedInv
<1>5. ASSUME NEW q \in Pages
      PROVE  hydrated'[q] = None \/ (hydrated'[q] = hydrated[q] /\ snapshot'[q] = snapshot[q])
  BY <1>1 DEF IInv
<1>6. ASSUME NEW q \in Pages, NEW i \in 1..Len(calls'[q])
      PROVE  \E j \in 1..Len(calls[q]) : calls'[q][i].state = calls[q][j].state
  <2>1. calls[p] \in Seq(VaultSaves)
    BY DEF IInv
  <2>2. calls'[q] = IF q = p /\ u = None THEN Disowned(calls[p]) ELSE calls[q]
    BY <1>1 DEF IInv
  <2> QED
    BY <2>1, <2>2, DisownedFacts
<1> HIDE DEF Dated, u, h, s
<1>7. ASSUME NEW q \in Pages
      PROVE  /\ ~open'[q] \/ (open[q] /\ dataset'[q] = dataset[q])
             /\ hydrated'[q] = None \/ (hydrated[q] # None /\ snapshot'[q] = snapshot[q])
             /\ \/ load'[q] = None
                \/ load'[q] = load[q]
                \/ /\ load'[q].base \in Dated'
                   /\ load'[q].state # None => load'[q].state \in Dated'
             /\ hydrated'[q] # None => open'[q]
  BY <1>1, <1>3, <1>4, <1>5 DEF DatedInv
<1>8. storage' = storage /\ row' = row
  BY <1>1
<1> QED
  BY <1>2, <1>6, <1>7, <1>8, PlacesDated

\* A data set is shown, and stored.
LEMMA ShowDated ==
    ASSUME IInv, DatedInv, NEW p \in Pages, NEW d \in Dated', Show(p, d), open[p],
           \A x \in Dated : x \in Dated',
           \A q \in Pages : queued'[q] <= now',
           \A q, r \in Pages : queued'[q] = queued'[r] /\ queued'[q] # 0 => q = r,
           UNCHANGED <<row, open, hydrated, snapshot, calls>>
    PROVE  DatedInv'
<1>1. /\ dataset' = [dataset EXCEPT ![p] = d]
      /\ storage' = [storage EXCEPT ![BrowserOf[p]] = d]
      /\ Effects(p, d, user[p], hydrated[p], snapshot[p])
  BY DEF Show
<1>2. \A q \in Pages : \/ load'[q] = None
                       \/ q # p /\ load'[q] = load[q]
                       \/ q = p /\ load'[q].base = d /\ load'[q].state = None
  BY <1>1, EffectsDated
<1> HIDE DEF Dated
<1>3. ASSUME NEW q \in Pages
      PROVE  /\ ~open'[q] \/ dataset'[q] \in Dated' \/ (open[q] /\ dataset'[q] = dataset[q])
             /\ hydrated'[q] = None \/ (hydrated[q] # None /\ snapshot'[q] = snapshot[q])
             /\ \/ load'[q] = None
                \/ load'[q] = load[q]
                \/ /\ load'[q].base \in Dated'
                   /\ load'[q].state # None => load'[q].state \in Dated'
             /\ hydrated'[q] # None => open'[q]
  BY <1>1, <1>2 DEF DatedInv, IInv
<1>4. \A b \in Browsers : storage'[b] = storage[b] \/ storage'[b] \in Dated'
  BY <1>1 DEF IInv
<1>5. row' = row /\ calls' = calls
  OBVIOUS
<1> QED
  BY <1>3, <1>4, <1>5, PlacesDated

LEMMA EditDated ==
    ASSUME IInv, DatedInv, NEW p \in Pages, Edit(p)
    PROVE  DatedInv'
<1>1. /\ now' = now + 1 /\ queued' = [queued EXCEPT ![p] = now + 1]
      /\ UNCHANGED <<storage, row, open, dataset, hydrated, snapshot, load, calls>>
  BY DEF Edit
<1>2. /\ \A x \in Dated : x \in Dated'
      /\ \A q \in Pages : queued'[q] <= now'
      /\ \A q, r \in Pages : queued'[q] = queued'[r] /\ queued'[q] # 0 => q = r
  BY <1>1, QueueKeeps
<1> HIDE DEF Dated
<1> QED
  BY <1>1, <1>2 DEF DatedInv

LEMMA CommitDated ==
    ASSUME IInv, DatedInv, NEW p \in Pages, NEW d \in Vaults, Commit(p, d),
           Advances(dataset[p], d, queued[p])
    PROVE  DatedInv'
<1>1. /\ queued[p] # 0 /\ queued' = [queued EXCEPT ![p] = 0] /\ now' = now
      /\ UNCHANGED <<row, open, hydrated, snapshot, calls>>
  BY DEF Commit
<1>2. /\ \A x \in Dated : x \in Dated'
      /\ \A q \in Pages : queued'[q] <= now'
      /\ \A q, r \in Pages : queued'[q] = queued'[r] /\ queued'[q] # 0 => q = r
  BY <1>1, QueueKeeps
<1>3. d \in Dated'
  BY <1>1, EditedDated
<1>4. open[p]
  BY <1>1 DEF IInv
<1> HIDE DEF Dated
<1>5. CASE d = dataset[p]
  <2>1. UNCHANGED <<dataset, storage, load>>
    BY <1>5 DEF Commit
  <2> QED
    BY <1>1, <1>2, <2>1 DEF DatedInv
<1>6. CASE d # dataset[p]
  <2>1. Show(p, d)
    BY <1>6 DEF Commit
  <2> QED
    BY <1>1, <1>2, <1>3, <1>4, <2>1, ShowDated
<1> QED
  BY <1>5, <1>6

LEMMA ResetPreviewDated ==
    ASSUME IInv, DatedInv, NEW p \in Pages, ResetPreview(p)
    PROVE  DatedInv'
<1>1. /\ now' = now + 1 /\ queued' = [queued EXCEPT ![p] = 0]
      /\ open[p] /\ Show(p, Seed(now + 1))
      /\ UNCHANGED <<row, open, hydrated, snapshot, calls>>
  BY DEF ResetPreview
<1>2. /\ \A x \in Dated : x \in Dated'
      /\ \A q \in Pages : queued'[q] <= now'
      /\ \A q, r \in Pages : queued'[q] = queued'[r] /\ queued'[q] # 0 => q = r
  BY <1>1, QueueKeeps
<1>3. Seed(now') \in Dated'
  <2>1. now' \in Stamps /\ \A q \in Pages : queued'[q] \in Stamps
    BY ResetPreviewIInv DEF IInv
  <2> QED
    BY <2>1, SeedDated
<1> HIDE DEF Dated, Seed
<1> QED
  BY <1>1, <1>2, <1>3, ShowDated

LEMMA AnswerLoadDated ==
    ASSUME IInv, DatedInv, NEW p \in Pages, AnswerLoad(p)
    PROVE  DatedInv'
<1>1. load[p] \in VaultLoads /\ load[p].user \in Users
  BY DEF IInv, AnswerLoad, VaultLoads
<1>2. /\ load' = [load EXCEPT ![p] = [load[p] EXCEPT !.answered = TRUE,
                                                      !.state = row[load[p].user]]]
      /\ UNCHANGED <<now, storage, row, open, dataset, queued, hydrated, snapshot, calls>>
  BY <1>1 DEF AnswerLoad, IInv
<1>3. /\ \A x \in Dated : x \in Dated'
      /\ \A q \in Pages : queued'[q] <= now'
      /\ \A q, r \in Pages : queued'[q] = queued'[r] /\ queued'[q] # 0 => q = r
  BY <1>2, QueueKeeps
<1> HIDE DEF Dated
<1>4. load'[p].base = load[p].base /\ load'[p].state = row[load[p].user]
  BY <1>1, <1>2 DEF IInv, VaultLoads
<1>5. load[p].base \in Dated /\ (row[load[p].user] # None => row[load[p].user] \in Dated)
  BY <1>1 DEF DatedInv, AnswerLoad
<1>6. \A q \in Pages : q # p => load'[q] = load[q]
  BY <1>2 DEF IInv
<1> QED
  BY <1>2, <1>3, <1>4, <1>5, <1>6 DEF DatedInv

LEMMA HydrateDated ==
    ASSUME IInv, DatedInv, NEW p \in Pages, Hydrate(p)
    PROVE  DatedInv'
<1> DEFINE l == load[p]
           d == Merged(l)
           c == [kind |-> "first", own |-> TRUE, user |-> l.user, state |-> d]
<1>1. l \in VaultLoads /\ l # None /\ open[p]
  BY DEF IInv, Hydrate
<1>2. d \in Dated
  BY <1>1, MergedDated
<1>3. /\ dataset' = [dataset EXCEPT ![p] = d]
      /\ storage' = [storage EXCEPT ![BrowserOf[p]] = d]
      /\ queued' = [queued EXCEPT ![p] = 0]
      /\ hydrated' = [hydrated EXCEPT ![p] = l.user]
      /\ snapshot' = [snapshot EXCEPT ![p] = d]
      /\ Effects(p, d, user[p], l.user, d)
      /\ UNCHANGED <<now, row, open>>
  BY DEF Hydrate, Merged
<1>4. \/ calls' = [calls EXCEPT ![p] = Append(Disowned(@), c)]
      \/ calls' = [calls EXCEPT ![p] = Disowned(@)]
  BY DEF Hydrate, Merged
<1>5. /\ \A x \in Dated : x \in Dated'
      /\ \A q \in Pages : queued'[q] <= now'
      /\ \A q, r \in Pages : queued'[q] = queued'[r] /\ queued'[q] # 0 => q = r
  BY <1>3, QueueKeeps
<1>6. \A q \in Pages : \/ load'[q] = None
                       \/ q # p /\ load'[q] = load[q]
                       \/ q = p /\ load'[q].base = d /\ load'[q].state = None
  BY <1>3, EffectsDated
<1>7. c.state = d
  OBVIOUS
<1> HIDE DEF Dated, l, d, c
<1>8. ASSUME NEW q \in Pages, NEW i \in 1..Len(calls'[q])
      PROVE  \/ calls'[q][i].state \in Dated'
             \/ \E j \in 1..Len(calls[q]) : calls'[q][i].state = calls[q][j].state
  <2>1. calls[p] \in Seq(VaultSaves) /\ Disowned(calls[p]) \in Seq(VaultSaves)
    BY DisownedKeeps DEF IInv
  <2>2. CASE q # p
    BY <1>4, <2>2 DEF IInv
  <2>3. CASE q = p /\ calls'[q] = Disowned(calls[p])
    BY <2>1, <2>3, DisownedFacts
  <2>4. CASE q = p /\ calls'[q] = Append(Disowned(calls[p]), c)
    <3>1. /\ Len(calls'[q]) = Len(calls[p]) + 1
          /\ calls'[q][Len(calls[p]) + 1] = c
          /\ \A j \in 1..Len(calls[p]) : calls'[q][j] = Disowned(calls[p])[j]
      BY <2>1, <2>4, DisownedFacts, LenProperties
    <3>2. i \in 1..Len(calls[p]) \/ i = Len(calls[p]) + 1
      BY <2>1, <3>1, LenProperties
    <3> QED
      BY <1>2, <1>5, <1>7, <2>1, <2>4, <3>1, <3>2, DisownedFacts
  <2> QED
    BY <1>4, <2>2, <2>3, <2>4 DEF IInv
<1>9. ASSUME NEW q \in Pages
      PROVE  /\ ~open'[q] \/ dataset'[q] \in Dated' \/ (open[q] /\ dataset'[q] = dataset[q])
             /\ \/ hydrated'[q] = None
                \/ snapshot'[q] \in Dated'
                \/ hydrated[q] # None /\ snapshot'[q] = snapshot[q]
             /\ \/ load'[q] = None
                \/ load'[q] = load[q]
                \/ /\ load'[q].base \in Dated'
                   /\ load'[q].state # None => load'[q].state \in Dated'
             /\ hydrated'[q] # None => open'[q]
  BY <1>1, <1>2, <1>3, <1>5, <1>6 DEF DatedInv, IInv
<1>10. \A b \in Browsers : storage'[b] = storage[b] \/ storage'[b] \in Dated'
  BY <1>2, <1>3, <1>5 DEF IInv
<1>11. row' = row
  BY <1>3
<1> QED
  BY <1>5, <1>8, <1>9, <1>10, <1>11, PlacesDated

LEMMA DropFacts ==
    ASSUME NEW S, NEW s \in Seq(S), NEW i \in 1..Len(s)
    PROVE  /\ Len(Drop(s, i)) = Len(s) - 1
           /\ \A j \in 1..Len(s) - 1 : Drop(s, i)[j] = IF j < i THEN s[j] ELSE s[j + 1]
<1> DEFINE a == SubSeq(s, 1, i - 1)
           b == SubSeq(s, i + 1, Len(s))
<1>1. Len(s) \in Nat /\ \A j \in 1..Len(s) : s[j] \in S
  BY LenProperties, ElementOfSeq
<1>2. /\ a \in Seq(S) /\ Len(a) = i - 1
      /\ \A j \in 1..(i - 1) : a[j] = s[j]
  BY <1>1, SubSeqProperties
<1>3. /\ b \in Seq(S) /\ Len(b) = Len(s) - i
      /\ \A j \in 1..(Len(s) - i) : b[j] = s[i + j]
  BY <1>1, SubSeqProperties
<1> HIDE DEF a, b
<1>4. /\ Len(a \o b) = Len(a) + Len(b)
      /\ \A j \in 1..Len(a) + Len(b) : (a \o b)[j] = IF j <= Len(a) THEN a[j] ELSE b[j - Len(a)]
  BY <1>2, <1>3, ConcatProperties
<1>5. ASSUME NEW j \in 1..Len(s) - 1
      PROVE  (a \o b)[j] = IF j < i THEN s[j] ELSE s[j + 1]
  <2>1. CASE j < i
    BY <1>1, <1>2, <1>3, <1>4, <2>1
  <2>2. CASE ~(j < i)
    <3>1. (a \o b)[j] = b[j - (i - 1)]
      BY <1>1, <1>2, <1>3, <1>4, <2>2
    <3>2. j - (i - 1) \in 1..(Len(s) - i) /\ i + (j - (i - 1)) = j + 1
      BY <1>1, <2>2
    <3>3. b[j - (i - 1)] = s[j + 1]
      BY <1>3, <3>2
    <3> QED
      BY <2>2, <3>1, <3>3
  <2> QED
    BY <2>1, <2>2
<1>6. Len(a \o b) = Len(s) - 1
  BY <1>1, <1>2, <1>3, <1>4
<1> QED
  BY <1>5, <1>6 DEF Drop, a, b

LEMMA DropDated ==
    ASSUME IInv, NEW p \in Pages, NEW i \in 1..Len(calls[p]),
           \/ calls' = [calls EXCEPT ![p] = Drop(@, i)]
           \/ calls' = [calls EXCEPT ![p] = Drop(Outrun(@, i), i)]
    PROVE  \A q \in Pages : \A j \in 1..Len(calls'[q]) :
              \E k \in 1..Len(calls[q]) : calls'[q][j].state = calls[q][k].state
<1>1. calls[p] \in Seq(VaultSaves) /\ Len(calls[p]) \in Nat
  BY LenProperties DEF IInv
<1> SUFFICES ASSUME NEW q \in Pages, NEW j \in 1..Len(calls'[q])
             PROVE  \E k \in 1..Len(calls[q]) : calls'[q][j].state = calls[q][k].state
  OBVIOUS
<1>2. CASE q # p
  BY <1>2 DEF IInv
<1>3. CASE q = p
  <2>1. PICK s \in {calls[p], Outrun(calls[p], i)} : calls'[q] = Drop(s, i)
    BY <1>3 DEF IInv
  <2>2. /\ s \in Seq(VaultSaves) /\ Len(s) = Len(calls[p])
        /\ \A k \in 1..Len(calls[p]) : s[k].state = calls[p][k].state
    BY <1>1, <2>1, OutrunFacts
  <2>3. j \in 1..Len(s) - 1 /\ calls'[q][j] = IF j < i THEN s[j] ELSE s[j + 1]
    BY <1>1, <2>1, <2>2, DropFacts
  <2>4. j \in 1..Len(calls[p]) /\ j + 1 \in 1..Len(calls[p])
    BY <1>1, <2>2, <2>3
  <2> QED
    BY <1>3, <2>2, <2>3, <2>4
<1> QED
  BY <1>2, <1>3

LEMMA LoadFailsDated ==
    ASSUME IInv, DatedInv, NEW p \in Pages, LoadFails(p)
    PROVE  DatedInv'
<1>1. /\ load' = [load EXCEPT ![p] = None]
      /\ UNCHANGED <<now, storage, row, open, dataset, queued, hydrated, snapshot, calls>>
  BY DEF LoadFails
<1>2. \A x \in Dated : x \in Dated'
  BY <1>1, QueueKeeps
<1>3. \A q \in Pages : load'[q] = None \/ load'[q] = load[q]
  BY <1>1 DEF IInv
<1> HIDE DEF Dated
<1> QED
  BY <1>1, <1>2, <1>3 DEF DatedInv

LEMMA TimerFiresDated ==
    ASSUME IInv, DatedInv, NEW p \in Pages, TimerFires(p)
    PROVE  DatedInv'
<1> DEFINE c == [kind |-> "save", own |-> TRUE, user |-> user[p], state |-> dataset[p]]
<1>1. /\ calls' = [calls EXCEPT ![p] = Append(@, c)]
      /\ UNCHANGED <<now, storage, row, open, dataset, queued, hydrated, snapshot, load>>
  BY DEF TimerFires
<1>2. \A x \in Dated : x \in Dated'
  BY <1>1, QueueKeeps
<1>3. c.state \in Dated'
  BY <1>2 DEF TimerFires, IInv, DatedInv
<1> HIDE DEF Dated, c
<1>4. ASSUME NEW q \in Pages, NEW i \in 1..Len(calls'[q]) PROVE calls'[q][i].state \in Dated'
  <2>1. calls[p] \in Seq(VaultSaves) /\ Len(calls[p]) \in Nat
    BY LenProperties DEF IInv
  <2>2. CASE q # p
    BY <1>1, <1>2, <2>2 DEF IInv, DatedInv
  <2>3. CASE q = p
    <3>1. calls'[q] = Append(calls[p], c)
      BY <1>1, <2>3 DEF IInv
    <3>2. i = Len(calls[p]) + 1 \/ i \in 1..Len(calls[p])
      BY <2>1, <3>1
    <3>3. calls'[q][i] = IF i = Len(calls[p]) + 1 THEN c ELSE calls[p][i]
      BY <2>1, <3>1, <3>2
    <3> QED
      BY <1>2, <1>3, <2>3, <3>2, <3>3 DEF DatedInv
  <2> QED
    BY <2>2, <2>3
<1> QED
  BY <1>1, <1>2, <1>4 DEF DatedInv

\* What one of the calls under way does when it is settled.
Settled(p, i) ==
    LET c == calls[p][i] IN
    /\ \/ /\ row' = [row EXCEPT ![c.user] = c.state]
          /\ snapshot' = [snapshot EXCEPT ![p] = IF c.kind = "save" THEN c.state ELSE @]
          /\ sync' = [sync EXCEPT ![p] = IF c.kind = "orphan" THEN @ ELSE "idle"]
          /\ written' = [written EXCEPT ![p] = IF c.own THEN c.state ELSE @]
          /\ lost' = lost
          /\ calls' = [calls EXCEPT ![p] = Drop(Outrun(@, i), i)]
       \/ /\ row' \in {row, [row EXCEPT ![c.user] = c.state]}
          /\ sync' = [sync EXCEPT ![p] = IF c.kind = "save" THEN "error" ELSE @]
          /\ lost' = [lost EXCEPT ![p] = @ \/ (c.own /\ i = Len(calls[p]))]
          /\ snapshot' = snapshot /\ written' = written
          /\ calls' = [calls EXCEPT ![p] = Drop(@, i)]
    /\ UNCHANGED <<now, ids, visits, storage, signedIn, open, dataset, queued, user,
                   hydrated, load, timer>>

LEMMA SavesSettle ==
    ASSUME NEW p \in Pages, SaveLands(p) \/ SaveFails(p)
    PROVE  \E i \in 1..Len(calls[p]) : Settled(p, i)
<1>1. CASE SaveLands(p)
  BY <1>1 DEF SaveLands, Settled
<1>2. CASE SaveFails(p)
  BY <1>2 DEF SaveFails, Settled
<1> QED
  BY <1>1, <1>2

LEMMA SettledDated ==
    ASSUME IInv, DatedInv, NEW p \in Pages, NEW i \in 1..Len(calls[p]), Settled(p, i)
    PROVE  DatedInv'
<1> DEFINE c == calls[p][i]
<1>1. c \in VaultSaves /\ i \in 1..Len(calls[p])
  BY CallFacts
<1>2. c.state \in Dated /\ c.user \in Users
  BY <1>1 DEF DatedInv, VaultSaves
<1>3. /\ row' \in {row, [row EXCEPT ![c.user] = c.state]}
      /\ snapshot' \in {snapshot, [snapshot EXCEPT ![p] = c.state]}
      /\ \/ calls' = [calls EXCEPT ![p] = Drop(@, i)]
         \/ calls' = [calls EXCEPT ![p] = Drop(Outrun(@, i), i)]
      /\ UNCHANGED <<now, storage, open, dataset, queued, hydrated, load>>
  BY DEF Settled, IInv
<1>4. /\ \A x \in Dated : x \in Dated'
      /\ \A q \in Pages : queued'[q] <= now'
      /\ \A q, r \in Pages : queued'[q] = queued'[r] /\ queued'[q] # 0 => q = r
  BY <1>3, QueueKeeps
<1>5. \A q \in Pages : \A j \in 1..Len(calls'[q]) :
          \E k \in 1..Len(calls[q]) : calls'[q][j].state = calls[q][k].state
  BY <1>3, DropDated
<1> HIDE DEF Dated, c
<1>6. \A u \in Users : row'[u] = row[u] \/ row'[u] \in Dated'
  BY <1>2, <1>3, <1>4 DEF IInv
<1>7. \A q \in Pages : snapshot'[q] = snapshot[q] \/ snapshot'[q] \in Dated'
  BY <1>2, <1>3, <1>4 DEF IInv
<1>8. \A q \in Pages :
          /\ ~open'[q] \/ (open[q] /\ dataset'[q] = dataset[q])
          /\ \/ hydrated'[q] = None
             \/ snapshot'[q] \in Dated'
             \/ hydrated[q] # None /\ snapshot'[q] = snapshot[q]
          /\ load'[q] = load[q]
          /\ hydrated'[q] # None => open'[q]
  BY <1>3, <1>7 DEF DatedInv
<1>9. storage' = storage
  BY <1>3
<1> QED
  BY <1>4, <1>5, <1>6, <1>8, <1>9, PlacesDated

LEMMA StepDated == IInv /\ DatedInv /\ [Next]_vars => DatedInv'
<1> SUFFICES ASSUME IInv, DatedInv, [Next]_vars PROVE DatedInv'
  OBVIOUS
<1>1. ASSUME UNCHANGED <<now, storage, row, open, dataset, queued, hydrated, snapshot, load, calls>>
      PROVE  DatedInv'
  BY <1>1 DEF DatedInv, Dated
<1>2. ASSUME NEW p \in Pages, Step(p) PROVE DatedInv'
  <2>1. CASE Open(p)
    BY <2>1, OpenDated
  <2>2. CASE Close(p)
    BY <2>2, CloseDated
  <2>3. CASE AuthStateChange(p)
    BY <2>3, AuthStateChangeDated
  <2>4. CASE Edit(p)
    BY <2>4, EditDated
  <2>5. CASE ResetPreview(p)
    BY <2>5, ResetPreviewDated
  <2>6. CASE Applied(p)
    BY <2>6, AppliedAdvances, CommitDated
  <2>7. CASE AnswerLoad(p)
    BY <2>7, AnswerLoadDated
  <2>8. CASE Hydrate(p)
    BY <2>8, HydrateDated
  <2>9. CASE LoadFails(p)
    BY <2>9, LoadFailsDated
  <2>10. CASE TimerFires(p)
    BY <2>10, TimerFiresDated
  <2>11. CASE SaveLands(p) \/ SaveFails(p)
    BY <2>11, SavesSettle, SettledDated
  <2> QED
    BY <1>2, <2>1, <2>2, <2>3, <2>4, <2>5, <2>6, <2>7, <2>8, <2>9, <2>10, <2>11
    DEF Step, Progress
<1>3. ASSUME NEW b \in Browsers, Sign(b) PROVE DatedInv'
  BY <1>1, <1>3 DEF Sign
<1> QED
  BY <1>1, <1>2, <1>3 DEF Next, vars

LEMMA EditUnlike ==
    ASSUME NEW p \in Pages, NEW d, queued[p] \in d.records, NEW x \in Dated
    PROVE  ~Same(x, d)
  BY DEF Dated, Same

LEMMA SeedUnlike ==
    ASSUME IInv, NEW x \in Dated
    PROVE  ~Same(x, Seed(now + 1))
<1> DEFINE v == [entry |-> Example, number |-> 1, text |-> 0, stamp |-> (now + 1) - SeedAge]
<1>1. Seed(now + 1).records = {} /\ v \in Seed(now + 1).versions
  BY DEF Seed
<1>2. now \in Nat /\ SeedAge \in Nat
  BY VaultAssumption DEF IInv, Stamps
<1>3. ~(v.stamp <= now - SeedAge)
  BY <1>2
<1> HIDE DEF Seed, v
<1> QED
  BY <1>1, <1>3 DEF Dated, Same

\* A page sees no step of others.
LEMMA PageStays ==
    ASSUME NEW p \in Pages, OwnInv(p) /\ (hydrated[p] # None => SavedInv(p)),
           dataset'[p] = dataset[p], user'[p] = user[p], hydrated'[p] = hydrated[p],
           sync'[p] = sync[p], snapshot'[p] = snapshot[p], timer'[p] = timer[p],
           calls'[p] = calls[p], written'[p] = written[p], lost'[p] = lost[p]
    PROVE  OwnInv(p)' /\ (hydrated'[p] # None => SavedInv(p)')
  BY DEF OwnInv, SavedInv

\* The effects set the timer, or find the snapshot to be what is shown.
LEMMA EffectsSaved ==
    ASSUME IInv, DatedInv, NEW p \in Pages, OwnInv(p) /\ (hydrated[p] # None => SavedInv(p)),
           NEW d, Effects(p, d, user'[p], hydrated[p], snapshot[p]), user'[p] # None \/ hydrated[p] = None,
           dataset'[p] = d, hydrated'[p] = hydrated[p], snapshot'[p] = snapshot[p],
           calls'[p] = calls[p], written'[p] = written[p],
           sync'[p] = Loading(user'[p], hydrated[p], sync[p]), lost'[p] <=> lost[p],
           Same(d, dataset[p]) \/ \A x \in Dated : ~Same(x, d)
    PROVE  OwnInv(p)' /\ (hydrated'[p] # None => SavedInv(p)')
<1>1. timer'[p] = (user'[p] # None /\ hydrated[p] = user'[p] /\ snapshot[p] # d)
  BY DEF Effects, IInv
<1>2. OwnInv(p)'
  BY <1>1 DEF OwnInv
<1>3. ASSUME hydrated[p] # None PROVE SavedInv(p)'
  <2>1. SavedInv(p) /\ user'[p] # None
    BY <1>3
  <2>2. /\ snapshot[p] \in Dated
        /\ \A i \in 1..Len(calls[p]) : calls[p][i].state \in Dated
    BY <1>3 DEF DatedInv
  <2>3. ASSUME calls[p] # <<>> \/ sync'[p] = "idle"
        PROVE  calls[p] # <<>> \/ sync[p] = "idle"
    BY <1>1, <2>1, <2>3 DEF Loading
  <2>4. Same(d, d)
    BY DEF Same
  <2>5. CASE Same(d, dataset[p])
    <3>1. \A x : Same(x, d) <=> Same(x, dataset[p])
      BY <2>5 DEF Same
    <3>2. hydrated[p] = user'[p] /\ ~timer'[p] => Same(snapshot[p], d)
      BY <1>1, <2>1, <2>4
    <3> QED
      BY <2>1, <2>3, <3>1, <3>2 DEF SavedInv
  <2>6. CASE \A x \in Dated : ~Same(x, d)
    <3>1. ~Same(snapshot[p], d) /\ (hydrated[p] = user'[p] => timer'[p])
      BY <1>1, <2>1, <2>2, <2>4, <2>6
    <3>2. \A i \in 1..Len(calls[p]) : ~Same(calls[p][i].state, d)
      BY <2>2, <2>6
    <3> HIDE DEF Same
    <3> QED
      BY <3>1, <3>2 DEF SavedInv
  <2> QED
    BY <2>5, <2>6
<1> QED
  BY <1>2, <1>3

\* The same, where a data set is shown.
LEMMA ShowSaved ==
    ASSUME IInv, DatedInv, PageInv, NEW p \in Pages, NEW d, Show(p, d),
           UNCHANGED <<user, hydrated, snapshot, calls, written, lost>>,
           Same(d, dataset[p]) \/ \A x \in Dated : ~Same(x, d)
    PROVE  PageInv'
<1>1. /\ dataset' = [dataset EXCEPT ![p] = d]
      /\ Effects(p, d, user[p], hydrated[p], snapshot[p])
      /\ sync' = [sync EXCEPT ![p] = Loading(user[p], hydrated[p], @)]
  BY DEF Show
<1>2. \A q \in Pages : OwnInv(q) /\ (hydrated[q] # None => SavedInv(q))
  BY DEF PageInv
<1>3. user[p] # None \/ hydrated[p] = None
  BY <1>2 DEF OwnInv
<1>4. dataset'[p] = d /\ sync'[p] = Loading(user'[p], hydrated[p], sync[p])
  BY <1>1 DEF IInv
<1>5. OwnInv(p)' /\ (hydrated'[p] # None => SavedInv(p)')
  BY <1>1, <1>2, <1>3, <1>4, EffectsSaved
<1>6. ASSUME NEW q \in Pages, q # p
      PROVE  OwnInv(q)' /\ (hydrated'[q] # None => SavedInv(q)')
  <2>1. dataset'[q] = dataset[q] /\ sync'[q] = sync[q]
    BY <1>1, <1>6 DEF IInv
  <2>2. timer'[q] = timer[q] /\ lost'[q] = lost[q]
    BY <1>1, <1>6 DEF IInv, Effects
  <2> QED
    BY <1>2, <2>1, <2>2, PageStays
<1> QED
  BY <1>5, <1>6 DEF PageInv

\* Page p alone does something.
LEMMA OnePage ==
    ASSUME PageInv, NEW p \in Pages,
           \A q \in Pages \ {p} :
              /\ dataset'[q] = dataset[q] /\ user'[q] = user[q] /\ hydrated'[q] = hydrated[q]
              /\ sync'[q] = sync[q] /\ snapshot'[q] = snapshot[q] /\ timer'[q] = timer[q]
              /\ calls'[q] = calls[q] /\ written'[q] = written[q] /\ lost'[q] = lost[q],
           OwnInv(p)' /\ (hydrated'[p] # None => SavedInv(p)')
    PROVE  PageInv'
<1>1. ASSUME NEW q \in Pages, q # p
      PROVE  OwnInv(q)' /\ (hydrated'[q] # None => SavedInv(q)')
  BY <1>1, PageStays DEF PageInv
<1> QED
  BY <1>1 DEF PageInv

\* Calls that are none of the page's own.
LEMMA NoneOwn ==
    ASSUME IInv, NEW p \in Pages,
           calls'[p] = Orphaned(calls[p]) \/ calls'[p] = Disowned(calls[p])
    PROVE  /\ Len(calls'[p]) \in Nat
           /\ \A i \in 1..Len(calls'[p]) : ~calls'[p][i].own
           /\ \A w : Sent(calls'[p], w) = w
<1>1. calls[p] \in Seq(VaultSaves) /\ Len(calls[p]) \in Nat
  BY LenProperties DEF IInv
<1>2. /\ Len(calls'[p]) = Len(calls[p])
      /\ \A i \in 1..Len(calls[p]) : ~calls'[p][i].own
  BY <1>1, OrphanedFacts, DisownedFacts
<1>3. calls'[p] \in Seq(VaultSaves)
  BY <1>1, OrphanedKeeps, DisownedKeeps
<1>4. calls'[p] # <<>> => Len(calls'[p]) \in 1..Len(calls[p])
  BY <1>1, <1>2, <1>3, EmptySeq
<1> QED
  BY <1>1, <1>2, <1>4 DEF Sent

LEMMA OpenPage ==
    ASSUME IInv, DatedInv, PageInv, NEW p \in Pages, Open(p)
    PROVE  PageInv'
<1>1. /\ \A q \in Pages \ {p} : dataset'[q] = dataset[q]
      /\ UNCHANGED <<user, hydrated, sync, snapshot, timer, calls, written, lost>>
  BY DEF Open, told, IInv
<1>2. hydrated[p] = None
  BY DEF Open, DatedInv
<1>3. OwnInv(p)'
  BY <1>1 DEF PageInv, OwnInv
<1> QED
  BY <1>1, <1>2, <1>3, OnePage

LEMMA ClosePage ==
    ASSUME IInv, PageInv, NEW p \in Pages, Close(p)
    PROVE  PageInv'
<1>1. /\ \A q \in Pages \ {p} :
            /\ dataset'[q] = dataset[q] /\ user'[q] = user[q] /\ hydrated'[q] = hydrated[q]
            /\ sync'[q] = sync[q] /\ snapshot'[q] = snapshot[q] /\ timer'[q] = timer[q]
            /\ calls'[q] = calls[q] /\ written'[q] = written[q] /\ lost'[q] = lost[q]
      /\ hydrated'[p] = None /\ ~timer'[p] /\ calls'[p] = Orphaned(calls[p])
  BY DEF Close, IInv
<1>2. OwnInv(p)'
  BY <1>1, NoneOwn DEF OwnInv
<1> QED
  BY <1>1, <1>2, OnePage

LEMMA AuthStateChangePage ==
    ASSUME IInv, DatedInv, PageInv, NEW p \in Pages, AuthStateChange(p)
    PROVE  PageInv'
<1> DEFINE u == signedIn[BrowserOf[p]]
           h == IF u = None THEN None ELSE hydrated[p]
           s == IF u = None THEN None ELSE snapshot[p]
<1>1. /\ Effects(p, dataset[p], u, h, s)
      /\ user' = [user EXCEPT ![p] = u]
      /\ hydrated' = [hydrated EXCEPT ![p] = h]
      /\ snapshot' = [snapshot EXCEPT ![p] = s]
      /\ sync' = [sync EXCEPT ![p] = IF u = None THEN "idle" ELSE Loading(u, h, @)]
      /\ calls' = [calls EXCEPT ![p] = IF u = None THEN Disowned(@) ELSE @]
      /\ written' = [written EXCEPT ![p] = IF u = None THEN None ELSE @]
      /\ dataset' = dataset
  BY DEF AuthStateChange
<1>2. timer' = [timer EXCEPT ![p] = u # None /\ h = u /\ s # dataset[p]]
  BY <1>1 DEF Effects
<1>3. lost' = [lost EXCEPT ![p] = @ /\ u # None]
  BY DEF AuthStateChange
<1> HIDE DEF u
<1>4. /\ \A q \in Pages \ {p} :
            /\ dataset'[q] = dataset[q] /\ user'[q] = user[q] /\ hydrated'[q] = hydrated[q]
            /\ sync'[q] = sync[q] /\ snapshot'[q] = snapshot[q] /\ timer'[q] = timer[q]
            /\ calls'[q] = calls[q] /\ written'[q] = written[q] /\ lost'[q] = lost[q]
  BY <1>1, <1>2, <1>3 DEF IInv
<1>5. CASE u = None
  <2>1. hydrated'[p] = None /\ ~timer'[p] /\ calls'[p] = Disowned(calls[p])
    BY <1>1, <1>2, <1>5 DEF IInv
  <2>2. OwnInv(p)'
    BY <2>1, NoneOwn DEF OwnInv
  <2> QED
    BY <1>4, <2>1, <2>2, OnePage
<1>6. CASE u # None
  <2>1. /\ user'[p] = u /\ hydrated'[p] = hydrated[p] /\ snapshot'[p] = snapshot[p]
        /\ calls'[p] = calls[p] /\ written'[p] = written[p] /\ dataset'[p] = dataset[p]
        /\ sync'[p] = Loading(u, hydrated[p], sync[p])
        /\ Effects(p, dataset[p], u, hydrated[p], snapshot[p])
        /\ lost'[p] <=> lost[p]
    BY <1>1, <1>3, <1>6 DEF IInv
  <2>2. Same(dataset[p], dataset[p])
    BY DEF Same
  <2>3. OwnInv(p)' /\ (hydrated'[p] # None => SavedInv(p)')
    BY <1>6, <2>1, <2>2, EffectsSaved DEF PageInv
  <2> QED
    BY <1>4, <2>3, OnePage
<1> QED
  BY <1>5, <1>6

LEMMA CommitPage ==
    ASSUME IInv, DatedInv, PageInv, NEW p \in Pages, NEW d \in Vaults, Commit(p, d),
           Advances(dataset[p], d, queued[p])
    PROVE  PageInv'
<1>1. UNCHANGED <<user, hydrated, snapshot, calls, written, lost>>
  BY DEF Commit, told
<1>2. CASE d = dataset[p]
  <2>1. UNCHANGED <<dataset, timer, sync>>
    BY <1>2 DEF Commit
  <2> QED
    BY <1>1, <2>1 DEF PageInv, OwnInv, SavedInv
<1>3. CASE d # dataset[p]
  <2>1. Show(p, d)
    BY <1>3 DEF Commit
  <2>2. Same(d, dataset[p]) \/ \A x \in Dated : ~Same(x, d)
    BY EditUnlike DEF Advances
  <2> QED
    BY <1>1, <2>1, <2>2, ShowSaved
<1> QED
  BY <1>2, <1>3

LEMMA ResetPreviewPage ==
    ASSUME IInv, DatedInv, PageInv, NEW p \in Pages, ResetPreview(p)
    PROVE  PageInv'
<1>1. Show(p, Seed(now + 1)) /\ UNCHANGED <<user, hydrated, snapshot, calls, written, lost>>
  BY DEF ResetPreview, told
<1>2. \A x \in Dated : ~Same(x, Seed(now + 1))
  BY SeedUnlike
<1> HIDE DEF Seed
<1> QED
  BY <1>1, <1>2, ShowSaved

\* What is shown after a merge is sent, or is what the database has.
LEMMA HydratePage ==
    ASSUME IInv, PageInv, NEW p \in Pages, Hydrate(p)
    PROVE  PageInv'
<1> DEFINE l == load[p]
           d == Merged(l)
           c == [kind |-> "first", own |-> TRUE, user |-> l.user, state |-> d]
           s == Disowned(calls[p])
<1>1. l \in VaultLoads /\ l.user = user[p] /\ l.user \in Users
  BY DEF IInv, Hydrate, VaultLoads
<1>2. /\ dataset' = [dataset EXCEPT ![p] = d]
      /\ hydrated' = [hydrated EXCEPT ![p] = l.user]
      /\ snapshot' = [snapshot EXCEPT ![p] = d]
      /\ Effects(p, d, user[p], l.user, d)
      /\ UNCHANGED user
  BY DEF Hydrate, Merged
<1>3. \/ /\ sync' = [sync EXCEPT ![p] = "idle"] /\ written' = [written EXCEPT ![p] = d]
         /\ calls' = [calls EXCEPT ![p] = Disowned(@)]
      \/ /\ sync' = sync /\ written' = [written EXCEPT ![p] = None]
         /\ calls' = [calls EXCEPT ![p] = Append(Disowned(@), c)]
  BY DEF Hydrate, Merged
<1>4. timer' = [timer EXCEPT ![p] = user[p] # None /\ l.user = user[p] /\ d # d]
  BY <1>2 DEF Effects
<1>5. lost' = [lost EXCEPT ![p] = FALSE]
  BY DEF Hydrate
<1>6. c.own /\ c.state = d
  OBVIOUS
<1> HIDE DEF l, d, c
<1>7. \A q \in Pages \ {p} :
          /\ dataset'[q] = dataset[q] /\ user'[q] = user[q] /\ hydrated'[q] = hydrated[q]
          /\ sync'[q] = sync[q] /\ snapshot'[q] = snapshot[q] /\ timer'[q] = timer[q]
          /\ calls'[q] = calls[q] /\ written'[q] = written[q] /\ lost'[q] = lost[q]
  BY <1>2, <1>3, <1>4, <1>5 DEF IInv
<1>8. dataset'[p] = d /\ hydrated'[p] = user'[p] /\ user'[p] # None /\ ~timer'[p]
  BY <1>1, <1>2, <1>4, VaultAssumption DEF IInv
<1>9. s \in Seq(VaultSaves) /\ Len(s) \in Nat /\ \A i \in 1..Len(s) : ~s[i].own
  <2>1. calls[p] \in Seq(VaultSaves)
    BY DEF IInv
  <2> QED
    BY <2>1, DisownedKeeps, DisownedFacts, LenProperties
<1> HIDE DEF s
<1>10. /\ Sent(calls'[p], written'[p]) = d
       /\ \A i, j \in 1..Len(calls'[p]) : i < j /\ calls'[p][i].own => calls'[p][j].own
  <2>1. CASE calls'[p] = s /\ written'[p] = d
    <3>1. s # <<>> => Len(s) \in 1..Len(s)
      BY <1>9, EmptySeq
    <3> QED
      BY <1>9, <2>1, <3>1 DEF Sent
  <2>2. CASE calls'[p] = Append(s, c)
    <3>1. /\ Len(calls'[p]) = Len(s) + 1
          /\ calls'[p][Len(s) + 1] = c
          /\ \A j \in 1..Len(s) : calls'[p][j] = s[j]
      BY <1>9, <2>2
    <3>2. calls'[p] # <<>>
      BY <1>9, <2>2
    <3>3. Sent(calls'[p], written'[p]) = d
      BY <1>6, <3>1, <3>2 DEF Sent
    <3>4. ASSUME NEW i \in 1..Len(calls'[p]), NEW j \in 1..Len(calls'[p]), i < j
          PROVE  ~calls'[p][i].own
      <4>1. i \in 1..Len(s)
        BY <1>9, <3>1, <3>4
      <4> QED
        BY <1>9, <3>1, <4>1
    <3> QED
      BY <3>3, <3>4
  <2> QED
    BY <1>3, <2>1, <2>2 DEF IInv, s
<1>11. OwnInv(p)'
  BY <1>8, <1>10 DEF OwnInv
<1>12. SavedInv(p)'
  <2>1. Same(d, d)
    BY DEF Same
  <2> HIDE DEF Same
  <2> QED
    BY <1>8, <1>10, <2>1 DEF SavedInv
<1> QED
  BY <1>7, <1>11, <1>12, OnePage

LEMMA LoadFailsPage ==
    ASSUME IInv, PageInv, NEW p \in Pages, LoadFails(p)
    PROVE  PageInv'
<1>1. /\ UNCHANGED <<dataset, user, hydrated, snapshot, timer, calls, written>>
      /\ sync' = [sync EXCEPT ![p] = "error"] /\ lost' = [lost EXCEPT ![p] = TRUE]
  BY DEF LoadFails
<1>2. \A q \in Pages \ {p} : sync'[q] = sync[q] /\ lost'[q] = lost[q]
  BY <1>1 DEF IInv
<1>3. lost'[p]
  BY <1>1 DEF IInv
<1>4. OwnInv(p)' /\ (hydrated'[p] # None => SavedInv(p)')
  BY <1>1, <1>3 DEF PageInv, OwnInv, SavedInv
<1> QED
  BY <1>1, <1>2, <1>4, OnePage

LEMMA TimerFiresPage ==
    ASSUME IInv, PageInv, NEW p \in Pages, TimerFires(p)
    PROVE  PageInv'
<1> DEFINE c == [kind |-> "save", own |-> TRUE, user |-> user[p], state |-> dataset[p]]
<1>1. /\ calls' = [calls EXCEPT ![p] = Append(@, c)]
      /\ timer' = [timer EXCEPT ![p] = FALSE]
      /\ sync' = [sync EXCEPT ![p] = "saving"]
      /\ lost' = [lost EXCEPT ![p] = FALSE]
      /\ UNCHANGED <<dataset, user, hydrated, snapshot, written>>
  BY DEF TimerFires
<1>2. c.own /\ c.state = dataset[p]
  OBVIOUS
<1> HIDE DEF c
<1>3. \A q \in Pages \ {p} :
          /\ dataset'[q] = dataset[q] /\ user'[q] = user[q] /\ hydrated'[q] = hydrated[q]
          /\ sync'[q] = sync[q] /\ snapshot'[q] = snapshot[q] /\ timer'[q] = timer[q]
          /\ calls'[q] = calls[q] /\ written'[q] = written[q] /\ lost'[q] = lost[q]
  BY <1>1 DEF IInv
<1>4. OwnInv(p) /\ timer[p] /\ hydrated[p] = user[p] /\ user[p] # None
  BY DEF PageInv, OwnInv, IInv, TimerFires
<1>5. calls[p] \in Seq(VaultSaves) /\ Len(calls[p]) \in Nat
  BY LenProperties DEF IInv
<1>6. /\ calls'[p] = Append(calls[p], c) /\ ~timer'[p]
      /\ Len(calls'[p]) = Len(calls[p]) + 1
      /\ calls'[p][Len(calls[p]) + 1] = c
      /\ \A j \in 1..Len(calls[p]) : calls'[p][j] = calls[p][j]
  BY <1>1, <1>5 DEF IInv
<1>7. calls'[p] # <<>>
  BY <1>5, <1>6
<1>8. Sent(calls'[p], written'[p]) = dataset'[p]
  BY <1>1, <1>2, <1>6, <1>7 DEF Sent
<1>9. ASSUME NEW i \in 1..Len(calls'[p]), NEW j \in 1..Len(calls'[p]), i < j, calls'[p][i].own
      PROVE  calls'[p][j].own
  <2>1. i \in 1..Len(calls[p]) /\ (j \in 1..Len(calls[p]) \/ j = Len(calls[p]) + 1)
    BY <1>5, <1>6, <1>9
  <2> QED
    BY <1>2, <1>4, <1>6, <1>9, <2>1 DEF OwnInv
<1>10. OwnInv(p)'
  BY <1>1, <1>4, <1>6, <1>9 DEF OwnInv
<1>11. SavedInv(p)'
  BY <1>8 DEF SavedInv, Same
<1> QED
  BY <1>3, <1>10, <1>11, OnePage

\* One of the calls under way is settled: what was sent last is sent, has been
\* accepted, or is known to be lost.
LEMMA SettledPage ==
    ASSUME IInv, PageInv, NEW p \in Pages, NEW i \in 1..Len(calls[p]), Settled(p, i)
    PROVE  PageInv'
<1> DEFINE s == calls[p]
           n == Len(s)
           c == s[i]
<1>1. s \in Seq(VaultSaves) /\ n \in Nat /\ i \in 1..n /\ s # <<>>
  BY LenProperties, EmptySeq DEF IInv
<1>2. /\ dataset'[p] = dataset[p] /\ user'[p] = user[p] /\ hydrated'[p] = hydrated[p]
      /\ timer'[p] = timer[p]
      /\ lost[p] => lost'[p]
      /\ snapshot'[p] = snapshot[p] \/ (c.kind = "save" /\ snapshot'[p] = c.state)
      /\ \/ /\ calls'[p] = Drop(Outrun(s, i), i)
            /\ written'[p] = IF c.own THEN c.state ELSE written[p]
         \/ /\ calls'[p] = Drop(s, i)
            /\ written'[p] = written[p]
            /\ c.own /\ i = n => lost'[p]
  BY <1>1 DEF Settled, IInv
<1>3. \A q \in Pages \ {p} :
          /\ dataset'[q] = dataset[q] /\ user'[q] = user[q] /\ hydrated'[q] = hydrated[q]
          /\ sync'[q] = sync[q] /\ snapshot'[q] = snapshot[q] /\ timer'[q] = timer[q]
          /\ calls'[q] = calls[q] /\ written'[q] = written[q] /\ lost'[q] = lost[q]
  BY DEF Settled, IInv
<1>4. PICK o \in Seq(VaultSaves) :
        /\ Len(o) = n /\ calls'[p] = Drop(o, i)
        /\ \A j \in 1..n : /\ o[j].state = s[j].state /\ o[j].kind = s[j].kind
                           /\ o[j].own => s[j].own
                           /\ s[j].own /\ (j >= i \/ ~c.own) => o[j].own
        /\ \/ /\ written'[p] = IF c.own THEN c.state ELSE written[p]
              /\ \A j \in 1..n : c.own /\ j < i => ~o[j].own
           \/ /\ written'[p] = written[p] /\ (c.own /\ i = n => lost'[p])
              /\ o = s
  <2>1. CASE calls'[p] = Drop(s, i) /\ written'[p] = written[p] /\ (c.own /\ i = n => lost'[p])
    BY <1>1, <2>1
  <2>2. CASE /\ calls'[p] = Drop(Outrun(s, i), i)
             /\ written'[p] = IF c.own THEN c.state ELSE written[p]
    <3>1. Outrun(s, i) \in Seq(VaultSaves) /\ Len(Outrun(s, i)) = n
      BY <1>1, OutrunFacts
    <3>2. ASSUME NEW j \in 1..n
          PROVE  /\ Outrun(s, i)[j].state = s[j].state /\ Outrun(s, i)[j].kind = s[j].kind
                 /\ Outrun(s, i)[j].own => s[j].own
                 /\ s[j].own /\ (j >= i \/ ~c.own) => Outrun(s, i)[j].own
                 /\ c.own /\ j < i => ~Outrun(s, i)[j].own
      <4>1. j >= i => ~(j < i)
        BY <1>1
      <4> QED
        BY <1>1, <4>1, OutrunFacts
    <3> QED
      BY <2>2, <3>1, <3>2
  <2> QED
    BY <1>2, <2>1, <2>2
<1>5. /\ Len(calls'[p]) = n - 1
      /\ \A j \in 1..n - 1 : calls'[p][j] = IF j < i THEN o[j] ELSE o[j + 1]
  <2>1. i \in 1..Len(o)
    BY <1>1, <1>4
  <2>2. /\ Len(Drop(o, i)) = Len(o) - 1
        /\ \A j \in 1..Len(o) - 1 : Drop(o, i)[j] = IF j < i THEN o[j] ELSE o[j + 1]
    BY <2>1, DropFacts
  <2> HIDE DEF n
  <2> QED
    BY <1>4, <2>2
<1>6. calls'[p] # <<>> <=> n # 1
  <2>1. Drop(o, i) \in Seq(VaultSaves)
    BY <1>1, <1>4, DropKeeps
  <2>2. \A t \in Seq(VaultSaves) : t = <<>> <=> Len(t) = 0
    BY EmptySeq
  <2>3. calls'[p] = <<>> <=> n - 1 = 0
    BY <1>4, <1>5, <2>1, <2>2
  <2> HIDE DEF n, s
  <2> QED
    BY <1>1, <2>3
<1>7. OwnInv(p) /\ (hydrated[p] # None => SavedInv(p))
  BY DEF PageInv
<1>8. ASSUME ~lost'[p]
      PROVE  Sent(calls'[p], written'[p]) = Sent(s, written[p])
  <2>1. Sent(s, written[p]) = IF s[n].own THEN s[n].state ELSE written[p]
    BY <1>1 DEF Sent
  <2>2. CASE n = 1
    <3>1. i = n /\ Sent(calls'[p], written'[p]) = written'[p]
      BY <1>1, <1>6, <2>2 DEF Sent
    <3> QED
      BY <1>4, <1>8, <2>1, <3>1
  <2>3. CASE n # 1
    <3> DEFINE m == IF i = n THEN n - 1 ELSE n
    <3>1. m \in 1..n /\ calls'[p][Len(calls'[p])] = o[m]
      <4>1. n - 1 \in 1..n - 1 /\ (n - 1) + 1 = n /\ (n - 1 < i <=> i = n)
        <5> HIDE DEF n, s
        <5> QED
          BY <1>1, <2>3
      <4>2. calls'[p][n - 1] = IF n - 1 < i THEN o[n - 1] ELSE o[(n - 1) + 1]
        BY <1>5, <4>1
      <4>3. m \in 1..n
        BY <1>1, <4>1
      <4> QED
        BY <1>5, <4>1, <4>2, <4>3
    <3>2. Sent(calls'[p], written'[p]) = IF o[m].own THEN o[m].state ELSE written'[p]
      BY <1>6, <2>3, <3>1 DEF Sent
    <3>3. CASE i = n
      <4>1. s[m].own => s[n].own
        <5>1. m < n /\ n \in 1..n
          BY <1>1, <3>3
        <5> QED
          BY <1>7, <3>1, <5>1 DEF OwnInv
      <4>2. ~o[m].own
        <5>1. m < i
          BY <1>1, <3>3
        <5>2. CASE c.own
          BY <1>4, <1>8, <3>1, <3>3, <5>1, <5>2
        <5>3. CASE ~c.own
          BY <1>4, <3>1, <3>3, <4>1, <5>3
        <5> QED
          BY <5>2, <5>3
      <4> QED
        BY <1>4, <1>8, <2>1, <3>2, <3>3, <4>2
    <3>4. CASE i # n
      <4>1. m = n /\ i < n /\ n >= i
        BY <1>1, <3>4
      <4>2. c.own => s[n].own
        BY <1>1, <1>7, <4>1 DEF OwnInv
      <4>3. (o[n].own <=> s[n].own) /\ o[n].state = s[n].state
        BY <1>4, <3>1, <4>1
      <4> QED
        BY <1>4, <2>1, <3>2, <4>1, <4>2, <4>3
    <3> QED
      BY <3>3, <3>4
  <2> QED
    BY <2>2, <2>3
<1>9. ASSUME NEW j \in 1..Len(calls'[p])
      PROVE  LET k == IF j < i THEN j ELSE j + 1 IN
             k \in 1..n /\ calls'[p][j] = o[k] /\ (k < i <=> j < i)
  <2>1. j \in 1..n - 1
    BY <1>5
  <2>2. calls'[p][j] = IF j < i THEN o[j] ELSE o[j + 1]
    BY <1>5, <2>1
  <2>3. ~(j < i) => ~(j + 1 < i)
    BY <1>1, <2>1
  <2>4. j \in 1..n /\ j + 1 \in 1..n
    BY <1>1, <2>1
  <2> QED
    BY <1>1, <2>1, <2>2, <2>3, <2>4
<1> HIDE DEF c, s, n
<1>10. OwnInv(p)'
  <2>1. ASSUME NEW j \in 1..Len(calls'[p]), NEW k \in 1..Len(calls'[p]), j < k, calls'[p][j].own
        PROVE  calls'[p][k].own
    <3>1. PICK a \in 1..n : calls'[p][j] = o[a] /\ a = (IF j < i THEN j ELSE j + 1)
      BY <1>9
    <3>2. PICK b \in 1..n : calls'[p][k] = o[b] /\ b = (IF k < i THEN k ELSE k + 1)
      BY <1>9
    <3>3. a < b /\ (b >= i \/ a < i)
      BY <1>1, <1>5, <2>1, <3>1, <3>2
    <3>4. s[a].own /\ o[a].own
      BY <1>4, <2>1, <3>1
    <3>5. s[b].own
      BY <1>7, <3>3, <3>4 DEF OwnInv, s, n
    <3>6. CASE o = s
      BY <3>2, <3>5, <3>6
    <3>7. CASE \A x \in 1..n : c.own /\ x < i => ~o[x].own
      <4>1. b >= i \/ ~c.own
        BY <3>3, <3>4, <3>7
      <4> QED
        BY <1>4, <3>2, <3>5, <4>1
    <3> QED
      BY <1>4, <3>6, <3>7
  <2>2. ASSUME hydrated'[p] = None, NEW j \in 1..Len(calls'[p])
        PROVE  ~calls'[p][j].own
    <3>1. PICK a \in 1..n : calls'[p][j] = o[a]
      BY <1>9
    <3> QED
      BY <1>2, <1>4, <1>7, <2>2, <3>1 DEF OwnInv, s, n
  <2> QED
    BY <1>2, <1>7, <2>1, <2>2 DEF OwnInv
<1>11. ASSUME hydrated'[p] # None, ~lost'[p]
       PROVE  SavedInv(p)'
  <2>1. SavedInv(p) /\ ~lost[p]
    BY <1>2, <1>7, <1>11
  <2>2. ASSUME NEW j \in 1..Len(calls'[p]), calls'[p][j].kind = "save",
               Same(calls'[p][j].state, dataset'[p])
        PROVE  Same(Sent(calls'[p], written'[p]), dataset'[p])
    <3>1. PICK a \in 1..n : calls'[p][j] = o[a]
      BY <1>9
    <3>2. Same(Sent(s, written[p]), dataset[p])
      BY <1>2, <1>4, <2>1, <2>2, <3>1 DEF SavedInv, s, n
    <3> QED
      BY <1>2, <1>8, <1>11, <3>2
  <2>3. ASSUME Same(snapshot'[p], dataset'[p]) \/ (hydrated'[p] = user'[p] /\ ~timer'[p])
        PROVE  Same(Sent(calls'[p], written'[p]), dataset'[p])
    <3>1. Same(Sent(s, written[p]), dataset[p])
      <4>1. CASE Same(snapshot[p], dataset[p]) \/ (hydrated[p] = user[p] /\ ~timer[p])
        BY <1>1, <2>1, <4>1 DEF SavedInv, s
      <4>2. CASE c.kind = "save" /\ Same(c.state, dataset[p])
        BY <1>1, <2>1, <4>2 DEF SavedInv, s, c, n
      <4> QED
        BY <1>2, <2>3, <4>1, <4>2
    <3> QED
      BY <1>2, <1>8, <1>11, <3>1
  <2> QED
    BY <2>2, <2>3 DEF SavedInv
<1>12. lost'[p] => SavedInv(p)'
  BY DEF SavedInv
<1> QED
  BY <1>3, <1>10, <1>11, <1>12, OnePage

LEMMA StepPage == IInv /\ DatedInv /\ PageInv /\ [Next]_vars => PageInv'
<1> SUFFICES ASSUME IInv, DatedInv, PageInv, [Next]_vars PROVE PageInv'
  OBVIOUS
<1>1. ASSUME UNCHANGED <<dataset, user, hydrated, sync, snapshot, timer, calls, written, lost>>
      PROVE  PageInv'
  BY <1>1 DEF PageInv, OwnInv, SavedInv
<1>2. ASSUME NEW p \in Pages, Step(p) PROVE PageInv'
  <2>1. CASE Open(p)
    BY <2>1, OpenPage
  <2>2. CASE Close(p)
    BY <2>2, ClosePage
  <2>3. CASE AuthStateChange(p)
    BY <2>3, AuthStateChangePage
  <2>4. CASE Edit(p)
    BY <1>1, <2>4 DEF Edit, told
  <2>5. CASE ResetPreview(p)
    BY <2>5, ResetPreviewPage
  <2>6. CASE Applied(p)
    BY <2>6, AppliedAdvances, CommitPage
  <2>7. CASE AnswerLoad(p)
    BY <1>1, <2>7 DEF AnswerLoad, told
  <2>8. CASE Hydrate(p)
    BY <2>8, HydratePage
  <2>9. CASE LoadFails(p)
    BY <2>9, LoadFailsPage
  <2>10. CASE TimerFires(p)
    BY <2>10, TimerFiresPage
  <2>11. CASE SaveLands(p) \/ SaveFails(p)
    BY <2>11, SavesSettle, SettledPage
  <2> QED
    BY <1>2, <2>1, <2>2, <2>3, <2>4, <2>5, <2>6, <2>7, <2>8, <2>9, <2>10, <2>11
    DEF Step, Progress
<1>3. ASSUME NEW b \in Browsers, Sign(b) PROVE PageInv'
  BY <1>1, <1>3 DEF Sign, told
<1> QED
  BY <1>1, <1>2, <1>3 DEF Next, vars, told

\* A page that says it is in sync has had what it shows accepted since it
\* hydrated, for any number of pages, browsers, accounts and sessions, in
\* whatever order saves land and whatever fails.
THEOREM QuietPagesAreSaved == Spec => []QuietMeansSaved
<1>1. Init => DatedInv /\ PageInv
  <2> SUFFICES ASSUME Init PROVE DatedInv /\ PageInv
    OBVIOUS
  <2>1. \A p \in Pages : calls[p] = <<>> /\ Len(calls[p]) = 0
    BY EmptySeq DEF Init
  <2>2. now = 0 /\ \A p \in Pages : queued[p] = 0 /\ hydrated[p] = None /\ ~timer[p] /\ ~open[p]
                                    /\ load[p] = None
    BY DEF Init
  <2>3. DatedInv
    BY <2>1, <2>2 DEF Init, DatedInv
  <2> QED
    BY <2>1, <2>2, <2>3 DEF PageInv, OwnInv
<1>2. IInv /\ PageInv => QuietMeansSaved
  <2> SUFFICES ASSUME IInv, PageInv, NEW p \in Pages, Quiet(p), ~lost[p]
               PROVE  Same(written[p], dataset[p])
    BY DEF QuietMeansSaved, Same
  <2>1. SavedInv(p) /\ calls[p] = <<>>
    BY DEF PageInv, Quiet
  <2>2. Sent(calls[p], written[p]) = written[p]
    BY <2>1 DEF Sent
  <2> QED
    BY <2>1, <2>2 DEF SavedInv, Quiet
<1> QED
  BY <1>1, <1>2, StepDated, StepPage, InvariantIInv, PTL DEF Spec
===============================================================================
