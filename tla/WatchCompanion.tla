---------------------------- MODULE WatchCompanion ----------------------------
(***************************************************************************)
(* The Windows companion of Omnia Watch (desktop/src/main: agent-          *)
(* controller.ts, its services and its file stores) against the device     *)
(* pipeline.  A machine keeps two files, the agent configuration and the   *)
(* last scan.  Every operation of AgentController reads the configuration  *)
(* whole, awaits, and writes its copy back with its own fields changed;    *)
(* fs.writeFile first truncates the file, and a truncated file reads as    *)
(* the default, unpaired configuration.                                    *)
(*                                                                         *)
(* The window lets one operation run at a time (busyAction), but forgets   *)
(* that it waits when it is reloaded, and a closed application abandons    *)
(* its calls while the server goes on with them.                           *)
(***************************************************************************)
EXTENDS DevicePipeline

CONSTANTS
    Torn,       \* a configuration file that does not parse
    PairLimit,  \* bound: pairings begun in all
    ScanLimit,  \* bound: local scans begun in all
    SyncLimit   \* bound: syncs begun in all

ASSUME CompanionAssumption ==
    /\ Torn \notin [row : Rows \cup {None}, token : Nat, synced : Nat]
    /\ ScanLimit \in Nat
    /\ SyncLimit \in Nat
    /\ PairLimit \in Nat

VARIABLES
    config,     \* agent-config.json of each machine
    cache,      \* last-scan.json of each machine
    window,     \* the operation the machine's window waits for
    task,       \* the operation in each slot
    clock,      \* local scans taken so far
    begun       \* how many pairings, scans and syncs have been begun

agentVars == <<config, cache, window, task, clock, begun>>
vars == <<device, pairing, tokens, scans, told, start, call,
          config, cache, window, task, clock, begun>>

\* A configuration: the pairing it holds and the sync it recorded last.
Unpaired == [row |-> None, token |-> 0, synced |-> 0]
NoTask == [pc |-> "idle", file |-> Unpaired, scan |-> None]

\* ConfigStore.read: what does not parse is the default.
ReadConfig(m) == IF config[m] = Torn THEN Unpaired ELSE config[m]

AgentInit ==
    /\ Init
    /\ config = [m \in Machines |-> Unpaired]
    /\ cache = [m \in Machines |-> None]
    /\ window = [m \in Machines |-> None]
    /\ task = [t \in Slots |-> NoTask]
    /\ clock = 0
    /\ begun = [pairings |-> 0, scans |-> 0, syncs |-> 0]

-----------------------------------------------------------------------------
(* The operations, up to the point where they have something to write *)

\* The button of an operation is enabled while the window waits for none.
Begin(t, next) ==
    /\ window[Home[t]] = None
    /\ task[t].pc = "idle"
    /\ call[t].pc = "idle"
    /\ window' = [window EXCEPT ![Home[t]] = t]
    /\ task' = [task EXCEPT ![t] = next]

\* The operation ends; its window, if it still waits for it, no longer does.
Finish(t) ==
    /\ task' = [task EXCEPT ![t] = NoTask]
    /\ window' = [window EXCEPT ![Home[t]] = IF @ = t THEN None ELSE @]

\* pairWithCode: the user types a code a panel has shown.  Reading the file
\* and posting the code are one step, for nobody sees what lies between.
Pair(t) ==
    /\ begun.pairings < PairLimit
    /\ Begin(t, [pc |-> "pairing", file |-> ReadConfig(Home[t]), scan |-> None])
    /\ \E c \in told : call' = [call EXCEPT ![t] = [NoCall EXCEPT !.pc = "lookup", !.code = c]]
    /\ begun' = [begun EXCEPT !.pairings = @ + 1]
    /\ UNCHANGED <<device, pairing, tokens, scans, told, start, config, cache, clock>>

Paired(t) ==
    /\ task[t].pc = "pairing"
    /\ call[t].pc = "ok"
    /\ task' = [task EXCEPT ![t].pc = "open",
            ![t].file = [@ EXCEPT !.row = call[t].row, !.token = call[t].token]]
    /\ call' = [call EXCEPT ![t] = NoCall]
    /\ UNCHANGED <<device, pairing, tokens, scans, told, start, config, cache, window, clock, begun>>

\* clearPairing keeps the API address alone.
Clear(t) ==
    /\ Begin(t, [pc |-> "open", file |-> Unpaired, scan |-> None])
    /\ UNCHANGED <<device, pairing, tokens, scans, told, start, call, config, cache, clock, begun>>

\* runScan reads the configuration, then collects.
Scan(t) ==
    /\ begun.scans < ScanLimit
    /\ Begin(t, [pc |-> "collect", file |-> ReadConfig(Home[t]), scan |-> None])
    /\ begun' = [begun EXCEPT !.scans = @ + 1]
    /\ UNCHANGED <<device, pairing, tokens, scans, told, start, call, config, cache, clock>>

\* The collectors are done, and the cache file is truncated.
Collected(t) ==
    /\ task[t].pc = "collect"
    /\ \E f \in Contents :
        task' = [task EXCEPT ![t].pc = "keep", ![t].scan = [at |-> clock + 1, found |-> f]]
    /\ clock' = clock + 1
    /\ cache' = [cache EXCEPT ![Home[t]] = None]
    /\ UNCHANGED <<device, pairing, tokens, scans, told, start, call, config, window, begun>>

\* The cache is written; over the shorter or longer scan of another
\* operation that truncated it too, it may not parse.
Kept(t) ==
    /\ task[t].pc = "keep"
    /\ \/ cache' = [cache EXCEPT ![Home[t]] = task[t].scan]
       \/ cache[Home[t]] # None /\ cache' = [cache EXCEPT ![Home[t]] = None]
    /\ task' = [task EXCEPT ![t].pc = "open", ![t].scan = None]
    /\ UNCHANGED <<device, pairing, tokens, scans, told, start, call, config, window, clock, begun>>

\* syncLastScan reads the configuration, then the cache.
Sync(t) ==
    /\ begun.syncs < SyncLimit
    /\ Begin(t, [pc |-> "load", file |-> ReadConfig(Home[t]), scan |-> None])
    /\ begun' = [begun EXCEPT !.syncs = @ + 1]
    /\ UNCHANGED <<device, pairing, tokens, scans, told, start, call, config, cache, clock>>

\* Without a scan, or unpaired, it fails; else the scan is posted under the
\* pairing of the configuration.
Post(t) ==
    /\ task[t].pc = "load"
    /\ LET s == cache[Home[t]]
           f == task[t].file
       IN  \/ /\ s # None
              /\ f.token # 0
              /\ task' = [task EXCEPT ![t].pc = "syncing"]
              /\ call' = [call EXCEPT ![t] = [NoCall EXCEPT !.pc = "token", !.row = f.row,
                                                 !.token = f.token, !.scan = s]]
              /\ UNCHANGED window
           \/ /\ s = None \/ f.token = 0
              /\ Finish(t)
              /\ UNCHANGED call
    /\ UNCHANGED <<device, pairing, tokens, scans, told, start, config, cache, clock, begun>>

Synced(t) ==
    /\ task[t].pc = "syncing"
    /\ call[t].pc = "ok"
    /\ task' = [task EXCEPT ![t].pc = "open", ![t].file = [@ EXCEPT !.synced = call[t].id]]
    /\ call' = [call EXCEPT ![t] = NoCall]
    /\ UNCHANGED <<device, pairing, tokens, scans, told, start, config, cache, window, clock, begun>>

\* The answer is an error, or is lost: the operation throws and writes
\* nothing.
Refused(t) ==
    /\ task[t].pc \in {"pairing", "syncing"}
    /\ call[t].pc = "failed" \/ ("reply" \in Faults /\ call[t].pc = "ok")
    /\ call' = [call EXCEPT ![t] = NoCall]
    /\ Finish(t)
    /\ UNCHANGED <<device, pairing, tokens, scans, told, start, config, cache, clock, begun>>

-----------------------------------------------------------------------------
(* ConfigStore.write, the window and the application *)

\* writeFile opens the file and truncates it.
Truncate(t) ==
    /\ task[t].pc = "open"
    /\ config' = [config EXCEPT ![Home[t]] = Torn]
    /\ task' = [task EXCEPT ![t].pc = "fill"]
    /\ UNCHANGED <<device, pairing, tokens, scans, told, start, call, cache, window, clock, begun>>

\* The content follows; over what another operation has filled in since,
\* the file may not parse.
Fill(t) ==
    /\ task[t].pc = "fill"
    /\ \/ config' = [config EXCEPT ![Home[t]] = task[t].file]
       \/ config[Home[t]] # Torn /\ config' = [config EXCEPT ![Home[t]] = Torn]
    /\ Finish(t)
    /\ UNCHANGED <<device, pairing, tokens, scans, told, start, call, cache, clock, begun>>

\* The window is reloaded and forgets what it waits for.
Reload(m) ==
    /\ "reload" \in Faults
    /\ window[m] # None
    /\ window' = [window EXCEPT ![m] = None]
    /\ UNCHANGED <<device, pairing, tokens, scans, told, start, call, config, cache, task, clock, begun>>

\* The application is closed, at any point of its writes.
Quit(m) ==
    /\ "quit" \in Faults
    /\ \E t \in Slots : Home[t] = m /\ task[t].pc # "idle"
    /\ task' = [t \in Slots |-> IF Home[t] = m THEN NoTask ELSE task[t]]
    /\ window' = [window EXCEPT ![m] = None]
    /\ UNCHANGED <<device, pairing, tokens, scans, told, start, call, config, cache, clock, begun>>

\* Nobody is left to read the answer.
Abandoned(t) ==
    /\ task[t].pc = "idle"
    /\ call[t].pc \in {"ok", "failed"}
    /\ call' = [call EXCEPT ![t] = NoCall]
    /\ UNCHANGED <<device, pairing, tokens, scans, told, start, config, cache, window, task, clock, begun>>

AgentNext ==
    \/ \E t \in Slots :
        \/ Pair(t) \/ Paired(t) \/ Clear(t) \/ Scan(t) \/ Collected(t) \/ Kept(t)
        \/ Sync(t) \/ Post(t) \/ Synced(t) \/ Refused(t) \/ Truncate(t) \/ Fill(t)
        \/ Abandoned(t)
    \/ \E m \in Machines : Reload(m) \/ Quit(m)

Next ==
    \/ ServerNext /\ UNCHANGED agentVars
    \/ AgentNext

Spec == AgentInit /\ [][Next]_vars
-----------------------------------------------------------------------------
(* Properties *)

FileType == [row : Rows \cup {None}, token : Nat, synced : Nat]
ScanType == [at : Nat, found : Contents]
CallType == [pc : Serving \cup {"idle", "ok", "failed"}, code : Codes \cup {None},
             row : Rows \cup {None}, token : Nat, scan : ScanType \cup {None}, id : Nat]
TaskType == [pc : {"idle", "pairing", "open", "fill", "collect", "keep", "load", "syncing"},
             file : FileType, scan : ScanType \cup {None}]

DeviceType == [status : {"absent", "offline", "attention", "critical", "healthy"},
               print : Machines \cup {None}, summary : Nat]
PairingType == [code : Codes \cup {None}, age : {"fresh", "expired"}, token : Nat]
TokenType == [row : Rows, machine : Machines]
RowType == [device : Rows, scan : ScanType, parts : SUBSET Sections,
            advice : {"none", "open", "resolved"}, beside : {"none", "other"}]
StartType == [pc : {"idle", "code", "collided", "failed", "again"},
              row : Rows \cup {None}, tries : 0..Attempts]
BegunType == [pairings : 0..PairLimit, scans : 0..ScanLimit, syncs : 0..SyncLimit]

\* Every table, file and operation has a value the code can give it; a panel
\* makes no more attempts than MAX_PAIRING_ATTEMPTS.
TypeOK ==
    /\ device \in [Rows -> DeviceType]
    /\ pairing \in [Rows -> PairingType]
    /\ tokens \in Seq(TokenType)
    /\ scans \in Seq(RowType)
    /\ told \subseteq Codes
    /\ start \in [Panels -> StartType]
    /\ call \in [Slots -> CallType]
    /\ config \in [Machines -> FileType \cup {Torn}]
    /\ cache \in [Machines -> ScanType \cup {None}]
    /\ window \in [Machines -> Slots \cup {None}]
    /\ task \in [Slots -> TaskType]
    /\ clock \in Nat
    /\ begun \in BegunType

\* A sync the companion has recorded as accepted is in the database whole:
\* every section it found and, unless a later sync resolved it since, its
\* advice (ingestLiveDeviceSync answers only after its last statement).
RecordedSyncIsStored == \A m \in Machines :
    config[m] # Torn /\ config[m].synced # 0 =>
        LET s == scans[config[m].synced]
        IN  /\ s.parts = Filled(s.scan.found)
            /\ s.advice = "none" <=> Advised(s.scan.found) = {}

\* However the operations of a machine overwrite each other's copy of its
\* configuration, the device and the token in it belong together, were
\* answered to this machine, and name a device that is paired.
PairedAsAnswered == \A m \in Machines :
    config[m] # Torn /\ config[m].token # 0 =>
        /\ tokens[config[m].token] = [row |-> config[m].row, machine |-> m]
        /\ pairing[config[m].row].token # 0
        /\ device[config[m].row].print # None

\* Once the newest sync of a device, which ran beside no other, is recorded
\* by its machine, the pages agree about the device: its row and the open
\* recommendations are those of that sync.
OverviewAgrees == \A m \in Machines :
    config[m] # Torn =>
        LET r == config[m].row
            i == config[m].synced
        IN  r # None /\ i # 0 /\ Storing(r) = {} /\ ScansOf(r) # {}
            /\ (\A j \in ScansOf(r) : j <= i) /\ scans[i].beside = "none" =>
                /\ device[r].summary = i
                /\ getLiveRecommendations(r) =
                       IF Advised(scans[i].scan.found) = {} THEN {} ELSE {i}

\* A provisional device without a pairing belongs to a request that is still
\* at work on it: a code that collided and an insert that failed leave no
\* nameless offline device in the user's list.
NoStrayDevices == \A r \in Rows :
    device[r].status # "absent" /\ pairing[r].code = None =>
        \E p \in Panels : start[p].row = r

\* A pairing code pairs one machine once: completeLivePairing refuses a code
\* that was used already.
CodeWorksOnce == \A r \in Rows :
    Cardinality({k \in DOMAIN tokens : tokens[k].row = r}) <= 1
===============================================================================
