------------------------ MODULE WatchCompanion_proofs ------------------------
(***************************************************************************)
(* What the companion's configuration and the tables of the pipeline say   *)
(* of each other, for any number of machines, codes, scans and syncs, with *)
(* every fault of the model but a cleanup that fails.                      *)
(***************************************************************************)
EXTENDS WatchCompanion, TLAPS

Held == {"code", "collided", "failed"}
Keeping == {"items", "resolve", "advise", "summary", "touch"}
Syncing == {"token", "print", "scan"} \cup Keeping

\* A panel at work holds a device row of its own that has no pairing yet.
StartOK(s, dev, par) ==
    /\ s.pc \in Held =>
        /\ s.row \in Rows
        /\ dev[s.row].status # "absent"
        /\ par[s.row].code = None
    /\ s.pc \notin Held => s.row = None
    /\ s.pc = "idle" => s.tries = 0
    /\ s.pc = "again" => s.tries < Attempts
StartInv ==
    /\ \A p \in Panels : StartOK(start[p], device, pairing)
    /\ \A p, q \in Panels : start[p].row = start[q].row /\ start[p].row # None => p = q

RowInv == \A r \in Rows :
    /\ device[r].status = "absent" => pairing[r].code = None
    /\ pairing[r].token # 0 => pairing[r].code # None /\ device[r].print # None

\* Token k was answered to machine m for row r, and the row is paired.
Fits(m, r, k, par, tok) ==
    /\ r \in Rows
    /\ k \in DOMAIN tok
    /\ tok[k] = [row |-> r, machine |-> m]
    /\ par[r].token # 0

\* Scan row i has all its items and its recommendations.
Whole(i, sc) ==
    /\ i \in DOMAIN sc
    /\ sc[i].parts = Filled(sc[i].scan.found)
    /\ sc[i].advice = "none" <=> Advised(sc[i].scan.found) = {}

\* How far the scan row of a sync has come at each of its steps.
StageOK(c, sc) ==
    /\ c.id \in DOMAIN sc
    /\ sc[c.id].scan = c.scan
    /\ c.pc = "items" => /\ sc[c.id].parts # Filled(c.scan.found)
                         /\ sc[c.id].parts \subseteq Filled(c.scan.found)
    /\ c.pc # "items" => sc[c.id].parts = Filled(c.scan.found)
    /\ c.pc \in {"items", "resolve", "advise"} => sc[c.id].advice = "none"
    /\ c.pc = "advise" => Advised(c.scan.found) # {}
    /\ c.pc \in {"summary", "touch"} => Whole(c.id, sc)

CallOK(t, c, dev, par, tok, sc) ==
    /\ c.pc = "lookup" => c.code \in Codes
    /\ c.pc \in {"device", "pair"} => c.row \in Rows /\ par[c.row].code # None
    /\ c.pc = "pair" => dev[c.row].print # None
    /\ c.pc \in {"lookup", "device", "pair"} => c.id = 0
    /\ c.pc \in Syncing \cup {"ok"} => Fits(Home[t], c.row, c.token, par, tok)
    /\ c.pc \in Syncing => c.scan \in ScanType
    /\ c.pc \in Keeping => StageOK(c, sc)
    /\ c.pc = "ok" /\ c.id # 0 => Whole(c.id, sc)
CallInv ==
    /\ \A t \in Slots : CallOK(t, call[t], device, pairing, tokens, scans)
    /\ \A t, u \in Slots :
        call[t].pc \in Keeping /\ call[u].pc \in Keeping /\ call[t].id = call[u].id => t = u

FileOK(m, f, par, tok, sc) ==
    /\ f.token # 0 => Fits(m, f.row, f.token, par, tok)
    /\ f.synced # 0 => Whole(f.synced, sc)
FileInv ==
    /\ \A m \in Machines : config[m] # Torn => FileOK(m, config[m], pairing, tokens, scans)
    /\ \A t \in Slots : FileOK(Home[t], task[t].file, pairing, tokens, scans)

IInv == TypeOK /\ StartInv /\ RowInv /\ CallInv /\ FileInv

-----------------------------------------------------------------------------
(* What the tables may do to what was true of a call or a file *)

\* The pairings, tokens and fingerprints a call or a file relies on stay.
TablesKeep(dev, par, tok, dev2, par2, tok2) ==
    /\ \A r \in Rows : par[r].code # None => par2[r].code # None
    /\ \A r \in Rows : par[r].token # 0 => par2[r].token # 0
    /\ \A r \in Rows : par[r].code # None /\ dev[r].print # None => dev2[r].print # None
    /\ \A k \in DOMAIN tok : k \in DOMAIN tok2 /\ tok2[k] = tok[k]

ScansKeep(sc, sc2) == \A i \in DOMAIN sc : Whole(i, sc) => Whole(i, sc2)

\* The scan row of a call at work is touched by no step of another.
RowKept(c, sc, sc2) ==
    c.pc \in Keeping =>
        /\ c.id \in DOMAIN sc2
        /\ sc2[c.id].scan = sc[c.id].scan
        /\ sc2[c.id].parts = sc[c.id].parts
        /\ sc[c.id].advice = "none" <=> sc2[c.id].advice = "none"

LEMMA FitsKept ==
    ASSUME NEW m, NEW r, NEW k, NEW dev, NEW par, NEW tok, NEW dev2, NEW par2, NEW tok2,
           TablesKeep(dev, par, tok, dev2, par2, tok2), Fits(m, r, k, par, tok)
    PROVE  Fits(m, r, k, par2, tok2)
BY DEF Fits, TablesKeep

LEMMA FileKept ==
    ASSUME NEW m, NEW f, NEW dev, NEW par, NEW tok, NEW sc,
           NEW dev2, NEW par2, NEW tok2, NEW sc2,
           TablesKeep(dev, par, tok, dev2, par2, tok2), ScansKeep(sc, sc2),
           FileOK(m, f, par, tok, sc)
    PROVE  FileOK(m, f, par2, tok2, sc2)
<1>1. f.token # 0 => Fits(m, f.row, f.token, par2, tok2)
  BY FitsKept DEF FileOK
<1>2. f.synced # 0 => Whole(f.synced, sc2)
  BY DEF FileOK, ScansKeep, Whole
<1> QED BY <1>1, <1>2 DEF FileOK

LEMMA StageKept ==
    ASSUME NEW c, NEW sc, NEW sc2, c.pc \in Keeping, RowKept(c, sc, sc2),
           ScansKeep(sc, sc2), StageOK(c, sc)
    PROVE  StageOK(c, sc2)
BY DEF StageOK, RowKept, ScansKeep, Whole, Keeping

LEMMA CallKept ==
    ASSUME NEW t, NEW c, NEW dev, NEW par, NEW tok, NEW sc,
           NEW dev2, NEW par2, NEW tok2, NEW sc2,
           TablesKeep(dev, par, tok, dev2, par2, tok2), ScansKeep(sc, sc2),
           RowKept(c, sc, sc2), CallOK(t, c, dev, par, tok, sc)
    PROVE  CallOK(t, c, dev2, par2, tok2, sc2)
<1>1. c.pc \in Syncing \cup {"ok"} => Fits(Home[t], c.row, c.token, par2, tok2)
  BY FitsKept DEF CallOK
<1>2. c.pc \in Keeping => StageOK(c, sc2)
  BY StageKept DEF CallOK
<1>3. c.pc = "ok" /\ c.id # 0 => Whole(c.id, sc2)
  BY DEF CallOK, ScansKeep, Whole
<1>4. /\ c.pc \in {"device", "pair"} => c.row \in Rows /\ par2[c.row].code # None
      /\ c.pc = "pair" => dev2[c.row].print # None
  BY DEF CallOK, TablesKeep
<1>5. /\ c.pc \in Syncing => c.scan \in ScanType
      /\ c.pc = "lookup" => c.code \in Codes
      /\ c.pc \in {"lookup", "device", "pair"} => c.id = 0
  BY DEF CallOK
<1> QED BY <1>1, <1>2, <1>3, <1>4, <1>5 DEF CallOK

LEMMA TablesStay ==
    ASSUME NEW dev, NEW par, NEW tok
    PROVE  TablesKeep(dev, par, tok, dev, par, tok)
BY DEF TablesKeep

LEMMA RowStays == ASSUME NEW c, NEW sc, c.pc \in Keeping => c.id \in DOMAIN sc
                  PROVE  RowKept(c, sc, sc)
BY DEF RowKept

LEMMA ScansStay == ASSUME NEW sc PROVE ScansKeep(sc, sc)
BY DEF ScansKeep

-----------------------------------------------------------------------------
(* The three kinds of step *)

\* A call moves on and the tables stay.
LEMMA CallMoves ==
    ASSUME IInv, NEW t \in Slots, NEW c \in CallType,
           call' = [call EXCEPT ![t] = c],
           CallOK(t, c, device, pairing, tokens, scans),
           c.pc \in Keeping => call[t].pc \in Keeping /\ c.id = call[t].id,
           UNCHANGED <<device, pairing, tokens, scans>>
    PROVE  CallInv' /\ call' \in [Slots -> CallType]
<1>1. /\ call \in [Slots -> CallType]
      /\ call'[t] = c
      /\ \A u \in Slots : u # t => call'[u] = call[u]
  BY DEF IInv, TypeOK
<1>2. \A u \in Slots : CallOK(u, call'[u], device, pairing, tokens, scans)
  BY <1>1 DEF IInv, CallInv
<1>3. \A u, v \in Slots :
        call'[u].pc \in Keeping /\ call'[v].pc \in Keeping /\ call'[u].id = call'[v].id => u = v
  BY <1>1 DEF IInv, CallInv
<1>4. CallInv'
  BY <1>2, <1>3 DEF CallInv
<1> QED BY <1>4, <1>1

\* The tables change and every call but one stays.
LEMMA TablesMove ==
    ASSUME IInv, NEW t \in Slots, NEW c \in CallType,
           call' = [call EXCEPT ![t] = c],
           TablesKeep(device, pairing, tokens, device', pairing', tokens'),
           ScansKeep(scans, scans'),
           CallOK(t, c, device', pairing', tokens', scans'),
           \A u \in Slots \ {t} : RowKept(call[u], scans, scans'),
           c.pc \in Keeping => \A u \in Slots \ {t} : call[u].pc \in Keeping => call[u].id # c.id
    PROVE  CallInv' /\ call' \in [Slots -> CallType]
<1>1. /\ call \in [Slots -> CallType]
      /\ call'[t] = c
      /\ \A u \in Slots : u # t => call'[u] = call[u]
  BY DEF IInv, TypeOK
<1>2. \A u \in Slots : CallOK(u, call'[u], device', pairing', tokens', scans')
  BY <1>1, CallKept DEF IInv, CallInv
<1>3. \A u, v \in Slots :
        call'[u].pc \in Keeping /\ call'[v].pc \in Keeping /\ call'[u].id = call'[v].id => u = v
  BY <1>1 DEF IInv, CallInv
<1>4. CallInv'
  BY <1>2, <1>3 DEF CallInv
<1> QED BY <1>4, <1>1

LEMMA FilesStay ==
    ASSUME IInv, TablesKeep(device, pairing, tokens, device', pairing', tokens'),
           ScansKeep(scans, scans'), UNCHANGED <<config, task>>
    PROVE  FileInv'
<1>1. \A m \in Machines : config[m] # Torn => FileOK(m, config[m], pairing', tokens', scans')
  BY FileKept DEF IInv, FileInv
<1>2. \A t \in Slots : FileOK(Home[t], task[t].file, pairing', tokens', scans')
  BY FileKept DEF IInv, FileInv
<1> QED BY <1>1, <1>2 DEF FileInv

\* An operation of the companion goes on to k; the file it may write is one
\* it had.
LEMMA TaskMoves ==
    ASSUME IInv, NEW t \in Slots, NEW k \in TaskType,
           task' = [task EXCEPT ![t] = k],
           FileOK(Home[t], k.file, pairing, tokens, scans),
           \/ UNCHANGED config
           \/ config' = [config EXCEPT ![Home[t]] = Torn]
           \/ config' = [config EXCEPT ![Home[t]] = task[t].file],
           UNCHANGED <<pairing, tokens, scans>>
    PROVE  /\ FileInv'
           /\ task' \in [Slots -> TaskType]
           /\ config' \in [Machines -> FileType \cup {Torn}]
<1>1. /\ task \in [Slots -> TaskType]
      /\ task'[t] = k
      /\ \A u \in Slots : u # t => task'[u] = task[u]
      /\ config \in [Machines -> FileType \cup {Torn}]
      /\ task[t].file \in FileType
      /\ Home[t] \in Machines
  BY PipelineAssumption DEF IInv, TypeOK, TaskType
<1>2. \A u \in Slots : FileOK(Home[u], task'[u].file, pairing, tokens, scans)
  BY <1>1 DEF IInv, FileInv
<1>3. \A m \in Machines : \/ config'[m] = config[m]
                          \/ config'[m] = Torn
                          \/ m = Home[t] /\ config'[m] = task[t].file
  <2>1. CASE config' = config
    BY <2>1
  <2>2. CASE config' = [config EXCEPT ![Home[t]] = Torn]
    BY <1>1, <2>2
  <2>3. CASE config' = [config EXCEPT ![Home[t]] = task[t].file]
    BY <1>1, <2>3
  <2> QED BY <2>1, <2>2, <2>3
<1>4. \A m \in Machines : config'[m] # Torn => FileOK(m, config'[m], pairing, tokens, scans)
  BY <1>3 DEF IInv, FileInv
<1>5. FileInv'
  BY <1>2, <1>4 DEF FileInv
<1>6. task' \in [Slots -> TaskType]
  BY <1>1
<1>7. config' \in [Machines -> FileType \cup {Torn}]
  BY <1>1
<1> QED BY <1>5, <1>6, <1>7
-----------------------------------------------------------------------------
(* The server's steps *)

LEMMA CallOnly ==
    ASSUME IInv, NEW t \in Slots, NEW c \in CallType,
           call' = [call EXCEPT ![t] = c],
           CallOK(t, c, device, pairing, tokens, scans),
           c.pc \in Keeping => call[t].pc \in Keeping /\ c.id = call[t].id,
           UNCHANGED <<device, pairing, tokens, scans, told, start>>,
           UNCHANGED agentVars
    PROVE  IInv'
<1>1. CallInv' /\ call' \in [Slots -> CallType]
  BY CallMoves
<1>2. FileInv'
  BY FilesStay, TablesStay, ScansStay DEF agentVars
<1>3. StartInv' /\ RowInv'
  BY DEF IInv, StartInv, RowInv
<1>4. TypeOK'
  BY <1>1 DEF IInv, TypeOK, agentVars
<1> QED BY <1>1, <1>2, <1>3, <1>4 DEF IInv

LEMMA CompleteLookupKeeps ==
    ASSUME IInv, NEW t \in Slots, CompleteLookup(t), UNCHANGED agentVars PROVE IInv'
<1>1. call[t] \in CallType /\ call[t].code # None /\ call[t].id = 0
  BY PipelineAssumption DEF IInv, TypeOK, CallInv, CallOK, CompleteLookup
<1>2. ASSUME NEW r \in Rows, pairing[r].code = call[t].code,
             call' = [call EXCEPT ![t].pc = "device", ![t].row = r]
      PROVE  IInv'
  <2> DEFINE c == [call[t] EXCEPT !.pc = "device", !.row = r]
  <2>1. call' = [call EXCEPT ![t] = c] /\ c \in CallType
    BY <1>1, <1>2 DEF IInv, TypeOK, CallType, Serving
  <2>2. CallOK(t, c, device, pairing, tokens, scans) /\ c.pc \notin Keeping
    BY <1>1, <1>2 DEF CallOK, Keeping, Syncing, CallType
  <2> QED BY <2>1, <2>2, CallOnly DEF CompleteLookup
<1>3. ASSUME call' = [call EXCEPT ![t].pc = "failed"] PROVE IInv'
  <2> DEFINE c == [call[t] EXCEPT !.pc = "failed"]
  <2>1. call' = [call EXCEPT ![t] = c] /\ c \in CallType
    BY <1>1, <1>3 DEF IInv, TypeOK, CallType
  <2>2. CallOK(t, c, device, pairing, tokens, scans) /\ c.pc \notin Keeping
    BY <1>1 DEF CallOK, Keeping, Syncing, CallType
  <2> QED BY <2>1, <2>2, CallOnly DEF CompleteLookup
<1> QED BY <1>2, <1>3 DEF CompleteLookup

LEMMA SyncLookupKeeps ==
    ASSUME IInv, NEW t \in Slots, SyncLookup(t), UNCHANGED agentVars PROVE IInv'
<1>1. call[t] \in CallType
  BY DEF IInv, TypeOK
<1>2. CallOK(t, call[t], device, pairing, tokens, scans)
  BY DEF IInv, CallInv
<1>3. ASSUME call' = [call EXCEPT ![t].pc = "print"] PROVE IInv'
  <2> DEFINE c == [call[t] EXCEPT !.pc = "print"]
  <2>1. call' = [call EXCEPT ![t] = c] /\ c \in CallType
    BY <1>1, <1>3 DEF IInv, TypeOK, CallType, Serving
  <2>2. CallOK(t, c, device, pairing, tokens, scans)
    BY <1>1, <1>2 DEF CallOK, Fits, StageOK, Keeping, Syncing, CallType, SyncLookup
  <2>3. c.pc \in Keeping => call[t].pc \in Keeping /\ c.id = call[t].id
    BY <1>1 DEF Keeping, CallType, SyncLookup
  <2> QED BY <2>1, <2>2, <2>3, CallOnly DEF SyncLookup
<1>4. ASSUME call' = [call EXCEPT ![t].pc = "failed"] PROVE IInv'
  <2> DEFINE c == [call[t] EXCEPT !.pc = "failed"]
  <2>1. call' = [call EXCEPT ![t] = c] /\ c \in CallType
    BY <1>1, <1>4 DEF IInv, TypeOK, CallType, Serving
  <2>2. CallOK(t, c, device, pairing, tokens, scans)
    BY <1>1, <1>2 DEF CallOK, Fits, StageOK, Keeping, Syncing, CallType, SyncLookup
  <2>3. c.pc \in Keeping => call[t].pc \in Keeping /\ c.id = call[t].id
    BY <1>1 DEF Keeping, CallType, SyncLookup
  <2> QED BY <2>1, <2>2, <2>3, CallOnly DEF SyncLookup
<1> QED BY <1>3, <1>4 DEF SyncLookup

LEMMA SyncDeviceKeeps ==
    ASSUME IInv, NEW t \in Slots, SyncDevice(t), UNCHANGED agentVars PROVE IInv'
<1>1. call[t] \in CallType
  BY DEF IInv, TypeOK
<1>2. CallOK(t, call[t], device, pairing, tokens, scans)
  BY DEF IInv, CallInv
<1>3. ASSUME call' = [call EXCEPT ![t].pc = "scan"] PROVE IInv'
  <2> DEFINE c == [call[t] EXCEPT !.pc = "scan"]
  <2>1. call' = [call EXCEPT ![t] = c] /\ c \in CallType
    BY <1>1, <1>3 DEF IInv, TypeOK, CallType, Serving
  <2>2. CallOK(t, c, device, pairing, tokens, scans)
    BY <1>1, <1>2 DEF CallOK, Fits, StageOK, Keeping, Syncing, CallType, SyncDevice
  <2>3. c.pc \in Keeping => call[t].pc \in Keeping /\ c.id = call[t].id
    BY <1>1 DEF Keeping, CallType, SyncDevice
  <2> QED BY <2>1, <2>2, <2>3, CallOnly DEF SyncDevice
<1>4. ASSUME call' = [call EXCEPT ![t].pc = "failed"] PROVE IInv'
  <2> DEFINE c == [call[t] EXCEPT !.pc = "failed"]
  <2>1. call' = [call EXCEPT ![t] = c] /\ c \in CallType
    BY <1>1, <1>4 DEF IInv, TypeOK, CallType, Serving
  <2>2. CallOK(t, c, device, pairing, tokens, scans)
    BY <1>1, <1>2 DEF CallOK, Fits, StageOK, Keeping, Syncing, CallType, SyncDevice
  <2>3. c.pc \in Keeping => call[t].pc \in Keeping /\ c.id = call[t].id
    BY <1>1 DEF Keeping, CallType, SyncDevice
  <2> QED BY <2>1, <2>2, <2>3, CallOnly DEF SyncDevice
<1> QED BY <1>3, <1>4 DEF SyncDevice

LEMMA SyncTouchKeeps ==
    ASSUME IInv, NEW t \in Slots, SyncTouch(t), UNCHANGED agentVars PROVE IInv'
<1>1. call[t] \in CallType
  BY DEF IInv, TypeOK
<1>2. CallOK(t, call[t], device, pairing, tokens, scans)
  BY DEF IInv, CallInv
<1>3. ASSUME call' = [call EXCEPT ![t].pc = "ok"] PROVE IInv'
  <2> DEFINE c == [call[t] EXCEPT !.pc = "ok"]
  <2>1. call' = [call EXCEPT ![t] = c] /\ c \in CallType
    BY <1>1, <1>3 DEF IInv, TypeOK, CallType, Serving
  <2>2. CallOK(t, c, device, pairing, tokens, scans)
    BY <1>1, <1>2 DEF CallOK, Fits, StageOK, Keeping, Syncing, CallType, SyncTouch
  <2>3. c.pc \in Keeping => call[t].pc \in Keeping /\ c.id = call[t].id
    BY <1>1 DEF Keeping, CallType, SyncTouch
  <2> QED BY <2>1, <2>2, <2>3, CallOnly DEF SyncTouch
<1> QED BY <1>3 DEF SyncTouch

LEMMA CallFailsKeeps ==
    ASSUME IInv, NEW t \in Slots, CallFails(t), UNCHANGED agentVars PROVE IInv'
<1>1. call[t] \in CallType
  BY DEF IInv, TypeOK
<1>2. CallOK(t, call[t], device, pairing, tokens, scans)
  BY DEF IInv, CallInv
<1>3. ASSUME call' = [call EXCEPT ![t].pc = "failed"] PROVE IInv'
  <2> DEFINE c == [call[t] EXCEPT !.pc = "failed"]
  <2>1. call' = [call EXCEPT ![t] = c] /\ c \in CallType
    BY <1>1, <1>3 DEF IInv, TypeOK, CallType, Serving
  <2>2. CallOK(t, c, device, pairing, tokens, scans)
    BY <1>1, <1>2 DEF CallOK, Fits, StageOK, Keeping, Syncing, CallType, CallFails
  <2>3. c.pc \in Keeping => call[t].pc \in Keeping /\ c.id = call[t].id
    BY <1>1 DEF Keeping, CallType, CallFails
  <2> QED BY <2>1, <2>2, <2>3, CallOnly DEF CallFails
<1> QED BY <1>3 DEF CallFails

\* A call writes a table and moves on.
LEMMA TablesOnly ==
    ASSUME IInv, NEW t \in Slots, NEW c \in CallType,
           call' = [call EXCEPT ![t] = c],
           TablesKeep(device, pairing, tokens, device', pairing', tokens'),
           ScansKeep(scans, scans'),
           CallOK(t, c, device', pairing', tokens', scans'),
           \A u \in Slots \ {t} : RowKept(call[u], scans, scans'),
           c.pc \in Keeping => \A u \in Slots \ {t} : call[u].pc \in Keeping => call[u].id # c.id,
           device' \in [Rows -> DeviceType], pairing' \in [Rows -> PairingType],
           tokens' \in Seq(TokenType), scans' \in Seq(RowType),
           StartInv', RowInv',
           UNCHANGED <<told, start>>, UNCHANGED agentVars
    PROVE  IInv'
<1>1. CallInv' /\ call' \in [Slots -> CallType]
  BY TablesMove
<1>2. FileInv'
  BY FilesStay DEF agentVars
<1>3. TypeOK'
  BY <1>1 DEF IInv, TypeOK, agentVars
<1> QED BY <1>1, <1>2, <1>3 DEF IInv

LEMMA RowsStay ==
    ASSUME IInv, NEW t \in Slots
    PROVE  \A u \in Slots \ {t} : RowKept(call[u], scans, scans)
BY RowStays DEF IInv, CallInv, CallOK, StageOK

LEMMA CompleteDeviceKeeps ==
    ASSUME IInv, NEW t \in Slots, CompleteDevice(t), UNCHANGED agentVars PROVE IInv'
<1> DEFINE c == [call[t] EXCEPT !.pc = "pair"]
<1> DEFINE r == call[t].row
<1>1. /\ call[t] \in CallType
      /\ CallOK(t, call[t], device, pairing, tokens, scans)
      /\ r \in Rows
      /\ pairing[r].code # None
      /\ call[t].id = 0
  BY DEF IInv, TypeOK, CallInv, CallOK, CompleteDevice
<1>h. Home[t] \in Machines /\ Home[t] # None
  BY PipelineAssumption
<1>2. call' = [call EXCEPT ![t] = c] /\ c \in CallType
  BY <1>1 DEF CompleteDevice, IInv, TypeOK, CallType, Serving
<1>3. /\ device' \in [Rows -> DeviceType]
      /\ device'[r].status = "attention"
      /\ device'[r].print = Home[t]
      /\ \A q \in Rows : q # r => device'[q] = device[q]
  <2> DEFINE d == [device[r] EXCEPT !.status = "attention", !.print = Home[t]]
  <2>1. device[r] \in DeviceType /\ d \in DeviceType
    BY <1>1, <1>h DEF IInv, TypeOK, DeviceType
  <2>2. device' = [device EXCEPT ![r] = d]
    BY <1>1 DEF CompleteDevice, IInv, TypeOK
  <2> QED BY <1>1, <2>1, <2>2 DEF IInv, TypeOK, DeviceType
<1>4. TablesKeep(device, pairing, tokens, device', pairing, tokens)
  BY <1>1, <1>h, <1>3 DEF TablesKeep
<1>5. CallOK(t, c, device', pairing, tokens, scans) /\ c.pc \notin Keeping
  <2>1. c.pc = "pair" /\ c.row = r /\ c.id = 0
    BY <1>1 DEF CallType
  <2> QED BY <1>1, <1>h, <1>3, <2>1 DEF CallOK, Syncing, Keeping
<1>6. StartInv'
  BY <1>3 DEF IInv, StartInv, StartOK, CompleteDevice
<1>7. RowInv'
  BY <1>1, <1>h, <1>3 DEF IInv, RowInv, CompleteDevice
<1>8. UNCHANGED <<pairing, tokens, scans, told, start>>
  BY DEF CompleteDevice
<1> QED BY <1>2, <1>3, <1>4, <1>5, <1>6, <1>7, <1>8, ScansStay, RowsStay, TablesOnly DEF IInv, TypeOK

LEMMA CompletePairingKeeps ==
    ASSUME IInv, NEW t \in Slots, CompletePairing(t), UNCHANGED agentVars PROVE IInv'
<1> DEFINE n == Len(tokens) + 1
<1> DEFINE c == [call[t] EXCEPT !.pc = "ok", !.token = n]
<1> DEFINE r == call[t].row
<1>1. /\ call[t] \in CallType
      /\ CallOK(t, call[t], device, pairing, tokens, scans)
      /\ r \in Rows
      /\ pairing[r].code # None
      /\ device[r].print # None
      /\ Home[t] \in Machines
  BY PipelineAssumption DEF IInv, TypeOK, CallInv, CallOK, CompletePairing
<1>2. /\ tokens \in Seq(TokenType)
      /\ [row |-> r, machine |-> Home[t]] \in TokenType
      /\ tokens' = Append(tokens, [row |-> r, machine |-> Home[t]])
  BY <1>1 DEF IInv, TypeOK, TokenType, CompletePairing
<1>3. /\ tokens' \in Seq(TokenType)
      /\ Len(tokens') = n
      /\ n \in DOMAIN tokens'
      /\ tokens'[n] = [row |-> r, machine |-> Home[t]]
      /\ \A k \in DOMAIN tokens : k \in DOMAIN tokens' /\ tokens'[k] = tokens[k]
      /\ n \in Nat \ {0}
  BY <1>2
<1>4. call' = [call EXCEPT ![t] = c] /\ c \in CallType
  BY <1>1, <1>3 DEF CompletePairing, IInv, TypeOK, CallType
<1>5. /\ pairing' \in [Rows -> PairingType]
      /\ pairing'[r].token = n
      /\ pairing'[r].code = pairing[r].code
      /\ \A q \in Rows : q # r => pairing'[q] = pairing[q]
  <2> DEFINE d == [pairing[r] EXCEPT !.token = n]
  <2>0. pairing[r] \in PairingType /\ n \in Nat
    BY <1>1, <1>3 DEF IInv, TypeOK
  <2>1. d \in PairingType
    BY <2>0 DEF PairingType
  <2>2. pairing' = [pairing EXCEPT ![r] = d]
    BY <1>1, <1>3 DEF CompletePairing, IInv, TypeOK
  <2> QED BY <1>1, <2>0, <2>1, <2>2 DEF IInv, TypeOK, PairingType
<1>6. TablesKeep(device, pairing, tokens, device, pairing', tokens')
  BY <1>1, <1>3, <1>5 DEF TablesKeep
<1>7. CallOK(t, c, device, pairing', tokens', scans) /\ c.pc \notin Keeping
  <2>1. c.pc = "ok" /\ c.row = r /\ c.token = n /\ c.id = call[t].id
    BY <1>1 DEF CallType
  <2>2. Fits(Home[t], c.row, c.token, pairing', tokens')
    BY <1>1, <1>3, <1>5, <2>1 DEF Fits
  <2>3. c.id = 0
    BY <1>1, <2>1 DEF CallOK, CompletePairing
  <2> QED BY <2>1, <2>2, <2>3 DEF CallOK, Syncing, Keeping
<1>8. StartInv'
  BY <1>1, <1>5 DEF IInv, StartInv, StartOK, CompletePairing
<1>9. RowInv'
  BY <1>1, <1>5 DEF IInv, RowInv, CompletePairing
<1>10. UNCHANGED <<device, scans, told, start>>
  BY DEF CompletePairing
<1> QED BY <1>3, <1>4, <1>5, <1>6, <1>7, <1>8, <1>9, <1>10, ScansStay, RowsStay, TablesOnly DEF IInv, TypeOK

\* A call writes scan rows and moves on.
LEMMA ScansOnly ==
    ASSUME IInv, NEW t \in Slots, NEW c \in CallType,
           call' = [call EXCEPT ![t] = c],
           ScansKeep(scans, scans'),
           CallOK(t, c, device, pairing, tokens, scans'),
           \A u \in Slots \ {t} : RowKept(call[u], scans, scans'),
           c.pc \in Keeping => \A u \in Slots \ {t} : call[u].pc \in Keeping => call[u].id # c.id,
           scans' \in Seq(RowType),
           UNCHANGED <<device, pairing, tokens, told, start>>, UNCHANGED agentVars
    PROVE  IInv'
<1>1. StartInv' /\ RowInv'
  BY DEF IInv, StartInv, RowInv
<1>2. /\ device' \in [Rows -> DeviceType]
      /\ pairing' \in [Rows -> PairingType]
      /\ tokens' \in Seq(TokenType)
  BY DEF IInv, TypeOK
<1> QED BY <1>1, <1>2, TablesStay, TablesOnly

\* A scan row gets other items or recommendations.
LEMMA OneRow ==
    ASSUME IInv, NEW i \in DOMAIN scans, NEW x \in RowType,
           x.scan = scans[i].scan, ~Whole(i, scans),
           scans' = [scans EXCEPT ![i] = x]
    PROVE  /\ scans' \in Seq(RowType)
           /\ scans'[i] = x
           /\ DOMAIN scans' = DOMAIN scans
           /\ \A j \in DOMAIN scans : j # i => scans'[j] = scans[j]
           /\ ScansKeep(scans, scans')
<1>1. /\ scans \in Seq(RowType)
      /\ DOMAIN scans = 1..Len(scans)
  BY DEF IInv, TypeOK
<1>2. /\ scans' \in Seq(RowType)
      /\ scans'[i] = x
      /\ DOMAIN scans' = DOMAIN scans
      /\ \A j \in DOMAIN scans : j # i => scans'[j] = scans[j]
  BY <1>1
<1>3. ScansKeep(scans, scans')
  BY <1>2 DEF ScansKeep, Whole
<1> QED BY <1>2, <1>3

LEMMA SyncScanKeeps ==
    ASSUME IInv, NEW t \in Slots, SyncScan(t), UNCHANGED agentVars PROVE IInv'
<1> DEFINE n == Len(scans) + 1
<1> DEFINE found == call[t].scan.found
<1> DEFINE c == [call[t] EXCEPT !.id = n, !.pc = IF Filled(found) = {} THEN "resolve" ELSE "items"]
<1> DEFINE x == [device |-> call[t].row, scan |-> call[t].scan, parts |-> {}, advice |-> "none",
                 beside |-> IF Storing(call[t].row) = {} THEN "none" ELSE "other"]
<1>1. /\ call[t] \in CallType
      /\ CallOK(t, call[t], device, pairing, tokens, scans)
      /\ call[t].row \in Rows
      /\ call[t].scan \in ScanType
      /\ Fits(Home[t], call[t].row, call[t].token, pairing, tokens)
  BY DEF IInv, TypeOK, CallInv, CallOK, SyncScan, Syncing, Fits
<1>2. scans \in Seq(RowType) /\ x \in RowType /\ scans' = Append(scans, x)
  BY <1>1 DEF IInv, TypeOK, RowType, SyncScan
<1>3. /\ scans' \in Seq(RowType)
      /\ Len(scans') = n
      /\ n \in DOMAIN scans' /\ n \in Nat /\ n \notin DOMAIN scans
      /\ scans'[n] = x
      /\ \A k \in DOMAIN scans : k \in DOMAIN scans' /\ scans'[k] = scans[k]
  BY <1>2
<1>s. scans'[n].scan = call[t].scan /\ scans'[n].parts = {} /\ scans'[n].advice = "none"
  BY <1>3
<1>4. call' = [call EXCEPT ![t] = c]
  BY <1>3 DEF SyncScan, IInv, TypeOK
<1>5. /\ c \in CallType
      /\ c.row = call[t].row /\ c.token = call[t].token /\ c.scan = call[t].scan
      /\ c.id = n
      /\ c.pc = IF Filled(found) = {} THEN "resolve" ELSE "items"
  BY <1>1, <1>3 DEF CallType, Serving
<1>6. ScansKeep(scans, scans')
  BY <1>3 DEF ScansKeep, Whole
<1>7. \A u \in Slots \ {t} : RowKept(call[u], scans, scans')
  BY <1>3 DEF IInv, CallInv, CallOK, StageOK, RowKept
<1> HIDE DEF c, x, n
<1>8. StageOK(c, scans')
  <2>1. CASE Filled(found) = {}
    BY <1>3, <1>5, <1>s, <2>1 DEF StageOK
  <2>2. CASE Filled(found) # {}
    BY <1>3, <1>5, <1>s, <2>2 DEF StageOK
  <2> QED BY <2>1, <2>2
<1>9. CallOK(t, c, device, pairing, tokens, scans')
  BY <1>1, <1>5, <1>8 DEF CallOK
<1>10. \A u \in Slots \ {t} : call[u].pc \in Keeping => call[u].id # c.id
  BY <1>3, <1>5 DEF IInv, CallInv, CallOK, StageOK
<1>11. UNCHANGED <<device, pairing, tokens, told, start>>
  BY DEF SyncScan
<1> QED BY <1>3, <1>4, <1>5, <1>6, <1>7, <1>9, <1>10, <1>11, ScansOnly

LEMMA SyncItemsKeeps ==
    ASSUME IInv, NEW t \in Slots, SyncItems(t), UNCHANGED agentVars PROVE IInv'
<1> DEFINE i == call[t].id
<1> DEFINE todo == Filled(call[t].scan.found) \ scans[i].parts
<1>1. PICK s \in todo :
        /\ scans' = [scans EXCEPT ![i].parts = @ \cup {s}]
        /\ call' = [call EXCEPT ![t].pc = IF todo = {s} THEN "resolve" ELSE "items"]
  BY DEF SyncItems
<1> DEFINE c == [call[t] EXCEPT !.pc = IF todo = {s} THEN "resolve" ELSE "items"]
<1> DEFINE x == [scans[i] EXCEPT !.parts = @ \cup {s}]
<1>2. /\ call[t] \in CallType
      /\ call[t].pc = "items"
      /\ CallOK(t, call[t], device, pairing, tokens, scans)
      /\ StageOK(call[t], scans)
  BY DEF IInv, TypeOK, CallInv, CallOK, SyncItems, Keeping
<1>3. /\ i \in DOMAIN scans
      /\ scans[i] \in RowType
      /\ scans[i].scan = call[t].scan
      /\ ~Whole(i, scans)
  BY <1>2 DEF StageOK, IInv, TypeOK, Whole
<1>4. x \in RowType /\ x.scan = scans[i].scan /\ x.parts = scans[i].parts \cup {s} /\ x.advice = scans[i].advice
  BY <1>1, <1>3 DEF RowType, Filled
<1>5. scans' = [scans EXCEPT ![i] = x]
  BY <1>1, <1>3 DEF IInv, TypeOK
<1>6. /\ scans' \in Seq(RowType)
      /\ scans'[i] = x
      /\ DOMAIN scans' = DOMAIN scans
      /\ \A j \in DOMAIN scans : j # i => scans'[j] = scans[j]
      /\ ScansKeep(scans, scans')
  BY <1>3, <1>4, <1>5, OneRow
<1>7. call' = [call EXCEPT ![t] = c]
  BY <1>1 DEF IInv, TypeOK
<1>8. /\ c \in CallType
      /\ c.row = call[t].row /\ c.token = call[t].token /\ c.scan = call[t].scan /\ c.id = i
      /\ c.pc = IF todo = {s} THEN "resolve" ELSE "items"
  BY <1>2 DEF CallType, Serving
<1>9. \A u \in Slots \ {t} : call[u].pc \in Keeping => call[u].id # i
  BY <1>2 DEF IInv, CallInv, Keeping
<1>10. \A u \in Slots \ {t} : RowKept(call[u], scans, scans')
  BY <1>6, <1>9 DEF IInv, CallInv, CallOK, StageOK, RowKept
<1>11. StageOK(c, scans')
  <2> DEFINE filled == Filled(call[t].scan.found)
  <2>1. /\ scans[i].parts \subseteq filled
        /\ scans[i].advice = "none"
    BY <1>2 DEF StageOK
  <2>2. /\ x.parts \subseteq filled
        /\ todo = {s} => x.parts = filled
        /\ todo # {s} => x.parts # filled
    BY <1>1, <1>4, <2>1
  <2>3. scans'[i].scan = c.scan /\ scans'[i].parts = x.parts /\ scans'[i].advice = "none"
    BY <1>3, <1>4, <1>6, <1>8, <2>1
  <2> HIDE DEF c, x, i
  <2> QED BY <1>3, <1>6, <1>8, <2>2, <2>3 DEF StageOK
<1>12. CallOK(t, c, device, pairing, tokens, scans')
  BY <1>2, <1>8, <1>11 DEF CallOK, Syncing, Keeping
<1>13. UNCHANGED <<device, pairing, tokens, told, start>>
  BY DEF SyncItems
<1>14. \A u \in Slots \ {t} : call[u].pc \in Keeping => call[u].id # c.id
  BY <1>8, <1>9
<1> HIDE DEF c, x, i
<1> QED BY <1>6, <1>7, <1>8, <1>10, <1>12, <1>13, <1>14, ScansOnly

LEMMA SyncAdviseKeeps ==
    ASSUME IInv, NEW t \in Slots, SyncAdvise(t), UNCHANGED agentVars PROVE IInv'
<1> DEFINE i == call[t].id
<1> DEFINE c == [call[t] EXCEPT !.pc = "summary"]
<1> DEFINE x == [scans[i] EXCEPT !.advice = "open"]
<1>2. /\ call[t] \in CallType
      /\ call[t].pc = "advise"
      /\ CallOK(t, call[t], device, pairing, tokens, scans)
      /\ StageOK(call[t], scans)
  BY DEF IInv, TypeOK, CallInv, CallOK, SyncAdvise, Keeping
<1>3. /\ i \in DOMAIN scans
      /\ scans[i] \in RowType
      /\ scans[i].scan = call[t].scan
      /\ ~Whole(i, scans)
  BY <1>2 DEF StageOK, IInv, TypeOK, Whole
<1>4. x \in RowType /\ x.scan = scans[i].scan /\ x.parts = scans[i].parts /\ x.advice = "open"
  BY <1>3 DEF RowType
<1>5. scans' = [scans EXCEPT ![i] = x]
  BY <1>3 DEF IInv, TypeOK, SyncAdvise
<1>6. /\ scans' \in Seq(RowType)
      /\ scans'[i] = x
      /\ DOMAIN scans' = DOMAIN scans
      /\ \A j \in DOMAIN scans : j # i => scans'[j] = scans[j]
      /\ ScansKeep(scans, scans')
  BY <1>3, <1>4, <1>5, OneRow
<1>7. call' = [call EXCEPT ![t] = c]
  BY DEF IInv, TypeOK, SyncAdvise
<1>8. /\ c \in CallType
      /\ c.row = call[t].row /\ c.token = call[t].token /\ c.scan = call[t].scan /\ c.id = i
      /\ c.pc = "summary"
  BY <1>2 DEF CallType, Serving
<1>9. \A u \in Slots \ {t} : call[u].pc \in Keeping => call[u].id # i
  BY <1>2 DEF IInv, CallInv, Keeping
<1>10. \A u \in Slots \ {t} : RowKept(call[u], scans, scans')
  BY <1>6, <1>9 DEF IInv, CallInv, CallOK, StageOK, RowKept
<1>11. StageOK(c, scans')
  BY <1>2, <1>3, <1>4, <1>6, <1>8 DEF StageOK, Whole
<1>12. CallOK(t, c, device, pairing, tokens, scans')
  BY <1>2, <1>8, <1>11 DEF CallOK, Syncing, Keeping
<1>13. UNCHANGED <<device, pairing, tokens, told, start>>
  BY DEF SyncAdvise
<1>14. \A u \in Slots \ {t} : call[u].pc \in Keeping => call[u].id # c.id
  BY <1>8, <1>9
<1> HIDE DEF c, x, i
<1> QED BY <1>6, <1>7, <1>8, <1>10, <1>12, <1>13, <1>14, ScansOnly

LEMMA SyncResolveKeeps ==
    ASSUME IInv, NEW t \in Slots, SyncResolve(t), UNCHANGED agentVars PROVE IInv'
<1> DEFINE i == call[t].id
<1> DEFINE found == call[t].scan.found
<1> DEFINE c == [call[t] EXCEPT !.pc = IF Advised(found) = {} THEN "summary" ELSE "advise"]
<1>1. /\ call[t] \in CallType
      /\ call[t].pc = "resolve"
      /\ CallOK(t, call[t], device, pairing, tokens, scans)
      /\ StageOK(call[t], scans)
  BY DEF IInv, TypeOK, CallInv, CallOK, SyncResolve, Keeping
<1>2. /\ scans \in Seq(RowType)
      /\ DOMAIN scans = 1..Len(scans)
      /\ \A j \in DOMAIN scans : scans[j] \in RowType
  BY DEF IInv, TypeOK
<1>3. /\ DOMAIN scans' = DOMAIN scans
      /\ \A j \in DOMAIN scans : \/ scans'[j] = scans[j]
                                 \/ /\ scans[j].advice = "open"
                                    /\ scans'[j] = [scans[j] EXCEPT !.advice = "resolved"]
  BY DEF SyncResolve
<1>4. \A j \in DOMAIN scans :
        /\ scans'[j] \in RowType
        /\ scans'[j].scan = scans[j].scan
        /\ scans'[j].parts = scans[j].parts
        /\ scans'[j].advice = "none" <=> scans[j].advice = "none"
  BY <1>2, <1>3 DEF RowType
<1>5. scans' \in Seq(RowType)
  <2>1. scans' = [j \in 1..Len(scans) |-> scans'[j]]
    BY <1>2 DEF SyncResolve
  <2> QED BY <1>2, <1>4, <2>1
<1>6. ScansKeep(scans, scans')
  BY <1>3, <1>4 DEF ScansKeep, Whole
<1>7. \A u \in Slots \ {t} : RowKept(call[u], scans, scans')
  BY <1>3, <1>4 DEF IInv, CallInv, CallOK, StageOK, RowKept
<1>8. call' = [call EXCEPT ![t] = c]
  BY DEF IInv, TypeOK, SyncResolve
<1>9. /\ c \in CallType
      /\ c.row = call[t].row /\ c.token = call[t].token /\ c.scan = call[t].scan /\ c.id = i
      /\ c.pc = IF Advised(found) = {} THEN "summary" ELSE "advise"
  BY <1>1 DEF CallType, Serving
<1>10. StageOK(c, scans')
  BY <1>1, <1>3, <1>4, <1>9 DEF StageOK, Whole
<1>11. CallOK(t, c, device, pairing, tokens, scans')
  BY <1>1, <1>9, <1>10 DEF CallOK, Syncing, Keeping
<1>12. \A u \in Slots \ {t} : call[u].pc \in Keeping => call[u].id # i
  BY <1>1 DEF IInv, CallInv, Keeping
<1>13. UNCHANGED <<device, pairing, tokens, told, start>>
  BY DEF SyncResolve
<1> QED BY <1>5, <1>6, <1>7, <1>8, <1>9, <1>11, <1>12, <1>13, ScansOnly

LEMMA SyncSummaryKeeps ==
    ASSUME IInv, NEW t \in Slots, SyncSummary(t), UNCHANGED agentVars PROVE IInv'
<1> DEFINE c == [call[t] EXCEPT !.pc = "touch"]
<1> DEFINE r == call[t].row
<1> DEFINE d == [status |-> deriveDeviceStatus(call[t].scan.found), print |-> Home[t],
                 summary |-> call[t].id]
<1>1. /\ call[t] \in CallType
      /\ call[t].pc = "summary"
      /\ CallOK(t, call[t], device, pairing, tokens, scans)
      /\ StageOK(call[t], scans)
      /\ Fits(Home[t], r, call[t].token, pairing, tokens)
      /\ r \in Rows
  BY DEF IInv, TypeOK, CallInv, CallOK, SyncSummary, Keeping, Syncing, Fits
<1>2. Home[t] \in Machines /\ Home[t] # None
  BY PipelineAssumption
<1>3. /\ d \in DeviceType
      /\ d.status # "absent" /\ d.print = Home[t]
  BY <1>1, <1>2 DEF DeviceType, CallType, deriveDeviceStatus
<1>4. device' = [device EXCEPT ![r] = d]
  BY DEF SyncSummary
<1>5. /\ device' \in [Rows -> DeviceType]
      /\ device'[r] = d
      /\ \A q \in Rows : q # r => device'[q] = device[q]
  BY <1>1, <1>3, <1>4 DEF IInv, TypeOK
<1>6. call' = [call EXCEPT ![t] = c]
  BY DEF IInv, TypeOK, SyncSummary
<1>7. /\ c \in CallType
      /\ c.row = r /\ c.token = call[t].token /\ c.scan = call[t].scan /\ c.id = call[t].id
      /\ c.pc = "touch"
  BY <1>1 DEF CallType, Serving
<1>8. TablesKeep(device, pairing, tokens, device', pairing, tokens)
  BY <1>2, <1>3, <1>5 DEF TablesKeep
<1>9. StageOK(c, scans)
  BY <1>1, <1>7 DEF StageOK
<1>10. CallOK(t, c, device', pairing, tokens, scans)
  BY <1>1, <1>7, <1>9 DEF CallOK, Syncing, Keeping
<1>11. \A u \in Slots \ {t} : call[u].pc \in Keeping => call[u].id # c.id
  BY <1>1, <1>7 DEF IInv, CallInv, Keeping
<1>12. StartInv'
  BY <1>3, <1>5 DEF IInv, StartInv, StartOK, SyncSummary
<1>13. RowInv'
  BY <1>2, <1>3, <1>5 DEF IInv, RowInv, SyncSummary
<1>14. UNCHANGED <<pairing, tokens, scans, told, start>>
  BY DEF SyncSummary
<1> QED BY <1>5, <1>6, <1>7, <1>8, <1>10, <1>11, <1>12, <1>13, <1>14, ScansStay, RowsStay, TablesOnly DEF IInv, TypeOK

-----------------------------------------------------------------------------
(* The panels' steps and the passing of time *)

LEMMA PanelOnly ==
    ASSUME IInv,
           TablesKeep(device, pairing, tokens, device', pairing', tokens),
           device' \in [Rows -> DeviceType], pairing' \in [Rows -> PairingType],
           start' \in [Panels -> StartType], told' \subseteq Codes,
           StartInv', RowInv',
           UNCHANGED <<tokens, scans, call>>, UNCHANGED agentVars
    PROVE  IInv'
<1>1. FileInv'
  BY FilesStay, ScansStay DEF agentVars
<1>2. \A t \in Slots : RowKept(call[t], scans, scans)
  BY RowStays DEF IInv, CallInv, CallOK, StageOK
<1>3. \A t \in Slots : CallOK(t, call[t], device', pairing', tokens, scans)
  BY <1>2, CallKept, ScansStay DEF IInv, CallInv
<1>4. CallInv'
  BY <1>3 DEF IInv, CallInv
<1>5. TypeOK'
  BY DEF IInv, TypeOK, agentVars
<1> QED BY <1>1, <1>4, <1>5 DEF IInv

LEMMA StartDeviceKeeps ==
    ASSUME IInv, NEW p \in Panels, StartDevice(p), UNCHANGED agentVars PROVE IInv'
<1>1. PICK r \in Rows :
        /\ device[r].status = "absent"
        /\ device' = [device EXCEPT ![r].status = "offline"]
        /\ start' = [start EXCEPT ![p] = [pc |-> "code", row |-> r, tries |-> @.tries + 1]]
  BY DEF StartDevice
<1> DEFINE s == [pc |-> "code", row |-> r, tries |-> start[p].tries + 1]
<1> DEFINE d == [device[r] EXCEPT !.status = "offline"]
<1>2. /\ device[r] \in DeviceType /\ start[p] \in StartType
      /\ StartOK(start[p], device, pairing)
      /\ pairing[r].code = None
  BY <1>1 DEF IInv, TypeOK, StartInv, RowInv
<1>3. s \in StartType
  BY <1>2, PipelineAssumption DEF StartType, StartDevice, StartOK
<1>4. /\ start' \in [Panels -> StartType]
      /\ start'[p] = s
      /\ \A q \in Panels : q # p => start'[q] = start[q]
  BY <1>1, <1>3 DEF IInv, TypeOK
<1>5. d \in DeviceType /\ d.status = "offline" /\ d.print = device[r].print
  BY <1>2 DEF DeviceType
<1>6. device' = [device EXCEPT ![r] = d]
  BY <1>1 DEF IInv, TypeOK
<1>7. /\ device' \in [Rows -> DeviceType]
      /\ device'[r] = d
      /\ \A q \in Rows : q # r => device'[q] = device[q]
  BY <1>5, <1>6 DEF IInv, TypeOK
<1>8. TablesKeep(device, pairing, tokens, device', pairing, tokens)
  BY <1>5, <1>7 DEF TablesKeep
<1>9. UNCHANGED <<pairing, tokens, scans, told, call>>
  BY DEF StartDevice
<1>10. \A q \in Panels : q # p => start[q].row # r
  BY <1>1, PipelineAssumption DEF IInv, StartInv, StartOK
<1>11. \A q \in Panels : StartOK(start'[q], device', pairing)
  <2>1. StartOK(s, device', pairing)
    BY <1>2, <1>5, <1>7 DEF StartOK, Held
  <2>2. \A q \in Panels : q # p => StartOK(start[q], device', pairing)
    BY <1>10, <1>7 DEF IInv, StartInv, StartOK
  <2> QED BY <1>4, <2>1, <2>2
<1>12. \A q, u \in Panels : start'[q].row = start'[u].row /\ start'[q].row # None => q = u
  <2>1. s.row = r
    OBVIOUS
  <2> HIDE DEF s
  <2> QED BY <1>4, <1>10, <2>1 DEF IInv, StartInv
<1>13. StartInv'
  BY <1>9, <1>11, <1>12 DEF StartInv
<1>14. RowInv'
  BY <1>2, <1>5, <1>7, <1>9 DEF IInv, RowInv
<1> QED BY <1>4, <1>7, <1>8, <1>9, <1>13, <1>14, PanelOnly DEF IInv, TypeOK

LEMMA StartCodeKeeps ==
    ASSUME IInv, NEW p \in Panels, StartCode(p), UNCHANGED agentVars PROVE IInv'
<1>1. PICK c \in Codes \ CodesTaken :
        /\ pairing' = [pairing EXCEPT ![start[p].row].code = c]
        /\ told' \in {told, told \cup {c}}
  BY DEF StartCode
<1> DEFINE r == start[p].row
<1> DEFINE d == [pairing[r] EXCEPT !.code = c]
<1>2. /\ start[p] \in StartType
      /\ StartOK(start[p], device, pairing)
      /\ r \in Rows /\ r # None
      /\ device[r].status # "absent"
      /\ pairing[r].code = None
      /\ pairing[r] \in PairingType
      /\ c # None
  BY PipelineAssumption DEF IInv, TypeOK, StartInv, StartOK, StartCode, Held
<1>3. d \in PairingType /\ d.code = c /\ d.token = pairing[r].token
  BY <1>2 DEF PairingType
<1>4. pairing' = [pairing EXCEPT ![r] = d]
  BY <1>1 DEF IInv, TypeOK
<1>5. /\ pairing' \in [Rows -> PairingType]
      /\ pairing'[r] = d
      /\ \A q \in Rows : q # r => pairing'[q] = pairing[q]
  BY <1>2, <1>3, <1>4 DEF IInv, TypeOK
<1>6. TablesKeep(device, pairing, tokens, device, pairing', tokens)
  BY <1>2, <1>3, <1>5 DEF TablesKeep
<1>7. UNCHANGED <<device, tokens, scans, call>> /\ start' = [start EXCEPT ![p] = NoStart]
  BY DEF StartCode
<1>8. /\ start' \in [Panels -> StartType]
      /\ start'[p] = NoStart
      /\ \A q \in Panels : q # p => start'[q] = start[q]
  BY <1>7, PipelineAssumption DEF IInv, TypeOK, StartType, NoStart
<1>9. \A q \in Panels : q # p => start[q].row # r
  BY <1>2 DEF IInv, StartInv
<1>10. StartInv'
  <2>1. StartOK(NoStart, device, pairing')
    BY DEF StartOK, NoStart, Held
  <2>2. \A q \in Panels : q # p => StartOK(start[q], device, pairing')
    BY <1>5, <1>9 DEF IInv, StartInv, StartOK
  <2>3. \A q, u \in Panels : start'[q].row = start'[u].row /\ start'[q].row # None => q = u
    BY <1>8 DEF IInv, StartInv, NoStart
  <2> QED BY <1>7, <1>8, <2>1, <2>2, <2>3 DEF StartInv
<1>11. RowInv'
  BY <1>2, <1>3, <1>5, <1>7 DEF IInv, RowInv
<1>12. told' \subseteq Codes
  BY <1>1 DEF IInv, TypeOK
<1> QED BY <1>5, <1>6, <1>7, <1>8, <1>10, <1>11, <1>12, PanelOnly DEF IInv, TypeOK

LEMMA StartCleanupKeeps ==
    ASSUME IInv, NEW p \in Panels, StartCleanup(p), UNCHANGED agentVars PROVE IInv'
<1> DEFINE r == start[p].row
<1> DEFINE s == IF start[p].pc = "collided" /\ start[p].tries < Attempts
                THEN [pc |-> "again", row |-> None, tries |-> start[p].tries] ELSE NoStart
<1>1. /\ start[p] \in StartType
      /\ StartOK(start[p], device, pairing)
      /\ r \in Rows /\ r # None
      /\ pairing[r].code = None
      /\ pairing[r].token = 0
  BY PipelineAssumption DEF IInv, TypeOK, StartInv, StartOK, RowInv, StartCleanup, Held
<1>2. s \in StartType /\ s.row = None /\ s.pc \notin Held
      /\ (s.pc = "idle" => s.tries = 0) /\ (s.pc = "again" => s.tries < Attempts)
  BY <1>1, PipelineAssumption DEF StartType, NoStart, Held
<1>3. start' = [start EXCEPT ![p] = s]
  BY DEF StartCleanup
<1> HIDE DEF s
<1>4. /\ start' \in [Panels -> StartType]
      /\ start'[p] = s
      /\ \A q \in Panels : q # p => start'[q] = start[q]
  BY <1>2, <1>3 DEF IInv, TypeOK
<1>5. NoDevice \in DeviceType
  BY DEF NoDevice, DeviceType
<1>6. /\ device' \in [Rows -> DeviceType]
      /\ \A q \in Rows : q # r => device'[q] = device[q]
  BY <1>1, <1>5 DEF IInv, TypeOK, StartCleanup
<1>7. TablesKeep(device, pairing, tokens, device', pairing, tokens)
  BY <1>1, <1>6 DEF TablesKeep
<1>8. UNCHANGED <<pairing, tokens, scans, told, call>>
  BY DEF StartCleanup
<1>9. \A q \in Panels : q # p => start[q].row # r
  BY <1>1 DEF IInv, StartInv
<1>10. StartInv'
  <2>1. StartOK(s, device', pairing)
    BY <1>2 DEF StartOK
  <2>2. \A q \in Panels : q # p => StartOK(start[q], device', pairing)
    BY <1>6, <1>9 DEF IInv, StartInv, StartOK
  <2>3. \A q, u \in Panels : start'[q].row = start'[u].row /\ start'[q].row # None => q = u
    BY <1>2, <1>4 DEF IInv, StartInv
  <2> QED BY <1>4, <1>8, <2>1, <2>2, <2>3 DEF StartInv
<1>11. RowInv'
  BY <1>1, <1>6, <1>8 DEF IInv, RowInv
<1> QED BY <1>4, <1>6, <1>7, <1>8, <1>10, <1>11, PanelOnly DEF IInv, TypeOK

LEMMA StartRefusedKeeps ==
    ASSUME IInv, NEW p \in Panels, StartRefused(p), UNCHANGED agentVars PROVE IInv'
<1>1. PICK x \in {"collided", "failed"} : start' = [start EXCEPT ![p].pc = x]
  BY DEF StartRefused
<1> DEFINE s == [start[p] EXCEPT !.pc = x]
<1>2. /\ start[p] \in StartType
      /\ start[p].pc = "code"
      /\ StartOK(start[p], device, pairing)
  BY DEF IInv, TypeOK, StartInv, StartRefused
<1>3. s \in StartType /\ s.row = start[p].row /\ s.pc = x /\ s.tries = start[p].tries
  BY <1>1, <1>2 DEF StartType
<1>4. start' = [start EXCEPT ![p] = s]
  BY <1>1 DEF IInv, TypeOK
<1> HIDE DEF s
<1>5. /\ start' \in [Panels -> StartType]
      /\ start'[p] = s
      /\ \A q \in Panels : q # p => start'[q] = start[q]
  BY <1>3, <1>4 DEF IInv, TypeOK
<1>6. UNCHANGED <<device, pairing, tokens, scans, told, call>>
  BY DEF StartRefused
<1>7. StartInv'
  <2>1. StartOK(s, device, pairing)
    BY <1>1, <1>2, <1>3 DEF StartOK, Held
  <2>2. \A q, u \in Panels : start'[q].row = start'[u].row /\ start'[q].row # None => q = u
    BY <1>3, <1>5 DEF IInv, StartInv
  <2> QED BY <1>5, <1>6, <2>1, <2>2 DEF IInv, StartInv
<1>8. RowInv'
  BY <1>6 DEF IInv, RowInv
<1> QED BY <1>5, <1>6, <1>7, <1>8, TablesStay, PanelOnly DEF IInv, TypeOK

LEMMA StartFailsKeeps ==
    ASSUME IInv, NEW p \in Panels, StartFails(p), UNCHANGED agentVars PROVE IInv'
<1>1. start' = [start EXCEPT ![p] = NoStart] /\ UNCHANGED <<device, pairing, tokens, scans, told, call>>
  BY DEF StartFails
<1>2. /\ start' \in [Panels -> StartType]
      /\ start'[p] = NoStart
      /\ \A q \in Panels : q # p => start'[q] = start[q]
  BY <1>1, PipelineAssumption DEF IInv, TypeOK, StartType, NoStart
<1>3. StartInv'
  <2>1. StartOK(NoStart, device, pairing)
    BY DEF StartOK, NoStart, Held
  <2>2. \A q, u \in Panels : start'[q].row = start'[u].row /\ start'[q].row # None => q = u
    BY <1>2 DEF IInv, StartInv, NoStart
  <2> QED BY <1>1, <1>2, <2>1, <2>2 DEF IInv, StartInv
<1>4. RowInv'
  BY <1>1 DEF IInv, RowInv
<1> QED BY <1>1, <1>2, <1>3, <1>4, TablesStay, PanelOnly DEF IInv, TypeOK

LEMMA ExpireKeeps ==
    ASSUME IInv, NEW r \in Rows, Expire(r), UNCHANGED agentVars PROVE IInv'
<1> DEFINE d == [pairing[r] EXCEPT !.age = "expired"]
<1>1. pairing[r] \in PairingType
  BY DEF IInv, TypeOK
<1>2. d \in PairingType /\ d.code = pairing[r].code /\ d.token = pairing[r].token
  BY <1>1 DEF PairingType
<1>3. pairing' = [pairing EXCEPT ![r] = d]
  BY DEF IInv, TypeOK, Expire
<1>4. /\ pairing' \in [Rows -> PairingType]
      /\ \A q \in Rows : pairing'[q].code = pairing[q].code /\ pairing'[q].token = pairing[q].token
  BY <1>2, <1>3 DEF IInv, TypeOK
<1>5. UNCHANGED <<device, tokens, scans, told, start, call>>
  BY DEF Expire
<1>6. TablesKeep(device, pairing, tokens, device, pairing', tokens)
  BY <1>4 DEF TablesKeep
<1>7. StartInv' /\ RowInv'
  BY <1>4, <1>5 DEF IInv, StartInv, StartOK, RowInv
<1> QED BY <1>4, <1>5, <1>6, <1>7, PanelOnly DEF IInv, TypeOK

-----------------------------------------------------------------------------
(* The companion's steps *)

LEMMA FreshFile ==
    ASSUME NEW m
    PROVE  /\ Unpaired \in FileType
           /\ FileOK(m, Unpaired, pairing, tokens, scans)
           /\ NoTask \in TaskType
           /\ NoTask.file = Unpaired
BY DEF Unpaired, FileType, FileOK, NoTask, TaskType

LEMMA ReadOK ==
    ASSUME IInv, NEW m \in Machines
    PROVE  /\ ReadConfig(m) \in FileType
           /\ FileOK(m, ReadConfig(m), pairing, tokens, scans)
<1>1. config[m] \in FileType \cup {Torn}
  BY DEF IInv, TypeOK
<1>2. CASE config[m] = Torn
  BY <1>2, FreshFile DEF ReadConfig
<1>3. CASE config[m] # Torn
  BY <1>1, <1>3 DEF ReadConfig, IInv, FileInv
<1> QED BY <1>2, <1>3

LEMMA CallStays ==
    ASSUME IInv, UNCHANGED <<device, pairing, tokens, scans, call>>
    PROVE  CallInv' /\ call' \in [Slots -> CallType]
BY DEF IInv, TypeOK, CallInv

LEMMA CallEnds ==
    ASSUME IInv, NEW t \in Slots, call' = [call EXCEPT ![t] = NoCall],
           UNCHANGED <<device, pairing, tokens, scans>>
    PROVE  CallInv' /\ call' \in [Slots -> CallType]
<1>1. NoCall \in CallType /\ NoCall.pc \notin Keeping
  BY DEF NoCall, CallType, Keeping
<1>2. CallOK(t, NoCall, device, pairing, tokens, scans)
  BY DEF CallOK, NoCall, Keeping, Syncing
<1> QED BY <1>1, <1>2, CallMoves

\* Only the operation of slot t, its machine's files and its call change.
LEMMA AgentOnly ==
    ASSUME IInv, NEW t \in Slots, NEW k \in TaskType,
           task' = [task EXCEPT ![t] = k],
           FileOK(Home[t], k.file, pairing, tokens, scans),
           \/ UNCHANGED config
           \/ config' = [config EXCEPT ![Home[t]] = Torn]
           \/ config' = [config EXCEPT ![Home[t]] = task[t].file],
           CallInv', call' \in [Slots -> CallType],
           window' \in [Machines -> Slots \cup {None}],
           cache' \in [Machines -> ScanType \cup {None}],
           clock' \in Nat, begun' \in BegunType,
           UNCHANGED <<device, pairing, tokens, scans, told, start>>
    PROVE  IInv'
<1>1. FileInv' /\ task' \in [Slots -> TaskType] /\ config' \in [Machines -> FileType \cup {Torn}]
  BY TaskMoves
<1>2. StartInv' /\ RowInv'
  BY DEF IInv, StartInv, RowInv
<1>3. TypeOK'
  BY <1>1 DEF IInv, TypeOK
<1> QED BY <1>1, <1>2, <1>3 DEF IInv

LEMMA BeginTypes ==
    ASSUME IInv, NEW t \in Slots, NEW k, Begin(t, k)
    PROVE  window' \in [Machines -> Slots \cup {None}] /\ task' = [task EXCEPT ![t] = k]
BY PipelineAssumption DEF IInv, TypeOK, Begin

LEMMA FinishTypes ==
    ASSUME IInv, NEW t \in Slots, Finish(t)
    PROVE  /\ window' \in [Machines -> Slots \cup {None}]
           /\ task' = [task EXCEPT ![t] = NoTask]
           /\ NoTask \in TaskType
           /\ FileOK(Home[t], NoTask.file, pairing, tokens, scans)
<1>1. NoTask \in TaskType /\ FileOK(Home[t], NoTask.file, pairing, tokens, scans)
  BY FreshFile
<1>2. window' \in [Machines -> Slots \cup {None}]
  BY PipelineAssumption DEF IInv, TypeOK, Finish
<1> QED BY <1>1, <1>2 DEF Finish

LEMMA PairKeeps == ASSUME IInv, NEW t \in Slots, Pair(t) PROVE IInv'
<1> DEFINE k == [pc |-> "pairing", file |-> ReadConfig(Home[t]), scan |-> None]
<1>1. PICK code \in told : call' = [call EXCEPT ![t] = [NoCall EXCEPT !.pc = "lookup", !.code = code]]
  BY DEF Pair
<1> DEFINE c == [NoCall EXCEPT !.pc = "lookup", !.code = code]
<1>2. Home[t] \in Machines /\ code \in Codes
  BY PipelineAssumption DEF IInv, TypeOK
<1>3. k \in TaskType /\ FileOK(Home[t], k.file, pairing, tokens, scans)
  BY <1>2, ReadOK DEF TaskType
<1>4. c \in CallType /\ c.pc \notin Keeping
  BY <1>2 DEF NoCall, CallType, Serving, Keeping
<1>5. CallOK(t, c, device, pairing, tokens, scans)
  BY <1>2 DEF CallOK, NoCall, Keeping, Syncing
<1>6. UNCHANGED <<device, pairing, tokens, scans, told, start, config, cache, clock>>
  BY DEF Pair
<1>7. CallInv' /\ call' \in [Slots -> CallType]
  BY <1>1, <1>4, <1>5, <1>6, CallMoves
<1>8. window' \in [Machines -> Slots \cup {None}] /\ task' = [task EXCEPT ![t] = k]
  BY BeginTypes DEF Pair
<1>9. begun' \in BegunType
  <2>1. begun \in BegunType /\ PairLimit \in Nat /\ ScanLimit \in Nat /\ SyncLimit \in Nat
    BY CompanionAssumption DEF IInv, TypeOK
  <2>2. begun.pairings < PairLimit /\ begun' = [begun EXCEPT !.pairings = @ + 1]
    BY DEF Pair
  <2> QED BY <2>1, <2>2 DEF BegunType
<1>10. cache' \in [Machines -> ScanType \cup {None}] /\ clock' \in Nat
  BY <1>6 DEF IInv, TypeOK
<1> QED BY <1>3, <1>6, <1>7, <1>8, <1>9, <1>10, AgentOnly

LEMMA PairedKeeps == ASSUME IInv, NEW t \in Slots, Paired(t) PROVE IInv'
<1> DEFINE f == [task[t].file EXCEPT !.row = call[t].row, !.token = call[t].token]
<1> DEFINE k == [task[t] EXCEPT !.pc = "open", !.file = f]
<1>1. /\ task[t] \in TaskType /\ task[t].file \in FileType
      /\ FileOK(Home[t], task[t].file, pairing, tokens, scans)
      /\ CallOK(t, call[t], device, pairing, tokens, scans)
      /\ call[t] \in CallType /\ call[t].pc = "ok"
  BY DEF IInv, TypeOK, TaskType, FileInv, CallInv, Paired
<1>2. /\ f \in FileType /\ f.row = call[t].row /\ f.token = call[t].token
      /\ f.synced = task[t].file.synced
  BY <1>1 DEF FileType, CallType
<1>3. k \in TaskType /\ k.file = f
  BY <1>1, <1>2 DEF TaskType
<1>4. FileOK(Home[t], f, pairing, tokens, scans)
  BY <1>1, <1>2 DEF FileOK, CallOK
<1>5. UNCHANGED <<device, pairing, tokens, scans, told, start, config, cache, window, clock, begun>>
      /\ call' = [call EXCEPT ![t] = NoCall]
  BY DEF Paired
<1>6. task' = [task EXCEPT ![t] = k]
  BY DEF Paired, IInv, TypeOK
<1> HIDE DEF k
<1>7. CallInv' /\ call' \in [Slots -> CallType]
  BY <1>5, CallEnds
<1> QED BY <1>3, <1>4, <1>5, <1>6, <1>7, AgentOnly DEF IInv, TypeOK

LEMMA ClearKeeps == ASSUME IInv, NEW t \in Slots, Clear(t) PROVE IInv'
<1> DEFINE k == [pc |-> "open", file |-> Unpaired, scan |-> None]
<1>1. k \in TaskType /\ FileOK(Home[t], k.file, pairing, tokens, scans)
  BY FreshFile DEF TaskType
<1>2. window' \in [Machines -> Slots \cup {None}] /\ task' = [task EXCEPT ![t] = k]
  BY BeginTypes DEF Clear
<1>3. UNCHANGED <<device, pairing, tokens, scans, told, start, call, config, cache, clock, begun>>
  BY DEF Clear
<1> QED BY <1>1, <1>2, <1>3, CallStays, AgentOnly DEF IInv, TypeOK

LEMMA ScanKeeps == ASSUME IInv, NEW t \in Slots, Scan(t) PROVE IInv'
<1> DEFINE k == [pc |-> "collect", file |-> ReadConfig(Home[t]), scan |-> None]
<1>1. k \in TaskType /\ FileOK(Home[t], k.file, pairing, tokens, scans)
  BY ReadOK, PipelineAssumption DEF TaskType
<1>2. window' \in [Machines -> Slots \cup {None}] /\ task' = [task EXCEPT ![t] = k]
  BY BeginTypes DEF Scan
<1>3. UNCHANGED <<device, pairing, tokens, scans, told, start, call, config, cache, clock>>
  BY DEF Scan
<1>4. begun' \in BegunType
  <2>1. begun \in BegunType /\ PairLimit \in Nat /\ ScanLimit \in Nat /\ SyncLimit \in Nat
    BY CompanionAssumption DEF IInv, TypeOK
  <2>2. begun.scans < ScanLimit /\ begun' = [begun EXCEPT !.scans = @ + 1]
    BY DEF Scan
  <2> QED BY <2>1, <2>2 DEF BegunType
<1> QED BY <1>1, <1>2, <1>3, <1>4, CallStays, AgentOnly DEF IInv, TypeOK

LEMMA CollectedKeeps == ASSUME IInv, NEW t \in Slots, Collected(t) PROVE IInv'
<1>1. PICK f \in Contents :
        task' = [task EXCEPT ![t].pc = "keep", ![t].scan = [at |-> clock + 1, found |-> f]]
  BY DEF Collected
<1> DEFINE k == [task[t] EXCEPT !.pc = "keep", !.scan = [at |-> clock + 1, found |-> f]]
<1>2. /\ task[t] \in TaskType /\ clock + 1 \in Nat
      /\ FileOK(Home[t], task[t].file, pairing, tokens, scans)
  BY DEF IInv, TypeOK, FileInv
<1>3. k \in TaskType /\ k.file = task[t].file
  BY <1>2 DEF TaskType, ScanType
<1>4. task' = [task EXCEPT ![t] = k]
  BY <1>1 DEF IInv, TypeOK
<1> HIDE DEF k
<1>5. UNCHANGED <<device, pairing, tokens, scans, told, start, call, config, window, begun>>
      /\ clock' = clock + 1
  BY DEF Collected
<1>6. cache' \in [Machines -> ScanType \cup {None}]
  BY DEF Collected, IInv, TypeOK
<1> QED BY <1>2, <1>3, <1>4, <1>5, <1>6, CallStays, AgentOnly DEF IInv, TypeOK

LEMMA KeptKeeps == ASSUME IInv, NEW t \in Slots, Kept(t) PROVE IInv'
<1> DEFINE k == [task[t] EXCEPT !.pc = "open", !.scan = None]
<1>2. /\ task[t] \in TaskType
      /\ FileOK(Home[t], task[t].file, pairing, tokens, scans)
  BY DEF IInv, TypeOK, FileInv
<1>3. k \in TaskType /\ k.file = task[t].file
  BY <1>2 DEF TaskType
<1>4. task' = [task EXCEPT ![t] = k]
  BY DEF Kept, IInv, TypeOK
<1> HIDE DEF k
<1>5. UNCHANGED <<device, pairing, tokens, scans, told, start, call, config, window, clock, begun>>
  BY DEF Kept
<1>6. cache' \in [Machines -> ScanType \cup {None}]
  BY <1>2 DEF Kept, IInv, TypeOK, TaskType
<1> QED BY <1>2, <1>3, <1>4, <1>5, <1>6, CallStays, AgentOnly DEF IInv, TypeOK

LEMMA SyncKeeps == ASSUME IInv, NEW t \in Slots, Sync(t) PROVE IInv'
<1> DEFINE k == [pc |-> "load", file |-> ReadConfig(Home[t]), scan |-> None]
<1>1. k \in TaskType /\ FileOK(Home[t], k.file, pairing, tokens, scans)
  BY ReadOK, PipelineAssumption DEF TaskType
<1>2. window' \in [Machines -> Slots \cup {None}] /\ task' = [task EXCEPT ![t] = k]
  BY BeginTypes DEF Sync
<1>3. UNCHANGED <<device, pairing, tokens, scans, told, start, call, config, cache, clock>>
  BY DEF Sync
<1>4. begun' \in BegunType
  <2>1. begun \in BegunType /\ PairLimit \in Nat /\ ScanLimit \in Nat /\ SyncLimit \in Nat
    BY CompanionAssumption DEF IInv, TypeOK
  <2>2. begun.syncs < SyncLimit /\ begun' = [begun EXCEPT !.syncs = @ + 1]
    BY DEF Sync
  <2> QED BY <2>1, <2>2 DEF BegunType
<1> QED BY <1>1, <1>2, <1>3, <1>4, CallStays, AgentOnly DEF IInv, TypeOK

LEMMA PostKeeps == ASSUME IInv, NEW t \in Slots, Post(t) PROVE IInv'
<1> DEFINE s == cache[Home[t]]
<1> DEFINE f == task[t].file
<1>1. /\ task[t] \in TaskType /\ f \in FileType
      /\ FileOK(Home[t], f, pairing, tokens, scans)
      /\ Home[t] \in Machines /\ s \in ScanType \cup {None}
  BY PipelineAssumption DEF IInv, TypeOK, TaskType, FileInv
<1>2. UNCHANGED <<device, pairing, tokens, scans, told, start, config, cache, clock, begun>>
  BY DEF Post
<1>3. CASE s # None /\ f.token # 0 /\ UNCHANGED window
           /\ task' = [task EXCEPT ![t].pc = "syncing"]
           /\ call' = [call EXCEPT ![t] = [NoCall EXCEPT !.pc = "token", !.row = f.row,
                                              !.token = f.token, !.scan = s]]
  <2> DEFINE k == [task[t] EXCEPT !.pc = "syncing"]
  <2> DEFINE c == [NoCall EXCEPT !.pc = "token", !.row = f.row, !.token = f.token, !.scan = s]
  <2>1. k \in TaskType /\ k.file = f
    BY <1>1 DEF TaskType
  <2>2. task' = [task EXCEPT ![t] = k]
    BY <1>3 DEF IInv, TypeOK
  <2>3. /\ c \in CallType /\ c.pc = "token" /\ c.row = f.row /\ c.token = f.token /\ c.scan = s
    BY <1>1 DEF NoCall, CallType, FileType, Serving
  <2>4. call' = [call EXCEPT ![t] = c]
    BY <1>3
  <2> HIDE DEF c, k
  <2>5. CallOK(t, c, device, pairing, tokens, scans) /\ c.pc \notin Keeping
    BY <1>1, <1>3, <2>3 DEF CallOK, FileOK, Keeping
  <2>6. CallInv' /\ call' \in [Slots -> CallType]
    BY <1>2, <2>3, <2>4, <2>5, CallMoves
  <2>7. FileOK(Home[t], k.file, pairing, tokens, scans)
    BY <1>1, <2>1
  <2> QED BY <1>2, <1>3, <2>1, <2>2, <2>6, <2>7, AgentOnly DEF IInv, TypeOK
<1>4. CASE Finish(t) /\ UNCHANGED call
  <2>1. /\ window' \in [Machines -> Slots \cup {None}]
        /\ task' = [task EXCEPT ![t] = NoTask]
        /\ NoTask \in TaskType
        /\ FileOK(Home[t], NoTask.file, pairing, tokens, scans)
    BY <1>4, FinishTypes
  <2>2. CallInv' /\ call' \in [Slots -> CallType]
    BY <1>2, <1>4, CallStays
  <2> QED BY <1>2, <2>1, <2>2, AgentOnly DEF IInv, TypeOK
<1> QED BY <1>3, <1>4 DEF Post

LEMMA SyncedKeeps == ASSUME IInv, NEW t \in Slots, Synced(t) PROVE IInv'
<1> DEFINE f == [task[t].file EXCEPT !.synced = call[t].id]
<1> DEFINE k == [task[t] EXCEPT !.pc = "open", !.file = f]
<1>1. /\ task[t] \in TaskType /\ task[t].file \in FileType
      /\ FileOK(Home[t], task[t].file, pairing, tokens, scans)
      /\ CallOK(t, call[t], device, pairing, tokens, scans)
      /\ call[t] \in CallType /\ call[t].pc = "ok"
  BY DEF IInv, TypeOK, TaskType, FileInv, CallInv, Synced
<1>2. /\ f \in FileType /\ f.row = task[t].file.row /\ f.token = task[t].file.token
      /\ f.synced = call[t].id
  BY <1>1 DEF FileType, CallType
<1>3. k \in TaskType /\ k.file = f
  BY <1>1, <1>2 DEF TaskType
<1>4. FileOK(Home[t], f, pairing, tokens, scans)
  BY <1>1, <1>2 DEF FileOK, CallOK
<1>5. UNCHANGED <<device, pairing, tokens, scans, told, start, config, cache, window, clock, begun>>
      /\ call' = [call EXCEPT ![t] = NoCall]
  BY DEF Synced
<1>6. task' = [task EXCEPT ![t] = k]
  BY DEF Synced, IInv, TypeOK
<1> HIDE DEF k
<1>7. CallInv' /\ call' \in [Slots -> CallType]
  BY <1>5, CallEnds
<1> QED BY <1>3, <1>4, <1>5, <1>6, <1>7, AgentOnly DEF IInv, TypeOK

LEMMA RefusedKeeps == ASSUME IInv, NEW t \in Slots, Refused(t) PROVE IInv'
<1>1. UNCHANGED <<device, pairing, tokens, scans, told, start, config, cache, clock, begun>>
      /\ call' = [call EXCEPT ![t] = NoCall]
      /\ Finish(t)
  BY DEF Refused
<1>2. CallInv' /\ call' \in [Slots -> CallType]
  BY <1>1, CallEnds
<1>3. /\ window' \in [Machines -> Slots \cup {None}]
      /\ task' = [task EXCEPT ![t] = NoTask]
      /\ NoTask \in TaskType
      /\ FileOK(Home[t], NoTask.file, pairing, tokens, scans)
  BY <1>1, FinishTypes
<1> QED BY <1>1, <1>2, <1>3, AgentOnly DEF IInv, TypeOK

LEMMA TruncateKeeps == ASSUME IInv, NEW t \in Slots, Truncate(t) PROVE IInv'
<1> DEFINE k == [task[t] EXCEPT !.pc = "fill"]
<1>1. /\ task[t] \in TaskType
      /\ FileOK(Home[t], task[t].file, pairing, tokens, scans)
  BY DEF IInv, TypeOK, FileInv
<1>2. k \in TaskType /\ k.file = task[t].file
  BY <1>1 DEF TaskType
<1>3. task' = [task EXCEPT ![t] = k]
  BY DEF Truncate, IInv, TypeOK
<1> HIDE DEF k
<1>4. UNCHANGED <<device, pairing, tokens, scans, told, start, call, cache, window, clock, begun>>
      /\ config' = [config EXCEPT ![Home[t]] = Torn]
  BY DEF Truncate
<1> QED BY <1>1, <1>2, <1>3, <1>4, CallStays, AgentOnly DEF IInv, TypeOK

LEMMA FillKeeps == ASSUME IInv, NEW t \in Slots, Fill(t) PROVE IInv'
<1>1. UNCHANGED <<device, pairing, tokens, scans, told, start, call, cache, clock, begun>>
      /\ Finish(t)
  BY DEF Fill
<1>2. \/ config' = [config EXCEPT ![Home[t]] = Torn]
      \/ config' = [config EXCEPT ![Home[t]] = task[t].file]
  BY DEF Fill
<1>3. /\ window' \in [Machines -> Slots \cup {None}]
      /\ task' = [task EXCEPT ![t] = NoTask]
      /\ NoTask \in TaskType
      /\ FileOK(Home[t], NoTask.file, pairing, tokens, scans)
  BY <1>1, FinishTypes
<1>4. CallInv' /\ call' \in [Slots -> CallType]
  BY <1>1, CallStays
<1> QED BY <1>1, <1>2, <1>3, <1>4, AgentOnly DEF IInv, TypeOK

LEMMA AbandonedKeeps == ASSUME IInv, NEW t \in Slots, Abandoned(t) PROVE IInv'
<1>1. UNCHANGED <<device, pairing, tokens, scans, told, start, config, cache, window, task, clock, begun>>
      /\ call' = [call EXCEPT ![t] = NoCall]
  BY DEF Abandoned
<1>2. CallInv' /\ call' \in [Slots -> CallType]
  BY <1>1, CallEnds
<1>3. StartInv' /\ RowInv' /\ FileInv'
  BY <1>1 DEF IInv, StartInv, RowInv, FileInv
<1>4. TypeOK'
  BY <1>1, <1>2 DEF IInv, TypeOK
<1> QED BY <1>2, <1>3, <1>4 DEF IInv

LEMMA ReloadKeeps == ASSUME IInv, NEW m \in Machines, Reload(m) PROVE IInv'
<1>1. UNCHANGED <<device, pairing, tokens, scans, told, start, call, config, cache, task, clock, begun>>
  BY DEF Reload
<1>2. window' \in [Machines -> Slots \cup {None}]
  BY DEF Reload, IInv, TypeOK
<1>3. StartInv' /\ RowInv' /\ FileInv' /\ CallInv'
  BY <1>1 DEF IInv, StartInv, RowInv, FileInv, CallInv
<1>4. TypeOK'
  BY <1>1, <1>2 DEF IInv, TypeOK
<1> QED BY <1>3, <1>4 DEF IInv

LEMMA QuitKeeps == ASSUME IInv, NEW m \in Machines, Quit(m) PROVE IInv'
<1>1. UNCHANGED <<device, pairing, tokens, scans, told, start, call, config, cache, clock, begun>>
  BY DEF Quit
<1>2. window' \in [Machines -> Slots \cup {None}]
  BY DEF Quit, IInv, TypeOK
<1>3. task' \in [Slots -> TaskType] /\ \A t \in Slots : task'[t] \in {NoTask, task[t]}
  BY FreshFile DEF Quit, IInv, TypeOK
<1>4. FileInv'
  BY <1>1, <1>3, FreshFile DEF IInv, FileInv
<1>5. StartInv' /\ RowInv' /\ CallInv'
  BY <1>1 DEF IInv, StartInv, RowInv, CallInv
<1>6. TypeOK'
  BY <1>1, <1>2, <1>3 DEF IInv, TypeOK
<1> QED BY <1>4, <1>5, <1>6 DEF IInv

-----------------------------------------------------------------------------
(* The theorems *)

LEMMA InitOK == AgentInit => IInv
<1> SUFFICES ASSUME AgentInit PROVE IInv
  OBVIOUS
<1> USE DEF AgentInit, Init
<1>1. TypeOK
  <2>1. /\ NoDevice \in DeviceType /\ NoPairing \in PairingType
        /\ NoStart \in StartType /\ NoCall \in CallType
    BY PipelineAssumption DEF NoDevice, DeviceType, NoPairing, PairingType, NoStart, StartType,
       NoCall, CallType
  <2>2. begun \in BegunType
    BY CompanionAssumption DEF BegunType
  <2> QED BY <2>1, <2>2, FreshFile DEF TypeOK
<1>2. StartInv
  BY DEF StartInv, StartOK, NoStart, Held
<1>3. RowInv
  BY DEF RowInv, NoPairing
<1>4. CallInv
  BY DEF CallInv, CallOK, NoCall, Keeping, Syncing
<1>5. FileInv
  BY FreshFile DEF FileInv
<1> QED BY <1>1, <1>2, <1>3, <1>4, <1>5 DEF IInv

LEMMA ServerKeeps == ASSUME IInv, ServerNext, UNCHANGED agentVars PROVE IInv'
BY StartDeviceKeeps, StartCodeKeeps, StartRefusedKeeps, StartCleanupKeeps, StartFailsKeeps,
   ExpireKeeps, CompleteLookupKeeps, CompleteDeviceKeeps, CompletePairingKeeps,
   SyncLookupKeeps, SyncDeviceKeeps, SyncScanKeeps, SyncItemsKeeps, SyncResolveKeeps,
   SyncAdviseKeeps, SyncSummaryKeeps, SyncTouchKeeps, CallFailsKeeps DEF ServerNext

LEMMA AgentKeeps == ASSUME IInv, AgentNext PROVE IInv'
BY PairKeeps, PairedKeeps, ClearKeeps, ScanKeeps, CollectedKeeps, KeptKeeps, SyncKeeps,
   PostKeeps, SyncedKeeps, RefusedKeeps, TruncateKeeps, FillKeeps, AbandonedKeeps,
   ReloadKeeps, QuitKeeps DEF AgentNext

LEMMA StepOK == IInv /\ [Next]_vars => IInv'
<1> SUFFICES ASSUME IInv, [Next]_vars PROVE IInv'
  OBVIOUS
<1>1. CASE Next
  BY <1>1, ServerKeeps, AgentKeeps DEF Next
<1>2. CASE UNCHANGED vars
  BY <1>2 DEF vars, IInv, TypeOK, StartInv, RowInv, CallInv, FileInv
<1> QED BY <1>1, <1>2

\* The inductive invariant: what a file, a call and a panel at work hold is
\* true of the tables.
THEOREM Invariance == Spec => []IInv
<1> QED BY InitOK, StepOK, PTL DEF Spec

\* Every table, file and operation keeps its type, and a panel its attempts,
\* for any number of them.
THEOREM WatchTypeCorrect == Spec => []TypeOK
<1>1. IInv => TypeOK
  BY DEF IInv
<1> QED BY <1>1, Invariance, PTL

\* A sync recorded in agent-config.json is whole in the database, whatever
\* fails, overlaps or is abandoned.
THEOREM RecordedSyncsAreStored == Spec => []RecordedSyncIsStored
<1>1. IInv => RecordedSyncIsStored
  BY DEF IInv, FileInv, FileOK, Whole, RecordedSyncIsStored
<1> QED BY <1>1, Invariance, PTL

\* The device and the token of a configuration were answered together, to
\* this machine, for a device that is paired.
THEOREM PairingsAreAsAnswered == Spec => []PairedAsAnswered
<1>1. ASSUME IInv PROVE PairedAsAnswered
  <2> SUFFICES ASSUME NEW m \in Machines, config[m] # Torn, config[m].token # 0
               PROVE  /\ tokens[config[m].token] = [row |-> config[m].row, machine |-> m]
                      /\ pairing[config[m].row].token # 0
                      /\ device[config[m].row].print # None
    BY DEF PairedAsAnswered
  <2>1. Fits(m, config[m].row, config[m].token, pairing, tokens)
    BY <1>1 DEF IInv, FileInv, FileOK
  <2> QED BY <1>1, <2>1 DEF Fits, IInv, RowInv
<1> QED BY <1>1, Invariance, PTL

\* Where cleanupProvisionalDevice does not fail itself, every unpaired
\* provisional device has a panel still at work on it.
THEOREM NoStrays == ASSUME "cleanup" \notin Faults PROVE Spec => []NoStrayDevices
<1>1. AgentInit => NoStrayDevices
  BY DEF AgentInit, Init, NoStrayDevices, NoDevice
<1>2. ASSUME IInv, NoStrayDevices, [Next]_vars PROVE NoStrayDevices'
  <2>1. CASE UNCHANGED <<device, pairing, start>>
    BY <1>2, <2>1 DEF NoStrayDevices
  <2>2. ASSUME NEW p \in Panels, StartDevice(p) PROVE NoStrayDevices'
    <3>1. PICK r \in Rows :
            /\ device[r].status = "absent"
            /\ device' = [device EXCEPT ![r].status = "offline"]
            /\ start' = [start EXCEPT ![p] = [pc |-> "code", row |-> r, tries |-> @.tries + 1]]
            /\ UNCHANGED pairing
      BY <2>2 DEF StartDevice
    <3>2. /\ start[p].row = None
          /\ start'[p].row = r
          /\ \A q \in Panels : q # p => start'[q] = start[q]
          /\ \A q \in Rows : q # r => device'[q] = device[q]
      BY <1>2, <2>2, <3>1 DEF IInv, TypeOK, StartInv, StartOK, StartDevice, Held
    <3> QED BY <1>2, <3>1, <3>2, PipelineAssumption DEF NoStrayDevices
  <2>3. ASSUME NEW p \in Panels, StartCode(p) PROVE NoStrayDevices'
    <3>1. PICK c \in Codes : pairing' = [pairing EXCEPT ![start[p].row].code = c]
      BY <2>3 DEF StartCode
    <3>2. /\ UNCHANGED device
          /\ \A q \in Panels : q # p => start'[q] = start[q]
          /\ \A q \in Rows : q # start[p].row => pairing'[q] = pairing[q]
          /\ start[p].row \in Rows => pairing'[start[p].row].code = c
          /\ c # None
      BY <1>2, <2>3, <3>1, PipelineAssumption DEF IInv, TypeOK, PairingType, StartCode
    <3> QED BY <1>2, <3>2 DEF NoStrayDevices
  <2>4. ASSUME NEW p \in Panels, StartRefused(p) PROVE NoStrayDevices'
    <3>1. UNCHANGED <<device, pairing>> /\ \A q \in Panels : start'[q].row = start[q].row
      <4>1. PICK x \in {"collided", "failed"} : start' = [start EXCEPT ![p].pc = x]
        BY <2>4 DEF StartRefused
      <4>2. start \in [Panels -> StartType]
        BY <1>2 DEF IInv, TypeOK
      <4>3. \A q \in Panels : start'[q].row = start[q].row
        BY <4>1, <4>2 DEF StartType
      <4> QED BY <2>4, <4>3 DEF StartRefused
    <3> QED BY <1>2, <3>1 DEF NoStrayDevices
  <2>5. ASSUME NEW p \in Panels, StartCleanup(p) PROVE NoStrayDevices'
    <3>1. /\ UNCHANGED pairing
          /\ device' = [device EXCEPT ![start[p].row] = NoDevice]
          /\ \A q \in Panels : q # p => start'[q] = start[q]
      BY <1>2, <2>5 DEF IInv, TypeOK, StartCleanup
    <3>2. /\ \A q \in Rows : q # start[p].row => device'[q] = device[q]
          /\ start[p].row \in Rows => device'[start[p].row].status = "absent"
      BY <1>2, <3>1 DEF IInv, TypeOK, NoDevice
    <3> QED BY <1>2, <3>1, <3>2 DEF NoStrayDevices
  <2>6. ASSUME NEW p \in Panels, StartFails(p) PROVE NoStrayDevices'
    <3>1. /\ UNCHANGED <<device, pairing>>
          /\ start[p].row = None
          /\ \A q \in Panels : q # p => start'[q] = start[q]
      BY <1>2, <2>6 DEF IInv, TypeOK, StartInv, StartOK, StartFails, Held
    <3> QED BY <1>2, <3>1, PipelineAssumption DEF NoStrayDevices
  <2>7. ASSUME NEW r \in Rows, Expire(r) PROVE NoStrayDevices'
    <3>1. UNCHANGED <<device, start>> /\ \A q \in Rows : pairing'[q].code = pairing[q].code
      BY <1>2, <2>7 DEF IInv, TypeOK, PairingType, Expire
    <3> QED BY <1>2, <3>1 DEF NoStrayDevices
  <2>8. ASSUME NEW t \in Slots, CompleteDevice(t) \/ CompletePairing(t) \/ SyncSummary(t)
        PROVE  NoStrayDevices'
    <3>1. call[t].row \in Rows /\ pairing[call[t].row].code # None
      BY <1>2, <2>8 DEF IInv, CallInv, CallOK, RowInv, Fits, Syncing, Keeping,
         CompleteDevice, CompletePairing, SyncSummary
    <3>2. /\ UNCHANGED start
          /\ \A q \in Rows : pairing'[q].code = pairing[q].code
          /\ \A q \in Rows : q # call[t].row => device'[q] = device[q]
      <4>1. device \in [Rows -> DeviceType] /\ pairing \in [Rows -> PairingType]
        BY <1>2 DEF IInv, TypeOK
      <4>2. CASE CompleteDevice(t)
        BY <4>1, <4>2 DEF CompleteDevice
      <4>3. CASE CompletePairing(t)
        BY <4>1, <4>3 DEF CompletePairing, PairingType
      <4>4. CASE SyncSummary(t)
        BY <4>1, <4>4 DEF SyncSummary
      <4> QED BY <2>8, <4>2, <4>3, <4>4
    <3> QED BY <1>2, <3>1, <3>2 DEF NoStrayDevices
  <2>9. CASE ServerNext
    BY <2>1, <2>2, <2>3, <2>4, <2>5, <2>6, <2>7, <2>8, <2>9
    DEF ServerNext, CompleteLookup, SyncLookup, SyncDevice, SyncScan, SyncItems, SyncResolve,
        SyncAdvise, SyncTouch, CallFails
  <2>10. CASE AgentNext
    BY <2>1, <2>10 DEF AgentNext, Pair, Paired, Clear, Scan, Collected, Kept, Sync, Post, Synced,
       Refused, Truncate, Fill, Abandoned, Reload, Quit
  <2>11. CASE UNCHANGED vars
    BY <2>1, <2>11 DEF vars
  <2> QED BY <1>2, <2>9, <2>10, <2>11 DEF Next
<1> QED BY <1>1, <1>2, Invariance, PTL DEF Spec

-----------------------------------------------------------------------------
(* The newest sync of a device and what the pages show *)

\* The sync of scan row i ran beside no other of its device, and is its newest.
Alone(i) ==
    /\ scans[i].beside = "none"
    /\ \A j \in ScansOf(scans[i].device) : j <= i

Recommends(i) == IF Advised(scans[i].scan.found) = {} THEN {} ELSE {i}

\* The pages show of the device what scan row i found.
Agreed(i) ==
    /\ device[scans[i].device].summary = i
    /\ getLiveRecommendations(scans[i].device) = Recommends(i)

\* How far the pages agree at each step of a sync.
StageAgrees(c) == Alone(c.id) =>
    /\ c.pc = "advise" => getLiveRecommendations(c.row) = {}
    /\ c.pc \in {"summary", "touch"} => getLiveRecommendations(c.row) = Recommends(c.id)
    /\ c.pc = "touch" => device[c.row].summary = c.id

\* The sync of scan row i has ended.
Settled(i) ==
    /\ i \in DOMAIN scans
    /\ Alone(i) => Agreed(i)
    /\ \A t \in Slots : call[t].pc \in Keeping => call[t].id # i

KeepersAgree == \A t \in Slots :
    /\ call[t].pc \in Keeping =>
        /\ scans[call[t].id].device = call[t].row
        /\ StageAgrees(call[t])
        /\ \A i \in ScansOf(call[t].row) : Alone(i) => call[t].id = i
    /\ call[t].pc = "ok" /\ call[t].id # 0 =>
        Settled(call[t].id) /\ scans[call[t].id].device = call[t].row

\* The sync a file has recorded is one of the device it names, or older than
\* every sync of that device.
FileAgrees(f) == f.synced # 0 =>
    /\ Settled(f.synced)
    /\ scans[f.synced].device = f.row \/ \A j \in ScansOf(f.row) : j > f.synced

FilesAgree ==
    /\ \A m \in Machines : config[m] # Torn => FileAgrees(config[m])
    /\ \A t \in Slots : FileAgrees(task[t].file)

TasksAgree == \A t \in Slots :
    /\ task[t].pc = "pairing" =>
        /\ call[t].pc \in {"lookup", "device", "pair", "ok", "failed"}
        /\ call[t].pc \in {"device", "pair", "ok"} =>
              \A j \in ScansOf(call[t].row) : j > task[t].file.synced
    /\ task[t].pc = "syncing" =>
        call[t].pc \in Syncing \cup {"ok", "failed"} /\ call[t].row = task[t].file.row

ScansArePaired == \A i \in DOMAIN scans :
    /\ scans[i].device \in Rows
    /\ pairing[scans[i].device].token # 0

AgreeInv == KeepersAgree /\ FilesAgree /\ TasksAgree /\ ScansArePaired

\* A step gives no device other scans.
SameScans ==
    /\ DOMAIN scans' = DOMAIN scans
    /\ \A i \in DOMAIN scans :
        /\ scans'[i].device = scans[i].device
        /\ scans'[i].beside = scans[i].beside
        /\ scans'[i].scan = scans[i].scan

\* A step changes nothing of what the pages show of device r.
Untouched(r) ==
    /\ device'[r].summary = device[r].summary
    /\ \A i \in DOMAIN scans : scans[i].device = r => scans'[i].advice = scans[i].advice

\* A step that leaves ended syncs ended, and whose new scans are newer.
SyncsStay ==
    /\ \A i \in Nat : Settled(i) => Settled(i)'
    /\ \A i \in DOMAIN scans : i \in DOMAIN scans' /\ scans'[i].device = scans[i].device
    /\ \A j \in DOMAIN scans' : j \in DOMAIN scans \/ \A i \in DOMAIN scans : j > i

LEMMA AloneStays ==
    ASSUME SameScans
    PROVE  /\ \A r : ScansOf(r)' = ScansOf(r)
           /\ \A i \in DOMAIN scans : /\ Alone(i)' <=> Alone(i)
                                      /\ Recommends(i)' = Recommends(i)
<1>1. \A r : ScansOf(r)' = ScansOf(r)
  BY DEF SameScans, ScansOf
<1>2. \A i \in DOMAIN scans : Alone(i)' <=> Alone(i)
  BY <1>1 DEF SameScans, Alone
<1>3. \A i \in DOMAIN scans : Recommends(i)' = Recommends(i)
  BY DEF SameScans, Recommends
<1> QED BY <1>1, <1>2, <1>3

LEMMA AdviceStays ==
    ASSUME SameScans, NEW r, Untouched(r)
    PROVE  getLiveRecommendations(r)' = getLiveRecommendations(r)
BY AloneStays DEF SameScans, Untouched, getLiveRecommendations, ScansOf

LEMMA SettledStays ==
    ASSUME SameScans, NEW i, Settled(i), Alone(i) => Untouched(scans[i].device),
           \A u \in Slots : call'[u].pc \in Keeping => call'[u].id # i
    PROVE  Settled(i)'
<1>1. i \in DOMAIN scans /\ i \in DOMAIN scans' /\ scans'[i].device = scans[i].device
  BY DEF Settled, SameScans
<1>2. ASSUME Alone(i)' PROVE Agreed(i)'
  <2>1. Agreed(i) /\ Untouched(scans[i].device) /\ Recommends(i)' = Recommends(i)
    BY <1>1, <1>2, AloneStays DEF Settled
  <2>2. getLiveRecommendations(scans[i].device)' = getLiveRecommendations(scans[i].device)
    <3> DEFINE r == scans[i].device
    <3>1. PICK q : q = scans[i].device /\ q = scans'[i].device
      BY <1>1
    <3>2. getLiveRecommendations(q)' = getLiveRecommendations(q)
      BY <2>1, <3>1, AdviceStays
    <3> QED BY <3>1, <3>2
  <2> QED BY <1>1, <2>1, <2>2 DEF Agreed, Untouched
<1> QED BY <1>1, <1>2 DEF Settled

\* A step that moves no sync between its scan row and its end, and touches no
\* scan and no device's summary.
LEMMA QuietStep ==
    ASSUME IInv, KeepersAgree, UNCHANGED scans,
           \A i \in DOMAIN scans :
              device'[scans[i].device].summary = device[scans[i].device].summary,
           \A u \in Slots :
              call'[u].pc \in Keeping \/ (call'[u].pc = "ok" /\ call'[u].id # 0)
                 => call'[u] = call[u]
    PROVE  KeepersAgree' /\ SyncsStay
<1>1. SameScans /\ \A i \in DOMAIN scans : Untouched(scans[i].device)
  BY DEF SameScans, Untouched
<1>2. \A i \in Nat : Settled(i) => Settled(i)'
  <2> SUFFICES ASSUME NEW i \in Nat, Settled(i) PROVE Settled(i)'
    OBVIOUS
  <2>1. \A u \in Slots : call'[u].pc \in Keeping => call'[u].id # i
    BY DEF Settled
  <2> QED BY <1>1, <2>1, SettledStays DEF Settled
<1>3. ASSUME NEW t \in Slots, call'[t].pc \in Keeping
      PROVE  /\ scans'[call'[t].id].device = call'[t].row
             /\ StageAgrees(call[t])'
             /\ \A i \in ScansOf(call[t].row)' : Alone(i)' => call'[t].id = i
  <2>1. PICK c : c = call[t] /\ c = call'[t]
    BY <1>3
  <2>2. /\ c.pc \in Keeping /\ c.id \in DOMAIN scans /\ scans[c.id].device = c.row
        /\ StageAgrees(c)
        /\ \A i \in ScansOf(c.row) : Alone(i) => c.id = i
    BY <1>3, <2>1 DEF IInv, CallInv, CallOK, StageOK, KeepersAgree
  <2>3. /\ Untouched(c.row) /\ (Alone(c.id)' <=> Alone(c.id))
        /\ Recommends(c.id)' = Recommends(c.id)
    BY <1>1, <2>2, AloneStays
  <2>4. getLiveRecommendations(c.row)' = getLiveRecommendations(c.row)
    BY <1>1, <2>3, AdviceStays
  <2>5. StageAgrees(c)'
    BY <2>2, <2>3, <2>4 DEF StageAgrees, Untouched
  <2>6. \A i \in ScansOf(c.row)' : Alone(i)' => c.id = i
    BY <1>1, <2>2, AloneStays DEF ScansOf
  <2> QED BY <2>1, <2>2, <2>5, <2>6
<1>4. ASSUME NEW t \in Slots, call'[t].pc = "ok", call'[t].id # 0
      PROVE  Settled(call[t].id)' /\ scans'[call'[t].id].device = call'[t].row
  <2>1. PICK c : c = call[t] /\ c = call'[t]
    BY <1>4
  <2>2. Settled(c.id) /\ scans[c.id].device = c.row /\ c.id \in Nat
    BY <1>4, <2>1 DEF IInv, TypeOK, CallType, KeepersAgree
  <2>3. Settled(c.id)'
    BY <1>2, <2>2
  <2> QED BY <2>1, <2>2, <2>3
<1> QED BY <1>2, <1>3, <1>4 DEF KeepersAgree, SyncsStay

\* A step of a sync that writes tables for its own device alone.
LEMMA KeeperStep ==
    ASSUME IInv, KeepersAgree, NEW t \in Slots, NEW c \in CallType,
           call' = [call EXCEPT ![t] = c],
           call[t].pc \in Keeping, c.pc \in Keeping \cup {"ok"},
           c.id = call[t].id, c.row = call[t].row,
           SameScans,
           \A i \in DOMAIN scans : scans[i].device # c.row => Untouched(scans[i].device),
           c.pc \in Keeping => StageAgrees(c)',
           c.pc = "ok" /\ Alone(c.id)' => Agreed(c.id)'
    PROVE  KeepersAgree' /\ SyncsStay
<1>1. /\ call'[t] = c
      /\ \A u \in Slots : u # t => call'[u] = call[u]
      /\ \A u \in Slots : u # t /\ call[u].pc \in Keeping => call[u].id # c.id
      /\ c.id \in DOMAIN scans
      /\ scans[c.id].device = c.row
      /\ \A i \in ScansOf(c.row) : Alone(i) => c.id = i
  BY DEF IInv, TypeOK, CallInv, CallOK, StageOK, KeepersAgree
<1>2. \A i \in DOMAIN scans : Alone(i) /\ i # c.id => Untouched(scans[i].device)
  BY <1>1 DEF ScansOf
<1>3. ASSUME NEW i \in Nat, Settled(i) PROVE Settled(i)'
  <2>1. i # c.id /\ i \in DOMAIN scans
    BY <1>3 DEF Settled
  <2>2. \A u \in Slots : call'[u].pc \in Keeping => call'[u].id # i
    BY <1>1, <1>3, <2>1 DEF Settled
  <2> QED BY <1>2, <1>3, <2>1, <2>2, SettledStays
<1>4. ASSUME c.pc \in Keeping
      PROVE  /\ scans'[c.id].device = c.row
             /\ StageAgrees(c)'
             /\ \A i \in ScansOf(c.row)' : Alone(i)' => c.id = i
  BY <1>1, <1>4, AloneStays DEF SameScans, ScansOf
<1>5. ASSUME NEW u \in Slots, u # t, NEW d, d = call[u], d.pc \in Keeping
      PROVE  /\ scans'[d.id].device = d.row
             /\ StageAgrees(d)'
             /\ \A i \in ScansOf(d.row)' : Alone(i)' => d.id = i
  <2>1. /\ d.id \in DOMAIN scans /\ scans[d.id].device = d.row
        /\ StageAgrees(d)
        /\ \A i \in ScansOf(d.row) : Alone(i) => d.id = i
        /\ d.id # c.id
    BY <1>1, <1>5 DEF IInv, CallInv, CallOK, StageOK, KeepersAgree
  <2>2. \A i \in ScansOf(d.row)' : Alone(i)' => d.id = i
    BY <2>1, AloneStays DEF ScansOf
  <2>3. (Alone(d.id)' <=> Alone(d.id)) /\ Recommends(d.id)' = Recommends(d.id)
    BY <2>1, AloneStays
  <2>4. ASSUME Alone(d.id)
        PROVE  /\ getLiveRecommendations(d.row)' = getLiveRecommendations(d.row)
               /\ device'[d.row].summary = device[d.row].summary
    <3>1. Untouched(d.row)
      BY <1>2, <2>1, <2>4
    <3> QED BY <3>1, AdviceStays DEF Untouched
  <2>5. StageAgrees(d)'
    BY <2>1, <2>3, <2>4 DEF StageAgrees
  <2> QED BY <2>1, <2>2, <2>5 DEF SameScans
<1>6. ASSUME c.pc = "ok" PROVE Settled(c.id)' /\ scans'[c.id].device = c.row
  <2>1. \A u \in Slots : call'[u].pc \in Keeping => call'[u].id # c.id
    BY <1>1, <1>6 DEF Keeping
  <2> QED BY <1>1, <1>6, <2>1 DEF Settled, SameScans
<1>7. ASSUME NEW u \in Slots, u # t, NEW d, d = call[u], d.pc = "ok", d.id # 0
      PROVE  Settled(d.id)' /\ scans'[d.id].device = d.row
  <2>1. Settled(d.id) /\ scans[d.id].device = d.row /\ d.id \in Nat
    BY <1>7 DEF KeepersAgree, IInv, TypeOK, CallType
  <2> QED BY <1>3, <2>1 DEF Settled, SameScans
<1>8. ASSUME NEW u \in Slots, call'[u].pc \in Keeping
      PROVE  /\ scans'[call'[u].id].device = call'[u].row
             /\ StageAgrees(call[u])'
             /\ \A i \in ScansOf(call[u].row)' : Alone(i)' => call'[u].id = i
  <2>1. CASE u = t
    BY <1>1, <1>4, <1>8, <2>1 DEF StageAgrees, ScansOf
  <2>2. CASE u # t
    BY <1>1, <1>5, <1>8, <2>2 DEF StageAgrees, ScansOf
  <2> QED BY <2>1, <2>2
<1>9. ASSUME NEW u \in Slots, call'[u].pc = "ok", call'[u].id # 0
      PROVE  Settled(call[u].id)' /\ scans'[call'[u].id].device = call'[u].row
  <2>1. PICK e : e = call'[u]
    OBVIOUS
  <2>2. Settled(e.id)' /\ scans'[e.id].device = e.row
    BY <1>1, <1>6, <1>7, <1>9, <2>1
  <2> QED BY <2>1, <2>2 DEF Settled
<1> QED BY <1>3, <1>8, <1>9 DEF KeepersAgree, SyncsStay, SameScans

LEMMA SyncItemsAgrees ==
    ASSUME IInv, KeepersAgree, NEW t \in Slots, SyncItems(t)
    PROVE  KeepersAgree' /\ SyncsStay
<1>n. PICK n : n = call[t].id
  OBVIOUS
<1> DEFINE todo == Filled(call[t].scan.found) \ scans[n].parts
<1>1. PICK s \in todo :
        /\ scans' = [scans EXCEPT ![n].parts = @ \cup {s}]
        /\ call' = [call EXCEPT ![t].pc = IF todo = {s} THEN "resolve" ELSE "items"]
        /\ UNCHANGED device
  BY <1>n DEF SyncItems
<1>c. PICK c : c = [call[t] EXCEPT !.pc = IF todo = {s} THEN "resolve" ELSE "items"]
  OBVIOUS
<1>2. /\ call[t] \in CallType /\ call[t].pc = "items" /\ n \in DOMAIN scans
      /\ scans \in Seq(RowType)
  BY <1>n DEF IInv, TypeOK, CallInv, CallOK, StageOK, SyncItems, Keeping
<1>3. /\ call' = [call EXCEPT ![t] = c]
      /\ c \in CallType /\ c.row = call[t].row /\ c.id = n /\ c.pc \in {"items", "resolve"}
  BY <1>n, <1>c, <1>1, <1>2 DEF CallType, Serving, IInv, TypeOK
<1>4. /\ SameScans
      /\ \A i \in DOMAIN scans : scans'[i].advice = scans[i].advice
  BY <1>1, <1>2 DEF SameScans, RowType
<1>5. \A i \in DOMAIN scans : Untouched(scans[i].device)
  BY <1>1, <1>4 DEF Untouched
<1>6. StageAgrees(c)'
  BY <1>3 DEF StageAgrees
<1> QED BY <1>n, <1>2, <1>3, <1>4, <1>5, <1>6, KeeperStep DEF Keeping

LEMMA SyncResolveAgrees ==
    ASSUME IInv, KeepersAgree, NEW t \in Slots, SyncResolve(t)
    PROVE  KeepersAgree' /\ SyncsStay
<1>n. PICK n : n = call[t].id
  OBVIOUS
<1> DEFINE found == call[t].scan.found
<1>c. PICK c : c = [call[t] EXCEPT !.pc = IF Advised(found) = {} THEN "summary" ELSE "advise"]
  OBVIOUS
<1>1. /\ call[t] \in CallType /\ call[t].pc = "resolve"
      /\ n \in DOMAIN scans /\ scans[n].scan.found = found
      /\ scans \in Seq(RowType)
  BY <1>n DEF IInv, TypeOK, CallInv, CallOK, StageOK, SyncResolve, Keeping
<1>2. /\ call' = [call EXCEPT ![t] = c]
      /\ c \in CallType /\ c.row = call[t].row /\ c.id = n
      /\ c.pc = IF Advised(found) = {} THEN "summary" ELSE "advise"
  BY <1>n, <1>c, <1>1 DEF CallType, Serving, IInv, TypeOK, SyncResolve
<1>3. /\ SameScans
      /\ \A i \in DOMAIN scans : scans[i].device # call[t].row => scans'[i].advice = scans[i].advice
      /\ \A i \in DOMAIN scans : scans[i].device = call[t].row => scans'[i].advice # "open"
  <2>1. scans' = [i \in DOMAIN scans |->
            IF scans[i].device = call[t].row /\ scans[i].advice = "open"
            THEN [scans[i] EXCEPT !.advice = "resolved"] ELSE scans[i]]
    BY DEF SyncResolve
  <2>2. \A i \in DOMAIN scans : scans[i] \in RowType
    BY <1>1
  <2> QED BY <2>1, <2>2 DEF SameScans, RowType
<1>4. \A i \in DOMAIN scans : scans[i].device # call[t].row => Untouched(scans[i].device)
  BY <1>3 DEF Untouched, SyncResolve
<1>5. getLiveRecommendations(c.row)' = {}
  BY <1>2, <1>3 DEF getLiveRecommendations, ScansOf, SameScans
<1>6. Advised(found) = {} => Recommends(c.id)' = {}
  BY <1>1, <1>2, <1>3 DEF Recommends, SameScans
<1>7. StageAgrees(c)'
  BY <1>2, <1>5, <1>6 DEF StageAgrees
<1> QED BY <1>n, <1>1, <1>2, <1>3, <1>4, <1>7, KeeperStep DEF Keeping

LEMMA SyncAdviseAgrees ==
    ASSUME IInv, KeepersAgree, NEW t \in Slots, SyncAdvise(t)
    PROVE  KeepersAgree' /\ SyncsStay
<1>n. PICK n : n = call[t].id
  OBVIOUS
<1>c. PICK c : c = [call[t] EXCEPT !.pc = "summary"]
  OBVIOUS
<1>1. /\ call[t] \in CallType /\ call[t].pc = "advise"
      /\ n \in DOMAIN scans /\ Advised(scans[n].scan.found) # {}
      /\ scans \in Seq(RowType)
      /\ scans[n].device = call[t].row
      /\ Alone(n) => getLiveRecommendations(call[t].row) = {}
  BY <1>n DEF IInv, TypeOK, CallInv, CallOK, StageOK, SyncAdvise, Keeping, KeepersAgree, StageAgrees
<1>2. /\ call' = [call EXCEPT ![t] = c]
      /\ c \in CallType /\ c.row = call[t].row /\ c.id = n /\ c.pc = "summary"
  BY <1>n, <1>c, <1>1 DEF CallType, Serving, IInv, TypeOK, SyncAdvise
<1>3. /\ SameScans
      /\ \A i \in DOMAIN scans : i # n => scans'[i].advice = scans[i].advice
      /\ scans'[n].advice = "open"
  <2>1. scans' = [scans EXCEPT ![n].advice = "open"]
    BY <1>n DEF SyncAdvise
  <2>2. /\ scans[n] \in RowType
        /\ \A i \in DOMAIN scans : i # n => scans'[i] = scans[i]
        /\ scans'[n] = [scans[n] EXCEPT !.advice = "open"]
        /\ DOMAIN scans' = DOMAIN scans
    BY <1>1, <2>1
  <2> QED BY <2>2 DEF SameScans, RowType
<1>4. \A i \in DOMAIN scans : scans[i].device # call[t].row => Untouched(scans[i].device)
  BY <1>1, <1>3 DEF Untouched, SyncAdvise
<1>5. ASSUME Alone(n) PROVE getLiveRecommendations(c.row)' = {n}
  BY <1>1, <1>2, <1>3, <1>5 DEF getLiveRecommendations, ScansOf, SameScans
<1>6. (Alone(n)' <=> Alone(n)) /\ Recommends(n)' = {n}
  BY <1>1, <1>3, AloneStays DEF Recommends
<1>7. StageAgrees(c)'
  BY <1>2, <1>5, <1>6 DEF StageAgrees
<1> QED BY <1>n, <1>1, <1>2, <1>3, <1>4, <1>7, KeeperStep DEF Keeping

LEMMA SyncSummaryAgrees ==
    ASSUME IInv, KeepersAgree, NEW t \in Slots, SyncSummary(t)
    PROVE  KeepersAgree' /\ SyncsStay
<1>n. PICK n : n = call[t].id
  OBVIOUS
<1>c. PICK c : c = [call[t] EXCEPT !.pc = "touch"]
  OBVIOUS
<1>1. /\ call[t] \in CallType /\ call[t].pc = "summary"
      /\ n \in DOMAIN scans /\ call[t].row \in Rows
      /\ Alone(n) => getLiveRecommendations(call[t].row) = Recommends(n)
  BY <1>n DEF IInv, TypeOK, CallInv, CallOK, StageOK, SyncSummary, Keeping, Syncing, Fits, KeepersAgree,
     StageAgrees
<1>2. /\ call' = [call EXCEPT ![t] = c]
      /\ c \in CallType /\ c.row = call[t].row /\ c.id = n /\ c.pc = "touch"
  BY <1>n, <1>c, <1>1 DEF CallType, Serving, IInv, TypeOK, SyncSummary
<1>3. /\ SameScans /\ UNCHANGED scans
      /\ device'[call[t].row].summary = n
      /\ \A r : r # call[t].row => device'[r] = device[r]
  BY <1>n, <1>c, <1>1 DEF SameScans, SyncSummary, IInv, TypeOK
<1>4. \A i \in DOMAIN scans : scans[i].device # call[t].row => Untouched(scans[i].device)
  BY <1>3 DEF Untouched
<1>5. /\ Alone(n)' <=> Alone(n)
      /\ Recommends(n)' = Recommends(n)
      /\ getLiveRecommendations(c.row)' = getLiveRecommendations(c.row)
  BY <1>1, <1>3, AloneStays DEF getLiveRecommendations, ScansOf
<1>6. StageAgrees(c)'
  BY <1>1, <1>2, <1>3, <1>5 DEF StageAgrees
<1> QED BY <1>n, <1>1, <1>2, <1>3, <1>4, <1>6, KeeperStep DEF Keeping

LEMMA SyncTouchAgrees ==
    ASSUME IInv, KeepersAgree, NEW t \in Slots, SyncTouch(t)
    PROVE  KeepersAgree' /\ SyncsStay
<1>n. PICK n : n = call[t].id
  OBVIOUS
<1>c. PICK c : c = [call[t] EXCEPT !.pc = "ok"]
  OBVIOUS
<1>1. /\ call[t] \in CallType /\ call[t].pc = "touch"
      /\ n \in DOMAIN scans /\ scans[n].device = call[t].row
      /\ Alone(n) => Agreed(n)
  BY <1>n DEF IInv, TypeOK, CallInv, CallOK, StageOK, SyncTouch, Keeping, KeepersAgree, StageAgrees, Agreed
<1>2. /\ call' = [call EXCEPT ![t] = c]
      /\ c \in CallType /\ c.row = call[t].row /\ c.id = n /\ c.pc = "ok"
  BY <1>n, <1>c, <1>1 DEF CallType, IInv, TypeOK, SyncTouch
<1>3. /\ SameScans /\ UNCHANGED <<scans, device>>
      /\ \A i \in DOMAIN scans : Untouched(scans[i].device)
  BY <1>n, <1>c DEF SameScans, SyncTouch, Untouched
<1>4. Alone(c.id)' => Agreed(c.id)'
  BY <1>1, <1>2, <1>3 DEF Alone, Agreed, Recommends, getLiveRecommendations, ScansOf
<1> QED BY <1>n, <1>1, <1>2, <1>3, <1>4, KeeperStep DEF Keeping

\* A new scan row takes the place of its device's newest.
LEMMA SyncScanAgrees ==
    ASSUME IInv, KeepersAgree, NEW t \in Slots, SyncScan(t)
    PROVE  KeepersAgree' /\ SyncsStay
<1> DEFINE r == call[t].row
<1>0. PICK n \in Nat : n = Len(scans) + 1
  BY DEF IInv, TypeOK
<1>c. PICK c : c = [call[t] EXCEPT !.id = n,
                     !.pc = IF Filled(call[t].scan.found) = {} THEN "resolve" ELSE "items"]
  OBVIOUS
<1> DEFINE x == [device |-> r, scan |-> call[t].scan, parts |-> {}, advice |-> "none",
                 beside |-> IF Storing(r) = {} THEN "none" ELSE "other"]
<1>1. /\ scans \in Seq(RowType) /\ scans' = Append(scans, x) /\ UNCHANGED device
      /\ call[t] \in CallType
      /\ x \in RowType
  BY DEF SyncScan, IInv, TypeOK, CallInv, CallOK, Syncing, Fits, RowType
<1>2. /\ DOMAIN scans' = DOMAIN scans \cup {n}
      /\ scans'[n] = x
      /\ \A i \in DOMAIN scans : i \in Nat /\ i < n /\ scans'[i] = scans[i]
      /\ n \notin DOMAIN scans
      /\ Len(scans') = n
  BY <1>0, <1>1
<1>3. /\ call'[t] = c /\ c.id = n /\ c.row = r /\ c.pc \in {"resolve", "items"}
      /\ \A u \in Slots : u # t => call'[u] = call[u]
  BY <1>c, <1>1, <1>2 DEF SyncScan, IInv, TypeOK, CallType
<1>x. x.device = r /\ x.advice = "none" /\ (x.beside = "none" => Storing(r) = {})
  OBVIOUS
<1> HIDE DEF x
<1>4. ASSUME NEW i \in DOMAIN scans, Alone(i)' PROVE Alone(i) /\ scans[i].device # r
  <2>1. \A j \in ScansOf(scans[i].device)' : j <= i
    BY <1>2, <1>4 DEF Alone, ScansOf
  <2>2. scans[i].device # r
    BY <1>2, <1>x, <2>1 DEF ScansOf
  <2>3. \A j \in ScansOf(scans[i].device) : j <= i
    BY <1>2, <1>4 DEF ScansOf, Alone
  <2> QED BY <1>2, <1>4, <2>2, <2>3 DEF Alone
<1>5. \A q : getLiveRecommendations(q)' = getLiveRecommendations(q)
  BY <1>2, <1>x DEF getLiveRecommendations, ScansOf
<1>6. \A i \in DOMAIN scans : Recommends(i)' = Recommends(i)
  BY <1>2 DEF Recommends
<1>7. ASSUME NEW i \in Nat, Settled(i) PROVE Settled(i)'
  <2>1. i \in DOMAIN scans /\ i # n
    BY <1>2, <1>7 DEF Settled
  <2>2. ASSUME Alone(i)' PROVE Agreed(i)'
    BY <1>1, <1>2, <1>4, <1>5, <1>6, <1>7, <2>1, <2>2 DEF Settled, Agreed
  <2>3. \A u \in Slots : call'[u].pc \in Keeping => call'[u].id # i
    BY <1>3, <1>7, <2>1 DEF Settled
  <2> QED BY <1>2, <2>1, <2>2, <2>3 DEF Settled
<1>8. /\ scans'[c.id].device = c.row
      /\ StageAgrees(c)'
      /\ \A i \in ScansOf(c.row)' : Alone(i)' => c.id = i
  <2>1. StageAgrees(c)'
    BY <1>3 DEF StageAgrees
  <2>2. \A i \in ScansOf(c.row)' : Alone(i)' => c.id = i
    BY <1>2, <1>3, <1>4 DEF ScansOf
  <2> QED BY <1>2, <1>3, <1>x, <2>1, <2>2
<1>9. ASSUME NEW u \in Slots, u # t, NEW d, d = call[u], d.pc \in Keeping
      PROVE  /\ scans'[d.id].device = d.row
             /\ StageAgrees(d)'
             /\ \A i \in ScansOf(d.row)' : Alone(i)' => d.id = i
  <2>1. /\ d.id \in DOMAIN scans /\ scans[d.id].device = d.row
        /\ StageAgrees(d)
        /\ \A i \in ScansOf(d.row) : Alone(i) => d.id = i
    BY <1>9 DEF IInv, CallInv, CallOK, StageOK, KeepersAgree
  <2>2. StageAgrees(d)'
    BY <1>1, <1>4, <1>5, <1>6, <2>1 DEF StageAgrees
  <2>3. Alone(n)' => d.row # r
    BY <1>2, <1>9, <1>x DEF Alone, Storing, Keeping
  <2>4. ASSUME NEW i \in ScansOf(d.row)', Alone(i)' PROVE d.id = i
    <3>1. CASE i = n
      BY <1>2, <1>x, <2>3, <2>4, <3>1 DEF ScansOf
    <3>2. CASE i \in DOMAIN scans
      BY <1>2, <1>4, <2>1, <2>4, <3>2 DEF ScansOf
    <3> QED BY <1>2, <2>4, <3>1, <3>2 DEF ScansOf
  <2> QED BY <1>2, <2>1, <2>2, <2>4
<1>10. ASSUME NEW u \in Slots, u # t, NEW d, d = call[u], d.pc = "ok", d.id # 0
       PROVE  Settled(d.id)' /\ scans'[d.id].device = d.row
  <2>1. Settled(d.id) /\ scans[d.id].device = d.row /\ d.id \in Nat
    BY <1>10 DEF KeepersAgree, IInv, TypeOK, CallType
  <2> QED BY <1>2, <1>7, <2>1 DEF Settled
<1>11. ASSUME NEW u \in Slots, call'[u].pc \in Keeping
       PROVE  /\ scans'[call'[u].id].device = call'[u].row
              /\ StageAgrees(call[u])'
              /\ \A i \in ScansOf(call[u].row)' : Alone(i)' => call'[u].id = i
  <2>1. CASE u = t
    BY <1>3, <1>8, <1>11, <2>1 DEF StageAgrees, ScansOf
  <2>2. CASE u # t
    BY <1>3, <1>9, <1>11, <2>2 DEF StageAgrees, ScansOf
  <2> QED BY <2>1, <2>2
<1>12. ASSUME NEW u \in Slots, call'[u].pc = "ok", call'[u].id # 0
       PROVE  Settled(call[u].id)' /\ scans'[call'[u].id].device = call'[u].row
  <2>1. PICK e : e = call'[u]
    OBVIOUS
  <2>2. Settled(e.id)' /\ scans'[e.id].device = e.row
    BY <1>3, <1>10, <1>12, <2>1
  <2> QED BY <2>1, <2>2 DEF Settled
<1>13. SyncsStay
  BY <1>2, <1>7 DEF SyncsStay
<1> QED BY <1>11, <1>12, <1>13 DEF KeepersAgree

\* A call that is no sync between its scan row and its answer disturbs none.
LEMMA CallOutside ==
    ASSUME IInv, NEW t \in Slots, NEW c, call' = [call EXCEPT ![t] = c],
           c.pc \notin Keeping, c.pc = "ok" => c.id = 0
    PROVE  \A u \in Slots :
              call'[u].pc \in Keeping \/ (call'[u].pc = "ok" /\ call'[u].id # 0)
                 => call'[u] = call[u]
<1>1. call'[t] = c /\ \A u \in Slots : u # t => call'[u] = call[u]
  BY DEF IInv, TypeOK
<1> QED BY <1>1

\* No step of the server unsettles a sync that has ended: a provisional device
\* that is cleaned up has no scans.
LEMMA ServerSettles ==
    ASSUME IInv, KeepersAgree, ScansArePaired, ServerNext
    PROVE  KeepersAgree' /\ SyncsStay
<1>1. device \in [Rows -> DeviceType] /\ call \in [Slots -> CallType]
  BY DEF IInv, TypeOK
<1>2. ASSUME UNCHANGED <<device, scans, call>> PROVE KeepersAgree' /\ SyncsStay
  BY <1>2, QuietStep
<1>3. ASSUME NEW p \in Panels, StartDevice(p) PROVE KeepersAgree' /\ SyncsStay
  <2>1. UNCHANGED <<scans, call>> /\ \A r \in Rows : device'[r].summary = device[r].summary
    BY <1>1, <1>3 DEF StartDevice, DeviceType
  <2> QED BY <2>1, QuietStep DEF ScansArePaired
<1>4. ASSUME NEW p \in Panels, StartCleanup(p) PROVE KeepersAgree' /\ SyncsStay
  <2>1. start[p].row \in Rows /\ pairing[start[p].row].token = 0
    BY <1>4 DEF IInv, StartInv, StartOK, RowInv, StartCleanup, Held
  <2>2. UNCHANGED <<scans, call>>
        /\ \A r \in Rows : r # start[p].row => device'[r] = device[r]
    BY <1>1, <1>4 DEF StartCleanup
  <2>3. \A i \in DOMAIN scans : device'[scans[i].device] = device[scans[i].device]
    BY <2>1, <2>2 DEF ScansArePaired
  <2> QED BY <2>2, <2>3, QuietStep
<1>5. ASSUME NEW t \in Slots,
             NEW c, call' = [call EXCEPT ![t] = c], c.pc \notin Keeping, c.pc = "ok" => c.id = 0,
             UNCHANGED scans, \A r \in Rows : device'[r].summary = device[r].summary
      PROVE  KeepersAgree' /\ SyncsStay
  BY <1>5, CallOutside, QuietStep DEF ScansArePaired
<1>6. ASSUME NEW t \in Slots, CompleteLookup(t) PROVE KeepersAgree' /\ SyncsStay
  <2>1. ASSUME NEW r \in Rows, call' = [call EXCEPT ![t].pc = "device", ![t].row = r]
        PROVE  KeepersAgree' /\ SyncsStay
    <3>1. PICK c : c = [call[t] EXCEPT !.pc = "device", !.row = r]
      OBVIOUS
    <3>2. call' = [call EXCEPT ![t] = c] /\ c.pc = "device"
      BY <1>1, <2>1, <3>1 DEF CallType
    <3> QED BY <1>5, <1>6, <3>2 DEF CompleteLookup, Keeping
  <2>2. ASSUME call' = [call EXCEPT ![t].pc = "failed"] PROVE KeepersAgree' /\ SyncsStay
    <3>1. PICK c : c = [call[t] EXCEPT !.pc = "failed"]
      OBVIOUS
    <3>2. call' = [call EXCEPT ![t] = c] /\ c.pc = "failed"
      BY <1>1, <2>2, <3>1 DEF CallType
    <3> QED BY <1>5, <1>6, <3>2 DEF CompleteLookup, Keeping
  <2> QED BY <1>6, <2>1, <2>2 DEF CompleteLookup
<1>7. ASSUME NEW t \in Slots, CompleteDevice(t) PROVE KeepersAgree' /\ SyncsStay
  <2>1. PICK c : c = [call[t] EXCEPT !.pc = "pair"]
    OBVIOUS
  <2>2. call' = [call EXCEPT ![t] = c] /\ c.pc = "pair" /\ UNCHANGED scans
    BY <1>1, <1>7, <2>1 DEF CallType, CompleteDevice
  <2>3. \A r \in Rows : device'[r].summary = device[r].summary
    BY <1>1, <1>7 DEF CompleteDevice, DeviceType
  <2> QED BY <1>5, <2>2, <2>3 DEF Keeping
<1>8. ASSUME NEW t \in Slots, CompletePairing(t) PROVE KeepersAgree' /\ SyncsStay
  <2>1. PICK c : c = [call[t] EXCEPT !.pc = "ok", !.token = Len(tokens')]
    OBVIOUS
  <2>2. call' = [call EXCEPT ![t] = c] /\ c.pc = "ok" /\ c.id = call[t].id /\ UNCHANGED <<scans, device>>
    BY <1>1, <1>8, <2>1 DEF CallType, CompletePairing
  <2>3. call[t].id = 0
    BY <1>8 DEF IInv, CallInv, CallOK, CompletePairing
  <2> QED BY <1>5, <2>2, <2>3 DEF Keeping
<1>9. ASSUME NEW t \in Slots, SyncLookup(t) PROVE KeepersAgree' /\ SyncsStay
  <2>1. PICK c : c = [call[t] EXCEPT !.pc =
            IF pairing[call[t].row].token = call[t].token THEN "print" ELSE "failed"]
    OBVIOUS
  <2>2. call' = [call EXCEPT ![t] = c] /\ c.pc \in {"print", "failed"} /\ UNCHANGED <<scans, device>>
    BY <1>1, <1>9, <2>1 DEF CallType, SyncLookup
  <2> QED BY <1>5, <2>2 DEF Keeping
<1>10. ASSUME NEW t \in Slots, SyncDevice(t) PROVE KeepersAgree' /\ SyncsStay
  <2>1. PICK c : c = [call[t] EXCEPT !.pc =
            IF device[call[t].row].print \in {None, Home[t]} THEN "scan" ELSE "failed"]
    OBVIOUS
  <2>2. call' = [call EXCEPT ![t] = c] /\ c.pc \in {"scan", "failed"} /\ UNCHANGED <<scans, device>>
    BY <1>1, <1>10, <2>1 DEF CallType, SyncDevice
  <2> QED BY <1>5, <2>2 DEF Keeping
<1>11. ASSUME NEW t \in Slots, CallFails(t) PROVE KeepersAgree' /\ SyncsStay
  <2>1. PICK c : c = [call[t] EXCEPT !.pc = "failed"]
    OBVIOUS
  <2>2. call' = [call EXCEPT ![t] = c] /\ c.pc = "failed" /\ UNCHANGED <<scans, device>>
    BY <1>1, <1>11, <2>1 DEF CallType, CallFails
  <2> QED BY <1>5, <2>2 DEF Keeping
<1> QED BY <1>2, <1>3, <1>4, <1>6, <1>7, <1>8, <1>9, <1>10, <1>11, SyncScanAgrees, SyncItemsAgrees,
           SyncResolveAgrees, SyncAdviseAgrees, SyncSummaryAgrees, SyncTouchAgrees
    DEF ServerNext, StartCode, StartRefused, StartFails, Expire

LEMMA FileAgreesStays ==
    ASSUME SyncsStay, NEW f \in FileType, FileAgrees(f)
    PROVE  FileAgrees(f)'
<1> SUFFICES ASSUME f.synced # 0
             PROVE  /\ Settled(f.synced)'
                    /\ scans'[f.synced].device = f.row \/ \A j \in ScansOf(f.row)' : j > f.synced
  BY DEF FileAgrees
<1>1. /\ Settled(f.synced) /\ f.synced \in Nat
      /\ scans[f.synced].device = f.row \/ \A j \in ScansOf(f.row) : j > f.synced
  BY DEF FileAgrees, FileType
<1>2. Settled(f.synced)'
  BY <1>1 DEF SyncsStay
<1>3. f.synced \in DOMAIN scans
  BY <1>1 DEF Settled
<1>4. CASE scans[f.synced].device = f.row
  BY <1>2, <1>3, <1>4 DEF SyncsStay
<1>5. CASE \A j \in ScansOf(f.row) : j > f.synced
  BY <1>2, <1>3, <1>5 DEF SyncsStay, ScansOf
<1> QED BY <1>1, <1>4, <1>5

LEMMA ServerFilesAgree ==
    ASSUME IInv, SyncsStay, FilesAgree, UNCHANGED agentVars
    PROVE  FilesAgree'
<1>1. UNCHANGED <<config, task>>
  BY DEF agentVars
<1>2. ASSUME NEW m \in Machines, config'[m] # Torn PROVE FileAgrees(config[m])'
  <2>1. PICK f \in FileType : f = config[m] /\ f = config'[m]
    BY <1>1, <1>2 DEF IInv, TypeOK
  <2>2. FileAgrees(f)'
    BY <1>1, <1>2, <2>1, FileAgreesStays DEF FilesAgree
  <2> QED BY <2>1, <2>2 DEF FileAgrees
<1>3. ASSUME NEW t \in Slots PROVE FileAgrees(task[t].file)'
  <2>1. PICK f \in FileType : f = task[t].file /\ f = task'[t].file
    BY <1>1 DEF IInv, TypeOK, TaskType
  <2>2. FileAgrees(f)'
    BY <2>1, FileAgreesStays DEF FilesAgree
  <2> QED BY <2>1, <2>2 DEF FileAgrees
<1> QED BY <1>2, <1>3 DEF FilesAgree

\* A code is completed for a row that is not paired, so all its scans will be
\* newer than what the file has recorded.
LEMMA ServerTasksAgree ==
    ASSUME IInv, AgreeInv, SyncsStay, ServerNext, UNCHANGED agentVars
    PROVE  TasksAgree'
<1>1. /\ UNCHANGED task
      /\ call \in [Slots -> CallType]
      /\ scans \in Seq(RowType)
  BY DEF agentVars, IInv, TypeOK
<1>2. ASSUME NEW u \in Slots, NEW r, \A j \in ScansOf(r) : j > task[u].file.synced
      PROVE  \A j \in ScansOf(r)' : j > task[u].file.synced
  <2>1. PICK s \in Nat : s = task[u].file.synced
    BY DEF IInv, TypeOK, TaskType, FileType
  <2>2. s # 0 => s \in DOMAIN scans
    BY <2>1 DEF AgreeInv, FilesAgree, FileAgrees, Settled
  <2>3. DOMAIN scans' \subseteq Nat \ {0}
    BY StepOK DEF Next, IInv, TypeOK
  <2> QED BY <1>2, <2>1, <2>2, <2>3 DEF SyncsStay, ScansOf
<1>3. ASSUME NEW u \in Slots, call'[u] = call[u]
      PROVE  /\ task[u].pc = "pairing" =>
                  /\ call'[u].pc \in {"lookup", "device", "pair", "ok", "failed"}
                  /\ call'[u].pc \in {"device", "pair", "ok"} =>
                        \A j \in ScansOf(call[u].row)' : j > task[u].file.synced
             /\ task[u].pc = "syncing" =>
                  call'[u].pc \in Syncing \cup {"ok", "failed"} /\ call'[u].row = task[u].file.row
  <2>1. PICK c : c = call[u] /\ c = call'[u]
    BY <1>3
  <2>2. task[u].pc = "pairing" /\ c.pc \in {"device", "pair", "ok"} =>
            \A j \in ScansOf(c.row)' : j > task[u].file.synced
    BY <1>2, <2>1 DEF AgreeInv, TasksAgree
  <2> QED BY <2>1, <2>2 DEF AgreeInv, TasksAgree, ScansOf
<1>4. ASSUME NEW t \in Slots, NEW c, call' = [call EXCEPT ![t] = c], c.row = call[t].row,
             \/ call[t].pc = "device" /\ c.pc = "pair"
             \/ call[t].pc = "pair" /\ c.pc = "ok"
             \/ call[t].pc \in Syncing /\ c.pc \in Syncing \cup {"ok"}
             \/ c.pc = "failed"
      PROVE  TasksAgree'
  <2>1. call'[t] = c /\ \A u \in Slots : u # t => call'[u] = call[u]
    BY <1>1, <1>4
  <2>2. task[t].pc = "pairing" =>
            /\ c.pc \in {"lookup", "device", "pair", "ok", "failed"}
            /\ c.pc \in {"device", "pair", "ok"} =>
                  \A j \in ScansOf(c.row)' : j > task[t].file.synced
    BY <1>2, <1>4 DEF AgreeInv, TasksAgree, Syncing, Keeping
  <2>3. task[t].pc = "syncing" =>
            c.pc \in Syncing \cup {"ok", "failed"} /\ c.row = task[t].file.row
    BY <1>4 DEF AgreeInv, TasksAgree, Syncing, Keeping
  <2> QED BY <1>1, <1>3, <2>1, <2>2, <2>3 DEF TasksAgree, ScansOf
<1>5. ASSUME UNCHANGED call PROVE TasksAgree'
  BY <1>1, <1>3, <1>5 DEF TasksAgree
<1>6. ASSUME NEW t \in Slots, CompleteLookup(t) PROVE TasksAgree'
  <2>1. ASSUME NEW r \in Rows, pairing[r].token = 0,
               call' = [call EXCEPT ![t].pc = "device", ![t].row = r]
        PROVE  TasksAgree'
    <3>1. ScansOf(r)' = {}
      BY <1>6, <2>1 DEF CompleteLookup, ScansOf, AgreeInv, ScansArePaired
    <3>2. /\ call'[t].pc = "device" /\ call'[t].row = r /\ call[t].pc = "lookup"
          /\ \A u \in Slots : u # t => call'[u] = call[u]
      BY <1>1, <1>6, <2>1 DEF CallType, CompleteLookup
    <3>3. task[t].pc # "syncing"
      BY <1>6 DEF AgreeInv, TasksAgree, CompleteLookup, Syncing, Keeping
    <3> QED BY <1>1, <1>3, <3>1, <3>2, <3>3 DEF TasksAgree, ScansOf
  <2>2. ASSUME call' = [call EXCEPT ![t].pc = "failed"] PROVE TasksAgree'
    <3>1. PICK c : c = [call[t] EXCEPT !.pc = "failed"]
      OBVIOUS
    <3>2. call' = [call EXCEPT ![t] = c] /\ c.pc = "failed" /\ c.row = call[t].row
      BY <1>1, <2>2, <3>1 DEF CallType
    <3> QED BY <1>4, <3>2
  <2> QED BY <1>6, <2>1, <2>2 DEF CompleteLookup
<1>7. ASSUME NEW t \in Slots, CompleteDevice(t) PROVE TasksAgree'
  <2>1. PICK c : c = [call[t] EXCEPT !.pc = "pair"]
    OBVIOUS
  <2>2. call' = [call EXCEPT ![t] = c] /\ c.pc = "pair" /\ c.row = call[t].row /\ call[t].pc = "device"
    BY <1>1, <1>7, <2>1 DEF CallType, CompleteDevice
  <2> QED BY <1>4, <2>2
<1>8. ASSUME NEW t \in Slots, CompletePairing(t) PROVE TasksAgree'
  <2>1. PICK c : c = [call[t] EXCEPT !.pc = "ok", !.token = Len(tokens')]
    OBVIOUS
  <2>2. call' = [call EXCEPT ![t] = c] /\ c.pc = "ok" /\ c.row = call[t].row /\ call[t].pc = "pair"
    BY <1>1, <1>8, <2>1 DEF CallType, CompletePairing
  <2> QED BY <1>4, <2>2
<1>9. ASSUME NEW t \in Slots, CallFails(t) PROVE TasksAgree'
  <2>1. PICK c : c = [call[t] EXCEPT !.pc = "failed"]
    OBVIOUS
  <2>2. call' = [call EXCEPT ![t] = c] /\ c.pc = "failed" /\ c.row = call[t].row
    BY <1>1, <1>9, <2>1 DEF CallType, CallFails
  <2> QED BY <1>4, <2>2
<1>10. ASSUME NEW t \in Slots, NEW x \in Syncing \cup {"ok", "failed"}, call[t].pc \in Syncing,
              call' = [call EXCEPT ![t].pc = x]
       PROVE  TasksAgree'
  <2>1. PICK c : c = [call[t] EXCEPT !.pc = x]
    OBVIOUS
  <2>2. call' = [call EXCEPT ![t] = c] /\ c.pc = x /\ c.row = call[t].row
    BY <1>1, <1>10, <2>1 DEF CallType
  <2> QED BY <1>4, <1>10, <2>2
<1>11. ASSUME NEW t \in Slots, SyncScan(t) PROVE TasksAgree'
  <2>1. PICK c : c = [call[t] EXCEPT !.id = Len(scans'),
            !.pc = IF Filled(call[t].scan.found) = {} THEN "resolve" ELSE "items"]
    OBVIOUS
  <2>2. call' = [call EXCEPT ![t] = c] /\ c.pc \in Syncing /\ c.row = call[t].row /\ call[t].pc \in Syncing
    BY <1>1, <1>11, <2>1 DEF CallType, SyncScan, Syncing, Keeping
  <2> QED BY <1>4, <2>2
<1>12. ASSUME NEW t \in Slots, SyncLookup(t) \/ SyncDevice(t) PROVE TasksAgree'
  <2>1. PICK x \in {"print", "scan", "failed"} : call' = [call EXCEPT ![t].pc = x]
    BY <1>12 DEF SyncLookup, SyncDevice
  <2>2. call[t].pc \in Syncing
    BY <1>12 DEF SyncLookup, SyncDevice, Syncing
  <2> QED BY <1>10, <2>1, <2>2 DEF Syncing
<1>13. ASSUME NEW t \in Slots,
              \/ SyncItems(t) \/ SyncResolve(t) \/ SyncAdvise(t) \/ SyncSummary(t) \/ SyncTouch(t)
       PROVE  TasksAgree'
  <2>1. PICK x \in Keeping \cup {"ok"} : call' = [call EXCEPT ![t].pc = x]
    BY <1>13 DEF SyncItems, SyncResolve, SyncAdvise, SyncSummary, SyncTouch, Keeping
  <2>2. call[t].pc \in Syncing
    BY <1>13 DEF SyncItems, SyncResolve, SyncAdvise, SyncSummary, SyncTouch, Syncing, Keeping
  <2> QED BY <1>10, <2>1, <2>2 DEF Syncing
<1> QED BY <1>5, <1>6, <1>7, <1>8, <1>9, <1>11, <1>12, <1>13
    DEF ServerNext, StartDevice, StartCode, StartRefused, StartCleanup, StartFails, Expire

LEMMA ServerScansPaired ==
    ASSUME IInv, ScansArePaired, ServerNext
    PROVE  ScansArePaired'
<1>1. /\ pairing \in [Rows -> PairingType]
      /\ scans \in Seq(RowType)
      /\ tokens \in Seq(TokenType)
  BY DEF IInv, TypeOK
<1>2. \A r \in Rows : pairing[r].token # 0 => pairing'[r].token # 0
  <2>1. ASSUME NEW p \in Panels, StartCode(p) PROVE \A r \in Rows : pairing'[r].token = pairing[r].token
    BY <1>1, <2>1 DEF StartCode, PairingType
  <2>2. ASSUME NEW r \in Rows, Expire(r) PROVE \A q \in Rows : pairing'[q].token = pairing[q].token
    BY <1>1, <2>2 DEF Expire, PairingType
  <2>3. ASSUME NEW t \in Slots, CompletePairing(t)
        PROVE  \A r \in Rows : pairing[r].token # 0 => pairing'[r].token # 0
    <3>1. PICK n : n = Len(tokens') /\ n # 0
      BY <1>1, <2>3 DEF CompletePairing, TokenType, IInv, CallInv, CallOK
    <3>2. \A r \in Rows : pairing'[r].token \in {n, pairing[r].token}
      BY <1>1, <2>3, <3>1 DEF CompletePairing, PairingType
    <3> QED BY <3>1, <3>2
  <2>4. CASE UNCHANGED pairing
    BY <2>4
  <2> QED BY <2>1, <2>2, <2>3, <2>4
      DEF ServerNext, StartDevice, StartRefused, StartCleanup, StartFails, CompleteLookup, CompleteDevice,
          SyncLookup, SyncDevice, SyncScan, SyncItems, SyncResolve, SyncAdvise, SyncSummary, SyncTouch,
          CallFails
<1>3. ASSUME \A i \in DOMAIN scans' : i \in DOMAIN scans /\ scans'[i].device = scans[i].device
      PROVE  ScansArePaired'
  BY <1>2, <1>3 DEF ScansArePaired
<1>4. ASSUME NEW t \in Slots, SyncScan(t) PROVE ScansArePaired'
  <2>1. call[t].row \in Rows /\ pairing[call[t].row].token # 0
    BY <1>4 DEF IInv, CallInv, CallOK, Syncing, Fits, SyncScan
  <2>2. \A i \in DOMAIN scans' :
          \/ i \in DOMAIN scans /\ scans'[i] = scans[i]
          \/ scans'[i].device = call[t].row
    BY <1>1, <1>4 DEF SyncScan
  <2> QED BY <1>2, <2>1, <2>2 DEF ScansArePaired
<1>5. ASSUME NEW t \in Slots, SyncItems(t) \/ SyncResolve(t) \/ SyncAdvise(t) PROVE ScansArePaired'
  <2>1. \A i \in DOMAIN scans : scans[i] \in RowType
    BY <1>1
  <2>2. \A i \in DOMAIN scans' : i \in DOMAIN scans /\ scans'[i].device = scans[i].device
    <3>1. CASE SyncItems(t)
      <4>1. PICK s : scans' = [scans EXCEPT ![call[t].id].parts = @ \cup {s}]
        BY <3>1 DEF SyncItems
      <4> QED BY <2>1, <4>1 DEF RowType
    <3>2. CASE SyncResolve(t)
      BY <2>1, <3>2 DEF SyncResolve, RowType
    <3>3. CASE SyncAdvise(t)
      BY <2>1, <3>3 DEF SyncAdvise, RowType
    <3> QED BY <1>5, <3>1, <3>2, <3>3
  <2> QED BY <1>3, <2>2
<1>6. CASE UNCHANGED scans
  BY <1>3, <1>6
<1> QED BY <1>4, <1>5, <1>6
    DEF ServerNext, StartDevice, StartCode, StartRefused, StartCleanup, StartFails, Expire, CompleteLookup,
        CompleteDevice, CompletePairing, SyncLookup, SyncDevice, SyncSummary, SyncTouch, CallFails

LEMMA ServerAgrees == ASSUME IInv, AgreeInv, ServerNext, UNCHANGED agentVars PROVE AgreeInv'
<1>1. KeepersAgree' /\ SyncsStay
  BY ServerSettles DEF AgreeInv
<1> QED BY <1>1, ServerFilesAgree, ServerTasksAgree, ServerScansPaired DEF AgreeInv

\* The companion writes no table: what its files say holds because it did of
\* the configurations it read and of the answers it was given.
LEMMA AgentSettles ==
    ASSUME IInv, IInv', AgreeInv, UNCHANGED <<device, pairing, scans>>,
           \A m \in Machines : config'[m] # Torn =>
              config'[m] = config[m] \/ \E u \in Slots : config'[m] = task[u].file,
           \A u \in Slots : call'[u] = call[u] \/ call'[u].pc \notin Keeping \cup {"ok"},
           \A u \in Slots : FileAgrees(task'[u].file),
           \A u \in Slots : task'[u].pc = "pairing" =>
              \/ task'[u] = task[u] /\ call'[u] = call[u]
              \/ call'[u].pc = "lookup",
           \A u \in Slots : task'[u].pc = "syncing" =>
              \/ task'[u] = task[u] /\ call'[u] = call[u]
              \/ call'[u].pc = "token" /\ call'[u].row = task'[u].file.row
    PROVE  AgreeInv'
<1>1. KeepersAgree' /\ SyncsStay
  BY QuietStep DEF AgreeInv
<1>2. ASSUME NEW m \in Machines, config'[m] # Torn PROVE FileAgrees(config[m])'
  <2>1. PICK f \in FileType : f = config'[m]
    BY <1>2 DEF IInv, TypeOK
  <2>2. FileAgrees(f)
    BY <1>2, <2>1 DEF AgreeInv, FilesAgree
  <2>3. FileAgrees(f)'
    BY <1>1, <2>2, FileAgreesStays
  <2> QED BY <2>1, <2>3 DEF FileAgrees
<1>3. ASSUME NEW u \in Slots PROVE FileAgrees(task[u].file)'
  <2>1. PICK f \in FileType : f = task'[u].file
    BY DEF IInv, TypeOK, TaskType
  <2>2. FileAgrees(f)'
    BY <1>1, <2>1, FileAgreesStays
  <2> QED BY <2>1, <2>2 DEF FileAgrees
<1>4. TasksAgree'
  <2>1. ASSUME NEW u \in Slots, task'[u].pc = "pairing"
        PROVE  /\ call'[u].pc \in {"lookup", "device", "pair", "ok", "failed"}
               /\ call'[u].pc \in {"device", "pair", "ok"} =>
                     \A j \in ScansOf(call[u].row)' : j > task'[u].file.synced
    BY <2>1 DEF AgreeInv, TasksAgree, ScansOf
  <2>2. ASSUME NEW u \in Slots, task'[u].pc = "syncing"
        PROVE  call'[u].pc \in Syncing \cup {"ok", "failed"} /\ call'[u].row = task'[u].file.row
    BY <2>2 DEF AgreeInv, TasksAgree, Syncing
  <2> QED BY <2>1, <2>2 DEF TasksAgree
<1>5. ScansArePaired'
  BY DEF AgreeInv, ScansArePaired
<1> QED BY <1>1, <1>2, <1>3, <1>4, <1>5 DEF AgreeInv, FilesAgree

LEMMA TaskSettles ==
    ASSUME IInv, IInv', AgreeInv, NEW t \in Slots, NEW k,
           task' = [task EXCEPT ![t] = k],
           FileAgrees(k.file), k.pc \notin {"pairing", "syncing"},
           UNCHANGED call \/ call' = [call EXCEPT ![t] = NoCall],
           \/ UNCHANGED config
           \/ config' = [config EXCEPT ![Home[t]] = Torn]
           \/ config' = [config EXCEPT ![Home[t]] = task[t].file],
           UNCHANGED <<device, pairing, scans>>
    PROVE  AgreeInv'
<1>1. /\ task'[t] = k
      /\ \A u \in Slots : u # t => task'[u] = task[u] /\ call'[u] = call[u]
      /\ \A u \in Slots : call'[u] = call[u] \/ call'[u].pc = "idle"
  BY DEF IInv, TypeOK, NoCall
<1>2. \A m \in Machines : config'[m] # Torn => config'[m] \in {config[m], task[t].file}
  BY DEF IInv, TypeOK
<1>3. \A u \in Slots : FileAgrees(task'[u].file)
  BY <1>1 DEF AgreeInv, FilesAgree
<1>4. \A u \in Slots : task'[u].pc \in {"pairing", "syncing"} => task'[u] = task[u] /\ call'[u] = call[u]
  BY <1>1
<1> QED BY <1>1, <1>2, <1>3, <1>4, AgentSettles DEF Keeping

LEMMA ReadAgrees ==
    ASSUME AgreeInv, NEW m \in Machines
    PROVE  FileAgrees(Unpaired) /\ FileAgrees(ReadConfig(m))
BY DEF AgreeInv, FilesAgree, FileAgrees, Unpaired, ReadConfig

LEMMA PairAgrees == ASSUME IInv, IInv', AgreeInv, NEW t \in Slots, Pair(t) PROVE AgreeInv'
<1> DEFINE k == [pc |-> "pairing", file |-> ReadConfig(Home[t]), scan |-> None]
<1>1. PICK code : call' = [call EXCEPT ![t] = [NoCall EXCEPT !.pc = "lookup", !.code = code]]
  BY DEF Pair
<1>2. /\ task'[t] = k
      /\ call'[t].pc = "lookup"
      /\ \A u \in Slots : u # t => task'[u] = task[u] /\ call'[u] = call[u]
  BY <1>1 DEF Pair, Begin, IInv, TypeOK, NoCall
<1>3. FileAgrees(k.file)
  BY ReadAgrees, PipelineAssumption
<1> HIDE DEF k
<1>4. \A u \in Slots : FileAgrees(task'[u].file)
  BY <1>2, <1>3 DEF AgreeInv, FilesAgree
<1>5. k.pc = "pairing"
  BY DEF k
<1>6. UNCHANGED <<device, pairing, scans, config>>
  BY DEF Pair
<1> QED BY <1>2, <1>4, <1>5, <1>6, AgentSettles DEF Keeping

LEMMA PairedAgrees == ASSUME IInv, IInv', AgreeInv, NEW t \in Slots, Paired(t) PROVE AgreeInv'
<1> DEFINE f == [task[t].file EXCEPT !.row = call[t].row, !.token = call[t].token]
<1> DEFINE k == [task[t] EXCEPT !.pc = "open", !.file = f]
<1>1. /\ task[t] \in TaskType /\ task[t].file \in FileType
      /\ call[t].pc = "ok" /\ task[t].pc = "pairing"
      /\ FileAgrees(task[t].file)
  BY DEF IInv, TypeOK, TaskType, Paired, AgreeInv, FilesAgree
<1>2. f.row = call[t].row /\ f.synced = task[t].file.synced
  BY <1>1 DEF FileType
<1>3. \A j \in ScansOf(call[t].row) : j > task[t].file.synced
  BY <1>1 DEF AgreeInv, TasksAgree
<1>4. FileAgrees(f)
  BY <1>1, <1>2, <1>3 DEF FileAgrees
<1>5. k.file = f /\ k.pc = "open"
  BY <1>1 DEF TaskType
<1>6. task' = [task EXCEPT ![t] = k]
  BY DEF Paired, IInv, TypeOK
<1> HIDE DEF k, f
<1> QED BY <1>4, <1>5, <1>6, TaskSettles DEF Paired

LEMMA SyncedAgrees == ASSUME IInv, IInv', AgreeInv, NEW t \in Slots, Synced(t) PROVE AgreeInv'
<1> DEFINE f == [task[t].file EXCEPT !.synced = call[t].id]
<1> DEFINE k == [task[t] EXCEPT !.pc = "open", !.file = f]
<1>1. /\ task[t] \in TaskType /\ task[t].file \in FileType
      /\ call[t].pc = "ok" /\ task[t].pc = "syncing"
  BY DEF IInv, TypeOK, TaskType, Synced
<1>2. f.row = task[t].file.row /\ f.synced = call[t].id
  BY <1>1 DEF FileType
<1>3. /\ call[t].row = task[t].file.row
      /\ call[t].id # 0 => Settled(call[t].id) /\ scans[call[t].id].device = call[t].row
  BY <1>1 DEF AgreeInv, TasksAgree, KeepersAgree
<1>4. FileAgrees(f)
  BY <1>2, <1>3 DEF FileAgrees
<1>5. k.file = f /\ k.pc = "open"
  BY <1>1 DEF TaskType
<1>6. task' = [task EXCEPT ![t] = k]
  BY DEF Synced, IInv, TypeOK
<1> HIDE DEF k, f
<1> QED BY <1>4, <1>5, <1>6, TaskSettles DEF Synced

LEMMA PostAgrees == ASSUME IInv, IInv', AgreeInv, NEW t \in Slots, Post(t) PROVE AgreeInv'
<1>1. UNCHANGED <<device, pairing, scans, config>> /\ task[t] \in TaskType
  BY DEF Post, IInv, TypeOK
<1>2. CASE Finish(t) /\ UNCHANGED call
  <2>1. FileAgrees(NoTask.file) /\ NoTask.pc = "idle"
    BY DEF NoTask, FileAgrees, Unpaired
  <2>2. task' = [task EXCEPT ![t] = NoTask]
    BY <1>2 DEF Finish
  <2> QED BY <1>1, <1>2, <2>1, <2>2, TaskSettles
<1>3. ASSUME NEW s,
             task' = [task EXCEPT ![t].pc = "syncing"],
             call' = [call EXCEPT ![t] = [NoCall EXCEPT !.pc = "token", !.row = task[t].file.row,
                                                !.token = task[t].file.token, !.scan = s]]
      PROVE  AgreeInv'
  <2>1. /\ task'[t].pc = "syncing" /\ task'[t].file = task[t].file
        /\ call'[t].pc = "token" /\ call'[t].row = task[t].file.row
        /\ \A u \in Slots : u # t => task'[u] = task[u] /\ call'[u] = call[u]
    BY <1>1, <1>3 DEF IInv, TypeOK, TaskType, NoCall
  <2>2. \A u \in Slots : FileAgrees(task'[u].file)
    BY <2>1 DEF AgreeInv, FilesAgree
  <2> QED BY <1>1, <2>1, <2>2, AgentSettles DEF Keeping
<1> QED BY <1>2, <1>3 DEF Post

\* The other steps keep the file they hold, or start from one they read.
LEMMA OtherAgrees ==
    ASSUME IInv, IInv', AgreeInv, NEW t \in Slots,
           \/ Clear(t) \/ Scan(t) \/ Collected(t) \/ Kept(t) \/ Sync(t) \/ Refused(t)
           \/ Truncate(t) \/ Fill(t) \/ Abandoned(t)
    PROVE  AgreeInv'
<1>1. task[t] \in TaskType /\ FileAgrees(task[t].file) /\ Home[t] \in Machines
  BY PipelineAssumption DEF IInv, TypeOK, AgreeInv, FilesAgree
<1>2. /\ FileAgrees(NoTask.file) /\ NoTask.pc = "idle"
      /\ FileAgrees(Unpaired) /\ FileAgrees(ReadConfig(Home[t]))
  BY <1>1, ReadAgrees DEF NoTask
<1>3. ASSUME Clear(t) PROVE AgreeInv'
  <2> DEFINE k == [pc |-> "open", file |-> Unpaired, scan |-> None]
  <2>1. task' = [task EXCEPT ![t] = k]
    BY <1>3 DEF Clear, Begin
  <2>2. FileAgrees(k.file) /\ k.pc = "open"
    BY <1>2
  <2> HIDE DEF k
  <2> QED BY <1>3, <2>1, <2>2, TaskSettles DEF Clear
<1>4. ASSUME NEW pc \in {"collect", "load"},
             task' = [task EXCEPT ![t] = [pc |-> pc, file |-> ReadConfig(Home[t]), scan |-> None]],
             UNCHANGED <<device, pairing, scans, call, config>>
      PROVE  AgreeInv'
  <2> DEFINE k == [pc |-> pc, file |-> ReadConfig(Home[t]), scan |-> None]
  <2>1. FileAgrees(k.file) /\ k.pc \notin {"pairing", "syncing"}
    BY <1>2
  <2>2. task' = [task EXCEPT ![t] = k]
    BY <1>4
  <2> HIDE DEF k
  <2> QED BY <1>4, <2>1, <2>2, TaskSettles
<1>5. ASSUME Scan(t) \/ Sync(t) PROVE AgreeInv'
  BY <1>4, <1>5 DEF Scan, Sync, Begin
<1>6. ASSUME NEW pc \in {"keep", "open", "fill"}, NEW s,
             \/ task' = [task EXCEPT ![t].pc = pc, ![t].scan = s]
             \/ task' = [task EXCEPT ![t].pc = pc],
             UNCHANGED config \/ config' = [config EXCEPT ![Home[t]] = Torn],
             UNCHANGED <<device, pairing, scans, call>>
      PROVE  AgreeInv'
  <2>1. PICK k : k = task'[t]
    OBVIOUS
  <2>2. task' = [task EXCEPT ![t] = k] /\ k.file = task[t].file /\ k.pc = pc
    BY <1>1, <1>6, <2>1 DEF IInv, TypeOK, TaskType
  <2> QED BY <1>1, <1>6, <2>2, TaskSettles
<1>7. ASSUME Collected(t) \/ Kept(t) \/ Truncate(t) PROVE AgreeInv'
  BY <1>6, <1>7 DEF Collected, Kept, Truncate
<1>8. ASSUME Refused(t) \/ Fill(t) PROVE AgreeInv'
  <2>1. /\ task' = [task EXCEPT ![t] = NoTask]
        /\ UNCHANGED call \/ call' = [call EXCEPT ![t] = NoCall]
        /\ UNCHANGED <<device, pairing, scans>>
        /\ \/ UNCHANGED config
           \/ config' = [config EXCEPT ![Home[t]] = Torn]
           \/ config' = [config EXCEPT ![Home[t]] = task[t].file]
    BY <1>8 DEF Refused, Fill, Finish
  <2> QED BY <1>2, <2>1, TaskSettles
<1>9. ASSUME Abandoned(t) PROVE AgreeInv'
  <2>1. task[t].pc = "idle" /\ task' = [task EXCEPT ![t] = task[t]]
    BY <1>9 DEF Abandoned, IInv, TypeOK
  <2>2. PICK k : k = task[t]
    OBVIOUS
  <2> QED BY <1>1, <1>9, <2>1, <2>2, TaskSettles DEF Abandoned
<1> QED BY <1>3, <1>5, <1>7, <1>8, <1>9

LEMMA MachineAgrees ==
    ASSUME IInv, IInv', AgreeInv, NEW m \in Machines, Reload(m) \/ Quit(m)
    PROVE  AgreeInv'
<1>1. UNCHANGED <<device, pairing, scans, call, config>>
  BY DEF Reload, Quit
<1>2. \A u \in Slots : task'[u] = task[u] \/ task'[u] = NoTask
  BY DEF Reload, Quit
<1>3. \A u \in Slots : FileAgrees(task'[u].file)
  BY <1>2 DEF AgreeInv, FilesAgree, FileAgrees, NoTask, Unpaired
<1> QED BY <1>1, <1>2, <1>3, AgentSettles DEF NoTask

LEMMA AgreeInvStep == ASSUME IInv, AgreeInv, [Next]_vars PROVE AgreeInv'
<1>1. IInv'
  BY StepOK
<1>2. CASE ServerNext /\ UNCHANGED agentVars
  BY <1>2, ServerAgrees
<1>3. CASE AgentNext
  BY <1>1, <1>3, PairAgrees, PairedAgrees, SyncedAgrees, PostAgrees, OtherAgrees, MachineAgrees
  DEF AgentNext
<1>4. CASE UNCHANGED vars
  <2>1. UNCHANGED <<device, pairing, scans, call, config, task>>
    BY <1>4 DEF vars
  <2>2. \A u \in Slots : FileAgrees(task'[u].file)
    BY <2>1 DEF AgreeInv, FilesAgree
  <2> QED BY <1>1, <2>1, <2>2, AgentSettles
<1> QED BY <1>2, <1>3, <1>4 DEF Next

\* When the newest sync of a device ran beside no other and its machine has
\* recorded it, device row and recommendations are those of that sync, for any
\* machines, pairings and syncs that are under way.
THEOREM PagesAgree == Spec => []OverviewAgrees
<1>1. AgentInit => AgreeInv
  BY DEF AgentInit, Init, AgreeInv, KeepersAgree, FilesAgree, FileAgrees, TasksAgree, ScansArePaired,
     NoCall, NoTask, Unpaired, Keeping
<1>2. ASSUME IInv, AgreeInv PROVE OverviewAgrees
  <2> SUFFICES ASSUME NEW m \in Machines, config[m] # Torn,
                      NEW r, NEW i, r = config[m].row, i = config[m].synced,
                      i # 0, ScansOf(r) # {},
                      \A j \in ScansOf(r) : j <= i, scans[i].beside = "none"
               PROVE  /\ device[r].summary = i
                      /\ getLiveRecommendations(r) =
                             IF Advised(scans[i].scan.found) = {} THEN {} ELSE {i}
    BY DEF OverviewAgrees
  <2>1. /\ Settled(i)
        /\ scans[i].device = r \/ \A j \in ScansOf(r) : j > i
    BY <1>2 DEF AgreeInv, FilesAgree, FileAgrees
  <2>2. i \in Nat /\ ScansOf(r) \subseteq Nat
    BY <1>2 DEF IInv, TypeOK, FileType, ScansOf
  <2>3. scans[i].device = r
    BY <2>1, <2>2
  <2> QED BY <2>1, <2>3 DEF Settled, Alone, Agreed, Recommends
<1> QED BY <1>1, <1>2, AgreeInvStep, Invariance, PTL DEF Spec
===============================================================================
