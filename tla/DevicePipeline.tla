---------------------------- MODULE DevicePipeline ----------------------------
(***************************************************************************)
(* The server half of Omnia Watch: web/lib/server/device-pipeline.ts and   *)
(* the three routes under web/app/api/device, over the Supabase tables     *)
(* `devices`, `device_pairings`, `device_scans` with its item tables, and  *)
(* `maintenance_recommendations`.                                          *)
(*                                                                         *)
(* The handlers run no transaction: every awaited statement is one step,   *)
(* and any of them may fail and leave what came before it.  A device row   *)
(* and the pairing row inserted for it share one name r \in Rows.  A token *)
(* is its position in `tokens`, a scan row its position in `scans`.        *)
(*                                                                         *)
(* Left out: the audit rows (best effort, nothing reads them back into the *)
(* pipeline), the demo answers of an unconfigured deployment, and          *)
(* revocation, which no code performs.                                     *)
(***************************************************************************)
EXTENDS Naturals, FiniteSets, Sequences

CONSTANTS
    Rows,       \* the device rows that may exist
    Codes,      \* the codes createPairingCode may draw
    Panels,     \* pairing panels of the web app
    Machines,   \* Windows machines
    Slots,      \* calls that may be in flight, each from one machine
    Home,       \* the machine of each slot
    Contents,   \* what a scan may find, a level for every section
    Attempts,   \* MAX_PAIRING_ATTEMPTS
    None,       \* no row, code, machine, scan or slot
    Faults      \* which of "server", "cleanup", "reply", "reload", "quit" occur

Sections == {"apps", "cleanup", "startup", "security"}

\* An empty section, one with nothing to report, one worth a
\* recommendation, and one with a critical security signal.
Levels == {"empty", "quiet", "loud", "grave"}

ASSUME PipelineAssumption ==
    /\ Home \in [Slots -> Machines]
    /\ Contents \subseteq [Sections -> Levels]
    /\ Attempts \in Nat \ {0}
    /\ None \notin Rows \cup Codes \cup Machines \cup Slots
    /\ None \notin [at : Nat, found : Contents]
    /\ Faults \subseteq {"server", "cleanup", "reply", "reload", "quit"}

VARIABLES
    device,     \* devices
    pairing,    \* device_pairings
    tokens,     \* the device tokens created, in order, and for whom
    scans,      \* device_scans with its items and its recommendations
    told,       \* codes the panels show to the user
    start,      \* startLivePairing, per panel
    call        \* completeLivePairing or ingestLiveDeviceSync, per slot

serverVars == <<device, pairing, tokens, scans, told, start, call>>

NoDevice == [status |-> "absent", print |-> None, summary |-> 0]
NoPairing == [code |-> None, age |-> "fresh", token |-> 0]
NoStart == [pc |-> "idle", row |-> None, tries |-> 0]
NoCall == [pc |-> "idle", code |-> None, row |-> None, token |-> 0,
           scan |-> None, id |-> 0]

Init ==
    /\ device = [r \in Rows |-> NoDevice]
    /\ pairing = [r \in Rows |-> NoPairing]
    /\ tokens = <<>>
    /\ scans = <<>>
    /\ told = {}
    /\ start = [p \in Panels |-> NoStart]
    /\ call = [t \in Slots |-> NoCall]

-----------------------------------------------------------------------------
(* What a payload amounts to *)

Filled(found) == {s \in Sections : found[s] # "empty"}
Advised(found) == {s \in Sections : found[s] \in {"loud", "grave"}}

\* With no recommendation the score stays below 35: one gigabyte of cleanup
\* is the only pressure left, and it weighs 6.
deriveDeviceStatus(found) ==
    IF found["security"] = "grave" THEN "critical"
    ELSE IF Advised(found) # {} THEN "attention" ELSE "healthy"

\* The unique index on pairing_code_hash covers every row ever inserted,
\* and none is deleted.
CodesTaken == {pairing[r].code : r \in Rows}

-----------------------------------------------------------------------------
(* startLivePairing *)

\* A provisional device is inserted, at first or after a code collided.
StartDevice(p) ==
    /\ start[p].pc \in {"idle", "again"}
    /\ \E r \in Rows :
        /\ device[r].status = "absent"
        /\ device' = [device EXCEPT ![r].status = "offline"]
        /\ start' = [start EXCEPT ![p] = [pc |-> "code", row |-> r, tries |-> @.tries + 1]]
    /\ UNCHANGED <<pairing, tokens, scans, told, call>>

\* Its pairing is inserted with a fresh code; the answer shows it to the
\* user, or is lost.
StartCode(p) ==
    /\ start[p].pc = "code"
    /\ \E c \in Codes \ CodesTaken :
        /\ pairing' = [pairing EXCEPT ![start[p].row].code = c]
        /\ \/ told' = told \cup {c}
           \/ "reply" \in Faults /\ UNCHANGED told
    /\ start' = [start EXCEPT ![p] = NoStart]
    /\ UNCHANGED <<device, tokens, scans, call>>

\* The insert hits the unique index, or fails.
StartRefused(p) ==
    /\ start[p].pc = "code"
    /\ \/ /\ Codes \cap CodesTaken # {}
          /\ start' = [start EXCEPT ![p].pc = "collided"]
       \/ /\ "server" \in Faults
          /\ start' = [start EXCEPT ![p].pc = "failed"]
    /\ UNCHANGED <<device, pairing, tokens, scans, told, call>>

\* As a bug would have it: the retry is decided before the cleanup, and one
\* attempt too many is made.
RetryUncleaned(p) ==
    /\ start[p].pc \in {"collided", "failed"}
    /\ device' = IF start[p].pc = "collided" THEN device
                 ELSE [device EXCEPT ![start[p].row] = NoDevice]
    /\ start' = [start EXCEPT ![p] =
            IF @.pc = "collided" /\ @.tries < Attempts
            THEN [pc |-> "again", row |-> None, tries |-> @.tries] ELSE NoStart]
    /\ UNCHANGED <<pairing, tokens, scans, told, call>>
RetryOnceMore(p) ==
    /\ start[p].pc \in {"collided", "failed"}
    /\ device' = [device EXCEPT ![start[p].row] = NoDevice]
    /\ start' = [start EXCEPT ![p] =
            IF @.pc = "collided" /\ @.tries <= Attempts
            THEN [pc |-> "again", row |-> None, tries |-> @.tries] ELSE NoStart]
    /\ UNCHANGED <<pairing, tokens, scans, told, call>>

\* cleanupProvisionalDevice, whose own failure nobody looks at; then another
\* attempt or the error.
StartCleanup(p) ==
    /\ start[p].pc \in {"collided", "failed"}
    /\ \/ device' = [device EXCEPT ![start[p].row] = NoDevice]
       \/ "cleanup" \in Faults /\ UNCHANGED device
    /\ start' = [start EXCEPT ![p] =
            IF @.pc = "collided" /\ @.tries < Attempts
            THEN [pc |-> "again", row |-> None, tries |-> @.tries] ELSE NoStart]
    /\ UNCHANGED <<pairing, tokens, scans, told, call>>

\* The next device cannot be inserted.
StartFails(p) ==
    /\ "server" \in Faults
    /\ start[p].pc = "again"
    /\ start' = [start EXCEPT ![p] = NoStart]
    /\ UNCHANGED <<device, pairing, tokens, scans, told, call>>

\* pairing_expires_at passes.
Expire(r) ==
    /\ pairing[r].code # None
    /\ pairing[r].age = "fresh"
    /\ pairing[r].token = 0
    /\ pairing' = [pairing EXCEPT ![r].age = "expired"]
    /\ UNCHANGED <<device, tokens, scans, told, start, call>>

-----------------------------------------------------------------------------
(* completeLivePairing *)

\* The only place where the pairing is checked to be unused and unexpired.
CompleteLookup(t) ==
    /\ call[t].pc = "lookup"
    /\ LET open == {r \in Rows : /\ pairing[r].code = call[t].code
                                 /\ pairing[r].token = 0
                                 /\ pairing[r].age = "fresh"}
       IN  \/ \E r \in open : call' = [call EXCEPT ![t].pc = "device", ![t].row = r]
           \/ open = {} /\ call' = [call EXCEPT ![t].pc = "failed"]
    /\ UNCHANGED <<device, pairing, tokens, scans, told, start>>

CompleteDevice(t) ==
    /\ call[t].pc = "device"
    /\ device' = [device EXCEPT ![call[t].row].status = "attention",
                                ![call[t].row].print = Home[t]]
    /\ call' = [call EXCEPT ![t].pc = "pair"]
    /\ UNCHANGED <<pairing, tokens, scans, told, start>>

\* As a bug would have it: the error of the update is not looked at.
PairingUnchecked(t) ==
    /\ call[t].pc = "pair"
    /\ tokens' = Append(tokens, [row |-> call[t].row, machine |-> Home[t]])
    /\ \/ pairing' = [pairing EXCEPT ![call[t].row].token = Len(tokens')]
       \/ "server" \in Faults /\ UNCHANGED pairing
    /\ call' = [call EXCEPT ![t].pc = "ok", ![t].token = Len(tokens')]
    /\ UNCHANGED <<device, scans, told, start>>

\* The token replaces whatever token the row has got in the meantime.
CompletePairing(t) ==
    /\ call[t].pc = "pair"
    /\ tokens' = Append(tokens, [row |-> call[t].row, machine |-> Home[t]])
    /\ pairing' = [pairing EXCEPT ![call[t].row].token = Len(tokens')]
    /\ call' = [call EXCEPT ![t].pc = "ok", ![t].token = Len(tokens')]
    /\ UNCHANGED <<device, scans, told, start>>

-----------------------------------------------------------------------------
(* ingestLiveDeviceSync *)

\* The pairing of the token must be that of the device in the payload.
SyncLookup(t) ==
    /\ call[t].pc = "token"
    /\ call' = [call EXCEPT ![t].pc =
            IF pairing[call[t].row].token = call[t].token THEN "print" ELSE "failed"]
    /\ UNCHANGED <<device, pairing, tokens, scans, told, start>>

\* The device must carry no fingerprint or that of the machine.
SyncDevice(t) ==
    /\ call[t].pc = "print"
    /\ call' = [call EXCEPT ![t].pc =
            IF device[call[t].row].print \in {None, Home[t]} THEN "scan" ELSE "failed"]
    /\ UNCHANGED <<device, pairing, tokens, scans, told, start>>

\* Calls that are between their scan row and their end.
Storing(r) == {t \in Slots :
    call[t].row = r /\ call[t].pc \in {"items", "resolve", "advise", "summary", "touch"}}

\* The scan row; `beside` notes whether another sync of the device is
\* between its scan row and its end.
SyncScan(t) ==
    /\ call[t].pc = "scan"
    /\ scans' = Append(scans,
            [device |-> call[t].row, scan |-> call[t].scan, parts |-> {}, advice |-> "none",
             beside |-> IF Storing(call[t].row) = {} THEN "none" ELSE "other"])
    /\ call' = [call EXCEPT ![t].id = Len(scans'),
            ![t].pc = IF Filled(call[t].scan.found) = {} THEN "resolve" ELSE "items"]
    /\ UNCHANGED <<device, pairing, tokens, told, start>>

\* The item tables are filled in the order apps, cleanup, startup, security.
Earlier(s, q) ==
    <<s, q>> \in {<<"apps", "cleanup">>, <<"apps", "startup">>, <<"apps", "security">>,
                  <<"cleanup", "startup">>, <<"cleanup", "security">>,
                  <<"startup", "security">>}

\* As a bug would have it: items are best effort, like the audit rows.
ItemsUnchecked(t) ==
    /\ call[t].pc = "items"
    /\ \/ scans' = [scans EXCEPT ![call[t].id].parts = Filled(call[t].scan.found)]
       \/ "server" \in Faults /\ UNCHANGED scans
    /\ call' = [call EXCEPT ![t].pc = "resolve"]
    /\ UNCHANGED <<device, pairing, tokens, told, start>>

SyncItems(t) ==
    /\ call[t].pc = "items"
    /\ LET i == call[t].id
           todo == Filled(call[t].scan.found) \ scans[i].parts
       IN  \E s \in todo :
            /\ \A q \in todo : ~Earlier(q, s)
            /\ scans' = [scans EXCEPT ![i].parts = @ \cup {s}]
            /\ call' = [call EXCEPT ![t].pc = IF todo = {s} THEN "resolve" ELSE "items"]
    /\ UNCHANGED <<device, pairing, tokens, told, start>>

\* As a bug would have it: only recommendations of this scan are resolved.
ResolveOwn(t) ==
    /\ call[t].pc = "resolve"
    /\ scans' = [i \in DOMAIN scans |->
            IF i = call[t].id /\ scans[i].advice = "open"
            THEN [scans[i] EXCEPT !.advice = "resolved"] ELSE scans[i]]
    /\ call' = [call EXCEPT ![t].pc =
            IF Advised(call[t].scan.found) = {} THEN "summary" ELSE "advise"]
    /\ UNCHANGED <<device, pairing, tokens, told, start>>

\* Every unresolved recommendation of the device is resolved.
SyncResolve(t) ==
    /\ call[t].pc = "resolve"
    /\ scans' = [i \in DOMAIN scans |->
            IF scans[i].device = call[t].row /\ scans[i].advice = "open"
            THEN [scans[i] EXCEPT !.advice = "resolved"] ELSE scans[i]]
    /\ call' = [call EXCEPT ![t].pc =
            IF Advised(call[t].scan.found) = {} THEN "summary" ELSE "advise"]
    /\ UNCHANGED <<device, pairing, tokens, told, start>>

SyncAdvise(t) ==
    /\ call[t].pc = "advise"
    /\ scans' = [scans EXCEPT ![call[t].id].advice = "open"]
    /\ call' = [call EXCEPT ![t].pc = "summary"]
    /\ UNCHANGED <<device, pairing, tokens, told, start>>

\* The device row takes its score, counts, status and last_scan_at from the
\* payload: `summary` names the scan row of that payload.
SyncSummary(t) ==
    /\ call[t].pc = "summary"
    /\ device' = [device EXCEPT ![call[t].row] =
            [status |-> deriveDeviceStatus(call[t].scan.found), print |-> Home[t],
             summary |-> call[t].id]]
    /\ call' = [call EXCEPT ![t].pc = "touch"]
    /\ UNCHANGED <<pairing, tokens, scans, told, start>>

\* last_used_at, then the answer.
SyncTouch(t) ==
    /\ call[t].pc = "touch"
    /\ call' = [call EXCEPT ![t].pc = "ok"]
    /\ UNCHANGED <<device, pairing, tokens, scans, told, start>>

Serving == {"lookup", "device", "pair", "token", "print", "scan", "items", "resolve",
            "advise", "summary", "touch"}

\* A statement fails: the error is the answer, what was written stays.
CallFails(t) ==
    /\ "server" \in Faults
    /\ call[t].pc \in Serving
    /\ call' = [call EXCEPT ![t].pc = "failed"]
    /\ UNCHANGED <<device, pairing, tokens, scans, told, start>>

ServerNext ==
    \/ \E p \in Panels : \/ StartDevice(p) \/ StartCode(p) \/ StartRefused(p)
                         \/ StartCleanup(p) \/ StartFails(p)
    \/ \E r \in Rows : Expire(r)
    \/ \E t \in Slots :
        \/ CompleteLookup(t) \/ CompleteDevice(t) \/ CompletePairing(t)
        \/ SyncLookup(t) \/ SyncDevice(t) \/ SyncScan(t) \/ SyncItems(t)
        \/ SyncResolve(t) \/ SyncAdvise(t) \/ SyncSummary(t) \/ SyncTouch(t)
        \/ CallFails(t)

-----------------------------------------------------------------------------
(* What the pages of the web app read *)

ScansOf(r) == {i \in DOMAIN scans : scans[i].device = r}

\* getLiveRecommendations without a device: the unresolved ones.
getLiveRecommendations(r) == {i \in ScansOf(r) : scans[i].advice = "open"}
===============================================================================
