# Omnia Creata: specifications, checks and proofs

TLA+ modules for the parts of this repository in which several processes, retries, crashes and
half-finished chains of requests meet state that must stay right: the generation pipeline of Studio
(where it is money), its chat, the incident store of the control center, the pairing and synchronisation of Omnia
Watch, and the cloud vault of OmniaPrompt. TLC checks the modules on small instances, TLAPS proves
the most important properties for all values of the constants.

Paths below are relative to `src/apps/`. For Studio's backend the directory
`studio/backend/studio_platform/` is left out, and GS is its `services/generation_service.py`.

1. [The system](#1-the-system) - 2. [Modules](#2-modules-and-how-they-correspond-to-the-code) -
3. [Runs](#3-runs) - 4. [Proofs](#4-proofs) - 5. [What the code does not keep](#5-what-the-code-does-not-keep) -
6. [Not modelled](#6-not-modelled) - 7. [What would come next](#7-what-would-come-next)

## 1. The system

The repository is a family of products. *Studio* is the large one: a FastAPI backend and a React client
that renders images for paying users. *Control center* watches it: a scheduled worker probes Studio,
a Next.js application keeps the incidents, operators act on them. *Omnia Watch* pairs Windows
machines with an account and collects their scans. *OmniaPrompt* (`prompt-vault`) is a personal vault of prompts
that works offline and synchronises with a database row. *OmniaPixels*, *Organizer*, a website, a plugin and documents are
the rest.

A deployment of Studio is one *web* process and any number of *worker* processes, or one process in
mode `all`. They share a Postgres table, a Redis instance and the providers' APIs:

    client -> web process --create--> Postgres table <--claim, settle, time out-- worker processes
                  |                                                                ^     |
                  +------enqueue-----> Redis lanes and claims ---dequeue-----------+     +--> providers

The other three products keep their state in Supabase tables and write it by chains of single statements,
without transactions:

    cron worker --probe--> Studio              desktop app --files--> its disk      page --localStorage--> browser
         |                                          |                                 |
         +--check, recheck--> incidents <-- operators   +--pair, sync--> devices, scans   +--load, merge, save--> user_vault_state
    GitHub workflow --signed callback--^             web panel --code--^              another device --^

| Component | State | Operations | Hard behaviour | What makes it correct | Module |
|---|---|---|---|---|---|
| Generation broker, `services/generation_broker.py` | three lanes, index, two claim tables in Redis; a priority streak in each process, set when its claim call returns | enqueue, dequeue_next, heartbeat, complete, requeue_stale_claims, discard | methods of several round trips interleave; a call may raise after it took effect; a worker dies with its claims | an id is in one place at a time; what expired comes back; nobody starves | `GenerationBroker` |
| Generation records and credit ledger, `generation_ops.py`, `billing_ops.py` | status, attempts, claim token, lease, credit status; three ledger entries; balance | create, claim, refresh, requeue, status update, completion | updates arrive late and twice | a settled job has its charge, the ledger explains the balance | `GenerationJobs` |
| Generation pipeline, GS, `service.py` | the above, each process's cache, claims and tasks, the position of its maintenance loop, sweeps and requests | create, enqueue, compensate, render, settle, maintain, sweep, stop, start | everything at once, judged by caches that may be old | each job ends; every version of the table accounts for the credits | `GenerationLifecycle` |
| State store, `store.py` | the table, one cached `StudioState` per process, an asyncio lock, an advisory lock | mutate, mutate_generation, save_model, delete_model | a snapshot is loaded and rewritten in two transactions; cancellation frees the asyncio lock and not the thread | writes are atomic and stay; reads see them | `StudioStore` |
| Control center, `internal/control-center` | check runs, incidents, action runs, report, the worker's delivery marks | probe, recheck, service event, acknowledge, silence, dispatch, escalate, dashboard | four and more round trips per request, whose errors are not looked at; a partial unique index refuses writes silently | an outage is told once and rechecked once, and the dashboard follows Studio down and up | `IncidentControl` |
| Watch pipeline, `omnia-watch/web/lib/server/device-pipeline.ts` | devices, pairings, tokens, scans with items and recommendations | start and complete a pairing, ingest a sync | any of eleven statements may fail; two syncs of a device mix | a sync that was answered is whole; no provisional device stays | `DevicePipeline` |
| Watch companion, `omnia-watch/desktop/src/main` | two files, the busy flag of the window | pair, clear, scan, sync, reload, quit | read, await, write the old copy back; a truncated file reads as the default | the stored pairing is one that was answered | `WatchCompanion` |
| OmniaPrompt vault, `prompt-vault/web/src/providers/vault-provider.tsx` | data set in memory, in the browser and in a row; session; effects, timer and requests | edits, reset, sign-in, hydrate, save | every edit tears effects down and begins them again; saves overwrite the row, in no order | no version is forgotten; what is shown reaches the row or its failure | `PromptVault` |
| Chat, `services/chat_service.py`, `conversation_ops.py` | conversations with their message counts, messages | create, send, edit, regenerate, delete | a model call between reading and changing; the conversation goes meanwhile | every message has a conversation that counts it | `ChatService` |
| Chat page, `studio/web/src/pages/Chat.tsx` | active conversation, input field, mutations under way, query cache | submit, post, visit, edit, delete, fetch | optimistic messages, answers, invalidations and fetches overtake each other; sends fail late | what is shown at rest is what is stored; no text submitted alone is lost | `StudioChat` |
| Dispatcher, circuit breaker, admission and pricing, spend guardrails, billing, access sessions, moderation, library, identity, providers, public feed, HTTP, reports, assets, the other pages of Studio's client | see `PROJECT.json` | | | | no, section 6 |
| OmniaPixels, Organizer, website, plugin, documents | one user's data, or none | user interface | none that steps of several actors meet in | - | no |

`PROJECT.json` lists every component with its status, and under `hazards` what is hard to test in
the modelled ones, each at the line where it bites.

## 2. Modules and how they correspond to the code

    BrokerContract <--refines-- GenerationBroker <--EXTENDS-- GenerationBroker_proofs, MCGenerationBroker
          |
          +-- its transitions are the broker of --> GenerationLifecycle --EXTENDS--> GenerationJobs
                                                        ^-- GenerationLifecycle_proofs, MCGenerationLifecycle
    StoreContract  <--refines-- StudioStore <--EXTENDS-- StudioStore_proofs, MCStudioStore
    IncidentControl <--EXTENDS-- IncidentControl_proofs, MCIncidentControl
    DevicePipeline <--EXTENDS-- WatchCompanion <--EXTENDS-- WatchCompanion_proofs, MCWatchCompanion
    PromptVault <--EXTENDS-- PromptVault_proofs, MCPromptVault
    ChatService <--EXTENDS-- StudioChat <--EXTENDS-- StudioChat_proofs, MCStudioChat

### BrokerContract and GenerationBroker

`BrokerContract` is the promise of the docstring of `generation_broker.py`: an id is out, queued or
claimed, and moves between the three by enqueue, claim, recover, finish and discard.

`GenerationBroker` is the Redis structure. `queue`, `queuedIndex`, `claimedScore` and
`claimedPriority` are the keys `queued:<lane>`, `queued:index`, `claimed:scores` and
`claimed:priority`. A Lua script or a MULTI pipeline is one step, because Redis runs it without
interleaving; a method of several round trips is several steps. `dequeue_next` is `ReadSizes`, then
`ClaimNext` or `ClaimFindsNothing`, then `Accept` or `Refuse` in the worker;
`requeue_stale_claims` is `ListStale`, then `ReadPriority` and `Requeue` for each id. `phase`, `lane`,
`target` and `stale` are the local variables of the call the worker's loop is in. A heartbeat score is
`fresh` or `stale`: `ClaimGoesStale` is the passing of time. `PassFails` is a call that raises, after
it took effect or before (`ClaimLost` is a claim that popped its job and raised); `Crash` loses what lives in the
process. `dispatch` groups what decides between lanes: `streak`, which the worker assigns when `dequeue_next`
has returned (`Returns`) and keeps when it raised; `passing`, whether the lane lengths of the call under way showed
a standard job; and the history variable `overtaken`, how many calls in a row handed the worker a priority job although a
standard job waited.

### GenerationJobs

The record fields that decide what becomes of a job, and the updates of `generation_ops.py` as
operators on them: `Queued`, `MayClaim`/`Claimed`, `MayRefresh`/`Refreshed`, `WithStatus`, `Completed`.
Lease, heartbeat and retry delay are one field `clock` (`fresh`, `elapsed`), because in each status
exactly one of them is asked for. `attempts` counts up to the limit, since the code asks only whether it
is below. A job's ledger is the amounts of its reserve, spend and release entries;
`Write` never overwrites, as `_write_generation_credit_event_locked` does not.

### GenerationLifecycle

Durable state: `job`, `ledger`, `balance`. Broker: `place`, `BrokerContract` with claims that are
fresh or stale. For each process: `view` (its cache of each record, `Current` when it holds what the
table holds), `writes` (the mutates whose table is loaded and changed but not yet written), `claims`
(`_active_generation_claims`), `task` and `seen` (its render tasks and the
attempt count each read at its start), `phase`, `todo`, `busy` (its maintenance loop), `sweep`, `request`.
`asked` holds the jobs a client has asked for.

`mutate_generation` is one step: it locks the row it changes (`Put`, `Save`). `mutate` is two, as in `store.py:960-966`:
`Mutate` loads the table, applies the callback and notes the resulting table; `Replace` writes that table whole, over whatever other
processes have committed since. The asyncio lock is `Unlocked`: while a mutate of a process is pending its other store calls wait,
cached reads included. A caller that is cancelled (`GracefulStop`, `StopTasks`) gives the lock back
while its thread runs on: `Abandon` marks its write `gone`, and `LateWrite` still writes it. A crash drops the pending writes.

| Code | Actions |
|---|---|
| `create_generation`, `_compensate_generation_enqueue_failure` | `Create`, `RequestEnqueue`, `RequestRaises`, `RequestDiscard`, `RequestFail`, `RequestRelease` |
| `delete_generation` | `Delete` |
| `_run_generation_maintenance_pass`: reconcile, recover, drain, lists | `Inspect`, `ReconcileJob`, `RecoverStale`; `Dequeue`, `Take`, `Refuse`, `CompleteRefused`; `Survey`; `HeartbeatJob`, `BeatBroker`, `RetryJob`, `TimeOutJob`, `GiveUpJob`, `ReleaseJob`, `EnqueueJob`, `EndPass`; `PassFails` |
| `_process_generation` | `Begin`, `BeginRefused`, `Settle`, `SettleAgain`, `SettleRaises`, `TemporaryFailure`, `RenderFails`, `FailJob`, `ReleaseFailed`, `Close`, `CloseFails` |
| orphan sweep | `OrphanList`, `SweepTimeOut`, `SweepRelease` |
| the second half of a mutate, and where its caller goes on | `WriteStep`, `LateWrite` (`Written`, `Replace`, `Resume`) |
| `initialize`, `graceful_shutdown`, a crash | `Start`, `Boot`; `GracefulStop`, `StopTasks`, `ReturnJob`, `ReturnToBroker`, `Stopped`; `Crash` |
| time | `ClaimGoesStale`, `DeadlinePasses`, `CachedDeadlinePasses` |

The lists of a pass are made once (`Survey`) and worked off one await at a time, so everything else
interleaves between two jobs; that is the point of `todo`. `Verdict` says which list a cached job
falls into. `_update_job_status` is two transactions, the status and then the release of credits
(`OwesRelease`, `WriteRelease`), and another process may act between them.

Abstractions a reader should know of:

- The advisory lock, row locks and failing database calls are in `StudioStore`; here a transaction is one step and succeeds.
- A callback that raises (`SettleRaises`) leaves the store alone and its edits in the cache.
- When tasks are stopped at most one of them is inside the store call that saves its failure, as the asyncio lock is held by one.
- Lanes are left out: `Dequeue` may take any waiting job. What lanes add is in `GenerationBroker`.
- A provider call has an outcome (delivered at a cost, temporary error, other error) and takes any time.
- Reading the cache for a heartbeat's token and refreshing it is one step; `LLEN` and metrics are one read;
  `complete` then `enqueue` in shutdown recovery is one step.
- Startup enqueues the recovered jobs through phase `enlist`. A stop interrupts tasks between
  their steps, with the status update of a failing task lost or landing without reaching the cache.
- The branch of the drain for a dispatcher that refuses (GS:505-510) is unreachable there, as the capacity was
  asked just before and nothing was awaited; the status CANCELLED is never written by the backend.
- The development mode without a broker is not modelled.

### StoreContract and StudioStore

`StoreContract`: each write takes effect at once on top of those before it; one whose call returned stays.

`StudioStore` is `PostgresStudioStateStore`. The table is the set of writes visible in it, and `RecordOf`
says which record a write is about, so a lost update is a write that disappears. Coroutines (`Begin`,
`BeginSave`, `Edit`, `EditRaises`, `Return`, `ReturnError`, `Cancel`) hold the asyncio lock of their process;
threads (`Load`, `Serialize`, `Replace` for mutate; `Upsert` for save_model and delete_model;
`LockRow`, `CommitRow` for mutate_generation) do the transactions, `RollBack` and `RaiseAfterCommit` are their
failures, and `Restart` kills a process with its transactions and loads the table. `objects` are the Python
objects: mutate installs a new one and edits it while others may hold it. Isolation is READ COMMITTED, the
default, with the advisory lock taken first in each writing transaction. `setup`, chosen by `Init` and
never changed, says which process makes which calls and whether callers are cancelled.


### IncidentControl

The tables of `web/lib/ocos-store.ts`: `checks` (per fingerprint and kind of run the latest statuses, which is what
the counts read), `latest`, `rows` (incidents), `undone` (incidents whose newest action run failed), `report`.
The worker: `alerts` (Telegram messages), `auto`, `marked` (its cache of delivery ids), `inbox` (workflows that want to
call back). `up` is Studio. `call` holds for each request its position and local variables.

| Code | Actions |
|---|---|
| `runScheduledProbe`, `handleSignedIngress` (worker/src) | `Probe`, `Relay`; `Tell`, `Lose`; `Rerun`, `Expire` |
| `recordCheckResult` | `Insert`, `Count`, `Find`, `CheckResolves`, `CheckUpdates`, `CheckOpens`, `CheckPasses`, `Reply` |
| `recordServiceEvent` | `Find`, `EventUpdates`, `EventOpens`, `Reply` |
| `buildAndPersistProjectReport` | `View`, `Publish` |
| `acknowledgeIncident`, `silenceIncident`, `getSummary` | `Operate`, `Set`; `Look` |
| `runAction`, `persistActionRun`, `evaluateEscalationNeed`, `createCodexEscalation` | `Recheck`, `PersistRecheck`, `PersistDispatch`, `Attempt`, `Evaluate`, `Mark` |

One query is one step, and no step is undone by a later one that fails. The partial unique index is part of `Update` and `Open`: a
write it refuses leaves the row as it was, and the code goes on, as it does not read the error. The insert of an escalation bundle is left out: its error is not read, and
what follows does not depend on it (section 5). A new incident takes
a row name that is free, or one of a resolved incident that no request works on. "Degraded" and "failed" are
one status; severities, texts and the twenty minutes after which an open incident is escalated are inputs.

### DevicePipeline and WatchCompanion

`DevicePipeline` is the server: `device`, `pairing`, `tokens` and `scans` are the tables, `told` the codes a
panel shows, `start` and `call` the requests. `WatchCompanion` adds the machine: `config` and `cache` are
`agent-config.json` and `last-scan.json`, `window` the operation its window waits for, `task` the operations.

| Code | Actions |
|---|---|
| `startLivePairing` | `StartDevice`, `StartCode`, `StartRefused`, `StartCleanup`, `StartFails`; `Expire` |
| `completeLivePairing` | `CompleteLookup`, `CompleteDevice`, `CompletePairing` |
| `ingestLiveDeviceSync` | `SyncLookup`, `SyncDevice`, `SyncScan`, `SyncItems`, `SyncResolve`, `SyncAdvise`, `SyncSummary`, `SyncTouch` |
| any statement of the latter two failing | `CallFails` |
| `AgentController`: pairWithCode, clearPairing, runScan, syncLastScan | `Pair`, `Paired`; `Clear`; `Scan`, `Collected`, `Kept`; `Sync`, `Post`, `Synced`; `Refused` |
| `ConfigStore.write`, window reload, quit | `Truncate`, `Fill`; `Reload`; `Quit`, `Abandoned` |

`fs.writeFile` truncates and then writes, and two writers may leave a mixture: `Fill` and `Kept` choose. The busy flag keeps
operations apart until the window is reloaded; then the slots of one machine overlap. What a scan
finds is a level for each section. `beside` marks a scan row inserted while another sync of the same device was under way.

### PromptVault

`dataset`, `queued`, `user`, `hydrated`, `sync`, `snapshot` are the states and refs of `VaultProvider`; `load`, `timer` and
`calls` are what its two cloud effects have under way; `storage`, `signedIn` and `row` are the browser and the table. `written`,
`lost` and the field `own` of a save (sent by the session that is still there) are history.

| Code | Actions |
|---|---|
| the edits of the provider and of `lib/dataset.ts` | `Edit`, then one of `SaveEntry`, `ApplySuggestion`, `DuplicateEntry`, `RestoreVersion`, `ToggleFlag`, `AddRecord`, `SaveDraft`, `DiscardDraft` |
| `resetPreview` | `ResetPreview` |
| mount, unmount, `onAuthStateChange` | `Open`, `Close`, `Sign`, `AuthStateChange` |
| hydrating effect, `loadUserVaultState`, `mergeVaultDatasets` | `Effects`, `AnswerLoad`, `Hydrate`, `LoadFails` |
| saving effect, `saveUserVaultState` | `Effects`, `TimerFires`, `SaveLands`, `SaveFails` |

React's commit is one step in which the data set is replaced, written to the local storage, and both effects are torn down and
begun again (`Effects`): a load is forgotten and asked anew, a timer is cleared and set anew. An edit waits in a transition
(`queued`) and is applied to the data set as it is at the commit. A save that was sent goes on whatever is
torn down; only its page's use of the answer changes. Saves that are under way land or fail in any order, as nothing in the page or the
client orders them; `Outrun` says what a landing save means to the page that sent a later one. A data set also holds
its `prefs`: a collected record is merged by its stamp, preferences are the local ones (`mergeVaultDatasets`). `Uses` bounds what the user of each
page does. `lost` says that a page's latest load or save has failed.

### ChatService and StudioChat

`ChatService` is the server: `conv` and `turn` are the conversations and the messages (a turn is a user message with its
reply), `call` holds the requests. A request is three steps, `Resolve...`, `Store...` and `Reread`, because between the first two it
awaits a language model: a turn takes its name (`begun`) before the model is asked and is stored after it, so a later one may be stored first.
`StudioChat` adds one tab of the page: `url`, `active` and `draft` are its states, `detail` and `fetch` the cache of the
query `['conversation', id]`, `pend` what its handlers wait for. `missed` and `due` are history.

| Code | Actions |
|---|---|
| `create_conversation`, `send_chat_message` | `Create`; `ResolveSend`, `StoreSend` |
| `edit_chat_message`, `regenerate_chat_message` | `ResolveTurn`, `StoreTurn` |
| `delete_conversation` | `ResolveDelete`, `StoreDelete` |
| refusals, keys that are gone, failures, the answer | `Refuse`, `StoreFinds`, `Fail`, `Reread` |
| `handleSend` | `Submit`, `Proceed`, `ProceedNew`, `Created`, `CreateFails`, `Sent`, `SendFails` |
| the edit, regenerate and delete mutations | `EditBegin`, `RegenerateBegin`, `TurnDone`, `TurnFails`; `DeleteBegin`, `DeleteDone`, `DeleteLeave`, `DeleteFails` |
| effects on the address, the first conversation | `Visit`, `VisitNew`, `EnterFirst`; `Type` |
| `conversationDetailQuery` | `Refetch`, `FetchAnswer`, `FetchLand`, `FetchFails` |

The query cache is TanStack Query and is modelled from how the page uses it; the header of the module states the rules. A request whose answer
is lost after its change was stored ends as `undone`. Message texts are model values: `Drafts` may be typed, `Edits` are what a message may be edited to,
and a reply is named by the text it answers. The list of conversations may be of any moment (`Listed`, `Known`).

## 3. Runs

Every property of a passing run has a mutant in `PROJECT.json`: a plausible bug of the code under which the same
run fails. Mutants are operators marked `Mutant` (or "As a bug would have it") before the definition they stand for; nothing
uses them otherwise.

| Run | Instance | Distinct states | What it shows |
|---|---|---|---|
| `broker` | 2 workers, 2 jobs in 2 lanes, burst limit 1, capacity 1 | 116,474 | types, the four keys agree, one place, refinement of `BrokerContract`, with failures and crashes |
| `broker_solo` | 1 worker, a job in each lane, fairness | 6,646 | burst bound over calls that fail before or after their pop, lanes kept on recovery, standard jobs served |
| `lifecycle_two` | a web process and a worker with caches of their own, 2 jobs, credits for one, the lease of one expires, no faults | 4,329,018 | types (the balance is never negative), and the ledger explains the balance when two jobs compete for the last credits and each process overwrites what the other wrote |
| `lifecycle_live` | mode `all`, 1 job, 2 attempts, leases expire, sweep, crash, shutdown, broker outage, fairness | 928,020 | every job ends once crashes, shutdowns and failures stop, settled jobs are charged, tokens are dropped |
| `store` | one process with every kind of call; two processes without mutate, cancelled | 170,500 | the store's contract and its cache |
| `store_split` | mutate in one process, mutate_generation in another | small | a statement of the repository the code does not keep, section 5 |
| `incidents` | a cron trigger, an operator, 2 incident rows, windows of 2, fairness | 423,126 | an incident is announced and rechecked once; the dashboard follows Studio down and up |
| `incident_callbacks` | an operator who dispatches workflows, their callbacks with lost answers and re-runs, windows of 1 | 2,003,856 | an incident is announced once whoever reports it |
| `watch` | 1 machine whose operations overlap, 1 panel, 1 code, 2 rows, 2 pairings, 2 syncs, all faults but that of the cleanup | 2,608,208 | a recorded sync is stored, a stored pairing was answered, the overview agrees, no stray device |
| `vault` | 1 user in 2 browsers with a page each, 2 entries, 2 edits, 4 visits, 2 requests at once that land in any order | 992,402 | latest versions are recorded, a quiet page is saved, no browser goes back behind a version, what is shown reaches the cloud |
| `vault_merge` | two devices that edit one entry | small | a statement of the repository the code does not keep, section 5 |
| `chat` | 1 tab, 2 conversations, two sends, an edit, a regeneration and a deletion of which 2 at once, plan limit 1 | 4,482,401 | counts add up, a quiet page is true, submitted texts are kept |

**Bounds.** Tokens: one more than can be held at once, so a claim always finds a fresh one. One attempt
makes "out of attempts" immediate, two allow a retry first. Two jobs are the smallest number that compete for credits,
lanes and list order; two workers the smallest that race; three lanes are all lanes. `Slow`, `Aged` and
`Faults` say for which jobs time runs out and which faults happen: each run has those its question
is about. In `lifecycle_two` two processes write the table, which is where one takes back what the other wrote. Two renderers with
expiring leases are too many states for a run; the theorems of section 4 hold for any number of them.
In the incident runs two rows are an incident and the next one of the same fingerprint, which is where the races are, and a
threshold of two distinguishes a streak from a single failure. In `watch` two slots are two operations after a reload; a second row
is what a code that collides or a second pairing needs. In `vault` two devices are enough to merge differing rows, two stamps to order
two edits. In `chat` two conversations are the one in view and another, and two sends are enough to overlap; a variant with one conversation, two turns and
every request failing (2,960,859 states) holds as well and is not kept as a run. Claim tokens, machines' slots and conversations are
interchangeable (symmetry), used only where no liveness is checked. `CHECK_DEADLOCK FALSE` stands where the system may rest: all jobs have ended, all calls returned, the
bounds of the user's edits and visits are used up.

**Fairness.** `GenerationLifecycle`: clocks run; a loop that can step does (`asyncio.sleep`, then the next
pass, exceptions caught); store and broker calls return; renders end (the provider calls have time-outs);
a stopped process is restarted (the deployment's restart policy); the thread of a mutate commits (`WriteStep`), for as long as its process
lives. `EveryJobEnds` supposes that crashes, shutdowns and failing broker calls stop (`Calmly`). Clients, faults, late threads and the sweep's start are
not fair. All of it is weak fairness of a whole loop or task, as one coroutine runs each.
`GenerationBroker`: weak fairness of the loop, and strong fairness of its read and of its claim for each lane, since
a Redis outage may interrupt a pass any number of times but not for ever; `StandardIsServed` supposes that
crashes stop, because a crash forgets the streak.
`IncidentControl`: weak fairness of every scheduled probe, as cron triggers fire for ever, and of every request's next step, as a
request that was accepted is served to its end; operators, workflows and Studio's own health are not fair. `OutageIsShown` and
`RecoveryIsShown` speak of a Studio that stays down, or up.
`PromptVault`: weak fairness of `Progress`, what a page and its requests do of themselves (effects, answers, timers); users, sessions and
reopening are not fair. `StudioChat` and `WatchCompanion` state no fairness: their questions are about safety.

## 4. Proofs

All proofs are in `*_proofs` modules, for any value of the constants that satisfies the named assumptions
(`BrokerAssumption`, `JobsAssumption`, `LifecycleAssumption`, `StoreAssumption`, `ControlAssumption`, `PipelineAssumption`,
`CompanionAssumption`, `VaultAssumption`, `ChatAssumption`, `PageAssumption`, `NoneIsNoDetail`), which TLC evaluates. Where a property holds
under less than that, the theorem says so: one worker (`OneWorker`, for the lanes), one scheduled probe at a time (`OneCron`), one page
for each browser (`OneToOne`), finitely many jobs for the sum of their charges.
The constants need not be finite unless an assumption says so.

**GenerationBroker_proofs.** The inductive invariant is `BrokerInv == KeysInv /\ LoopsOK /\ StreaksOK`. `KeysInv` is the
consistency of the four keys and is kept script by script (`EnqueueKeeps`, `ClaimKeeps`, ...), on lemmas about
the list commands. `IndexMirrorsLanes` is not inductive without `NeverInTwoPlaces` and `ClaimTablesAgree`: a
requeue is safe only because an id with a score is in no lane. `LoopsOK` keeps the local variables of the
loops in type, `StreaksOK` ties `overtaken` to `streak`, which makes the burst bound inductive: a call that raises leaves both as they were. Results:
`BrokerTypeCorrect`, `BrokerKeysAgree`, `BrokerConsistent`, `BurstBound`, and `BrokerImplementsContract`, the refinement.
With one worker the listing it made of stale claims is still true when it requeues them (`SoloInv`: nobody else beats, completes or claims), which
gives `OneWorkerKeepsLanes`. With two it fails, section 5.

**GenerationLifecycle_proofs.** One process may write back a table that another has changed since, so a step can take the store from any version to
an older one, and nothing can be said of how one stored version follows from the one before. What can be said is where versions come from. `Change(t, u)`: `u` is what one
callback makes of `t`, which is for each job one of the updates of `GenerationJobs` with at most one ledger entry more, or the completion of one job with its charge.
`StepMoves` shows, action by action (`RequestMoves`, `LoopMoves`, `TaskMoves`, `SweepMoves`, `StopMoves`, `WriteMoves`), that every table that is stored or about to be
written after a step was so before it or is a `Change` of the stored one. A statement about one table that every `Change` keeps is therefore true of all tables at all times, lost updates,
cancelled callers and crashes included:

- `LifecycleTypeCorrect`: types, a balance of at least zero, attempts within the limit (`ChangeIsTable`).
- `TokensAreDropped` and `SettledJobsAreCharged`, both from `Sound` (`ChangeIsSound`): no update leaves a token on a record that does not run, and a
  status update after a settlement leaves `credit` alone.
- `BalanceIsExplained` (for a finite set of jobs), from `Explained`. The sum is the number of units spent (`Units`, the pairs of a job and a number below its spend entry), so that a charge adds a
  disjoint set of known cardinality. That the fold in `LedgerExplainsBalance` computes this number (`SumIsUnits`) is an induction over sets of jobs; it is made
  with a smallest set for which it would fail (`WFMin`), since the induction rules of the library cannot be instantiated.

That a job is charged once, and that its release is written, are statements about two versions, and the code keeps neither (section 5).

**StudioStore_proofs.** `Inv` holds in every setup: `Held` and `Waited` (what the asyncio lock excludes), `Locked` (what was
read under the advisory lock is still so), and, where the setup is careful, `Snapshots` (what a mutate loaded is still so,
although it holds no database lock) and `Seen`. `OnlyOne` is the argument behind `Snapshots`: with one calling process and no
cancellation no two calls are unfinished at once. `CacheInv` adds that the cache and the table differ by the
running call at most. Results: `StoreTypeCorrect`; `StoreKeepsContract` and `CarefulCommitsStay`, which suppose that every setup is
careful (one process makes all calls without cancellation, or nobody makes a mutate); and `CacheIsTheTable`, which supposes nothing.
The assumption is needed: `store_split` drops it and fails.

**IncidentControl_proofs.** `IInv` adds `Fitting` to types and the properties: what a call holds in its local variables fits its position: the
rows it names exist, its step is one of its job, an announcement is carried only where it is about to be sent. `AnnouncedOnce` is inductive because it
speaks of the messages sent and of the calls that still carry one (`Carries`): `OpeningToldOnce`. Also `ControlTypeCorrect`. That a fingerprint has one active incident is the
partial unique index, part of `Update` and `Open`, and not stated as a property.
`RemediatedAtMostOnce` adds `RInv`: an incident that was rechecked is marked so, or the probe that will mark it is still under way. It supposes `OneCron`,
since two probes that overlap may both read the row before either marks it.

**WatchCompanion_proofs.** `IInv` has a part for each place that holds a claim about the tables: `StartInv` and `RowInv` (a request to pair owns its
rows until the code is answered), `CallInv` (what each request has written so far, and that no two write the same scan), `FileInv` (every
configuration, on disk or in an operation's hand, names a token answered to this machine and a scan that is whole). Tables only grow in what such claims
depend on (`TablesKeep`, `ScansKeep`), so an old copy of the file written back is still a true one: that is the argument of
`PairingsAreAsAnswered` and `RecordedSyncsAreStored`. `NoStrays` supposes that the cleanup statement itself does not fail. And `WatchTypeCorrect`.
`PagesAgree` adds `AgreeInv`. A sync that ran alone and is the newest of its device has no other sync that writes for the device, so at each of its steps (`KeepersAgree`) and once it
has ended (`Settled`) the recommendations and the device row are as it left them. A recorded sync is one of the device the file names, or older than every sync of it (`FilesAgree`), because a code is
completed only for a row that is not paired and so has no scans (`ScansArePaired`, `TasksAgree`).

**PromptVault_proofs.** `IInv` is the types of all places a data set may be in. `LatestVersionsAreRecorded` shows that every edit and the merge keep
`NamesItsVersions`, and that the state only moves data sets between places. `VersionsAreKept` is an action property, from the invariant `Mirrored`: what a
page shows is what its browser has stored. It says that a version keeps its chain and number and that its text gives way only to one not older; that a text
is never replaced is false (`vault_merge`). It supposes one page for each browser (`OneToOne`), since two pages of a browser overwrite each other's storage; the number of
browsers, and so of devices that write the same version, is free. And `VaultTypeCorrect`.
`QuietPagesAreSaved` needs two invariants more and no hypothesis. `DatedInv`: no data set anywhere holds the stamp of an edit that is still to be made, so a page that has changed since it
sent a save never shows that save's data again, except after a reset, which drops the records. `PageInv` (`OwnInv`, `SavedInv`): whenever the snapshot or a save under way agrees with
what is shown, so does the latest sent of this session's saves that was accepted, in whatever order they land (`Outrun`: once a save has landed those sent before it count no more).

**StudioChat_proofs.** `ServerInv`: a send that is thinking has a turn of its own that is not stored, every stored turn is in an open conversation, and
counts are twice the turns; the lemmas on `TurnsOf` carry the cardinality over each mutation. `PageInv`: what a handler waits for is the
request it made. `SubmittedTextIsKept` is about a text that was submitted while no other submission was under way, until one is, for any number of submissions in all: `Owed` says where it is at
each position of `handleSend`, in the field until it is posted, then in the request until it is stored or put back; `DueElsewhere` that the other submissions, whose handlers have ended, do not touch it.
`QuietPageIsTrue` rests on `QInv`: what the page has cached of
a conversation is what is stored, unless the page is owed a change: it missed one (section 5), its fetch is asked for, the conversation is deleted, or the change is not answered yet.
Results: `ChatTypeCorrect`, `MessagesAddUp`, `SubmittedTextIsKept`, `QuietPageIsTrue`.

**Only model-checked.** Liveness (`EveryJobEnds`, `StandardIsServed`, `OutageIsShown`, `RecoveryIsShown`, `ShownEditsReachTheCloud`), which is out of the
prover's reach. Every invariant and every action property that a passing run checks is also a theorem, some under a hypothesis that excludes what section 5 describes. No module the proofs reach declares a RECURSIVE operator.

## 5. What the code does not keep

Two disagreements are runs that TLC refutes, with the quoted statements under `findings` in `PROJECT.json`. In `store_split`, `mutate` loads its snapshot
without the advisory lock and overwrites what another process committed meanwhile (`store.py:962`, against `store.py:16-18`). In `vault_merge`, of two texts that two
devices wrote as one version of an entry the merge keeps the later and drops the other (`vault-state.ts:81`, against `docs/BLUEPRINT.md:670-671`).

The rest was met while modelling and decides which properties are stated, and which faults and instances the runs have.

Studio's pipeline:

- A whole-table `mutate` takes back what another process wrote since it was loaded: a claim, a status, a ledger entry. When a spend entry and
  its balance are taken back, the job is settled and the provider paid a second time, while the ledger shows one charge; when it was a release, nobody
  writes it again. So nothing is claimed about charging
  once ("duplicate completion callbacks are ignored", `STUDIO_RELEASE_LEDGER.md:800`) across processes; what each version of the table says is consistent in itself.
- A worker that boots with an empty queue ends its maintenance loop in its first idle pass, and nothing starts it
  again for a job created later by the web process (GS:185, 310).
- A worker takes a waiting job for missing because its own cache does not hold it, and discards it from the broker (GS:526).
- `initialize`, also of the web process, requeues running jobs whose lease is fresh (`generation_ops.py:172`).
- A job that maintenance enqueued before its own request did is compensated as failed while a worker renders and charges it (GS:978).
- A crash or shutdown between the two transactions of `_update_job_status` loses the release, and no later step writes it.
- A heartbeat or retry from a list made before a settlement re-opens the settled job; it may be completed a second time
  at another cost, while the ledger keeps the first amount.
- A job timed out by the sweep, released in full and then settled by a late render has a release and a
  spend that exceed the reserve together. The balance is right, the ledger reads wrong.
- With two workers, recovery and drain come before the retry verdict in a pass, so a claim that has expired and has no attempts left
  may be handed out once more, where `STUDIO_MAINTENANCE_MAP.md:895` says it times out.
- With two workers a stale claim may be beaten, or completed and claimed anew, between the listing and the requeue of a recovery, which then takes a live claim away
  (`generation_broker.py:400`); `JobsKeepTheirLane` is checked and proved with one.
- A cancelled `mutate` frees the asyncio lock while its thread goes on, so even one process may lose an update.

Control center: a service event that reports a failure opens an incident at once (`ocos-store.ts:709`), where the policy asks for repeated failures
(`docs/INCIDENT_POLICY.md:19`). The error of the insert into `codex_escalations` is not looked at (`ocos-store.ts:1067`), so an incident may be
marked escalated without its bundle.

Omnia Watch: the sync of an older scan that is answered late overwrites a newer summary; a code pairs twice when two completions overlap
(`CodeWorksOnce`).

OmniaPrompt: a first save that fails after its effect was cancelled is not shown. Every save overwrites the row and nothing orders the saves of a page, so an older one that lands last takes the row back
although the page says it is in sync: `QuietMeansSaved` says that the database has accepted what is shown, not that it still holds it. A merge keeps the local preferences whatever
their age (`vault-state.ts:56`). An edit that waits in its transition when the page hydrates is dropped (`vault-provider.tsx:270`); `ShownEditsReachTheCloud` speaks of what is shown.

Chat, page (`Chat.tsx`):

- The effect on `/chat?new=1` cancels its own creation when the mutation's state changes, and leaves an empty conversation behind (815-846).
- Deleting the active conversation leaves it the active one, whose messages cannot be fetched (766-772).
- Sending before conversation and list have loaded creates a new conversation (1160).
- An edit or regeneration that ends after the user moved on invalidates the conversation in view, not its own (782). `QuietMeansTrue` excepts it.
- Two submissions overlap while attachments are read (1150-1152), and a text can be lost, which `SentIsKept` excepts; a failed send overwrites a newer draft (1249), and posting clears what
  was typed while attachments were read (1171).

Chat, server (`chat_service.py`): an edit that overlaps a regeneration stores a reply to the older text (`RepliesAnswer`), and may change a turn that is no longer
the latest; two sends at once exceed the plan's limit (`LimitIsKept`).

## 6. Not modelled

Inside the modelled components: moderation, routing, asset upload and prompt snapshots of a generation (data no property tells
apart); Paddle webhooks, plans and top-ups (`Funds` is fixed); bootstrap of an empty table, the connection pool, the JSON and
SQLite back ends and the in-memory broker (development only); `improve_prompt`; automations and their schedule in the control center; the Windows collectors of
the watch and its account pages; the AI service of the vault; feedback, revert, attachments, visuals and intent classification of the chat.

Whole components are listed in section 1 and, with their sources and the reason, in `PROJECT.json`. Text rules, reports, HTTP routing, documents and
assets have no state that steps of several actors meet in. The large pages of Studio's client (`MediaLibrary.tsx`, `Create.tsx`, `Settings.tsx`, `Dashboard.tsx`) are
layout and polling around the same query cache whose rules `StudioChat` models, over operations that are one store transaction each.

## 7. What would come next

In this order; each module with its runs, mutants and, where it says so, theorems.

1. `GenerationDispatcher`: the lanes, the drain task and its semaphore as one coroutine among the tasks, implementing an abstract tracker
   (`tracked`, capacity) that `GenerationLifecycle` relies on. Theorems: types, capacity, refinement.
2. `CircuitBreaker`: overlapping calls, cooldown, probe slots, a call that is cancelled and one that began before the breaker opened.
3. `BillingPlans`: webhooks repeated and reordered, monthly credits, top-ups and reservations on one account; the lifecycle's `Funds` becomes its state.
4. `SpendGuardrails`: check and record around a provider call, several calls at once.
5. `LifecycleOverStore`: the lifecycle's transactions with the advisory lock, row locks and failing commits of `StudioStore`, instead of single steps.
6. A `chat` instance with two tabs.
7. `AccessSessions`, `RateLimiter`, `ModerationCases`, `LibraryTrash`, `IdentityDeletion`, `ProviderFallback`.
