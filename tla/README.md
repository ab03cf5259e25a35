# ContextPilot in TLA+

This directory specifies the parts of this repository that decide *whether a
request ends, what it is reported as, whether an action reached the page, and
under whose permission*. The source of every definition is the code;
`PROJECT.json` names the lines each definition stands for ("map"), the hazards
of the code at their lines, and the disagreements met while modelling it
("findings").

## 1. The system and its components

ContextPilot is a Chrome extension (`extension/`): a side panel sends Ask and
Act requests to a service worker, which reads the active page, asks a model
provider, proposes actions, waits for the user's review and dispatches actions
to a content script or to a bounded debugger session. A second, "target"
generation of the product (`apps/`, `packages/`) moves tasks to an agent server
with leases, an orchestration log and a dispatch journal.

| Component | State it keeps | Operations | What must hold | Module |
|---|---|---|---|---|
| Request lifecycle (`extension/src/service-worker/request-*.ts`, `chat-request-*.ts`) | request map, budget timers, chained saves, `chrome.storage.session` | start, run, resume, progress, finish, cancel, expire, restore | one unfinished request per tab; every accepted request ends; an ended one never changes; one whose action reached the page is never called failed; the marker is stored before the action | `RequestLifecycle` |
| Act drivers (`act-*.ts`) | sessions with a proposal, a plan, awaited values | discover, step, review, approve, dispatch, complete | a driver stops at the first check after its request ended | `RequestLifecycle`, `MutationRun` |
| Mutation coordinator (`state/mutation-coordinator.ts`, `confirmation.ts`, `value-slots.ts`, `run-coordinator.ts`) | proposals by digest, value slots, confirmation tokens, the run of a tab | propose, submit value, confirm, execute, terminal | what one reading of the page reserved is sent once, and never after its request ended; an answer releases only what it was asked for | `MutationRun` |
| Permissions (`policy/`, `permission-mode.ts`) | grants of a run, stored grants, denials | request, decide, revoke, clear for dispatch | what was revoked or denied lets nothing pass, also after a restart | `PermissionGrants` |
| Approval policy (`approval-runtime.ts`, `source-consent.ts`) | policy in memory and in storage, save boundary | save, provider update, disclose, consent | nothing is disclosed under an old policy | `ApprovalSettings` |
| Chat threads (`state/tab-chat-session-store.ts`, `sidepanel/entry.ts`) | threads, sequences, quota, ports | append, post, recover, resynchronise, clear | the panel shows the thread in order and without holes | `ChatThread` |
| Request client (`sidepanel/request-client.ts`) | last snapshot, poll timer, composer | start, poll, resume, cancel | the panel lets go of every request that is over | `PanelRequest` |
| Bounded debugger adapter (`cdp/`) | attachment, marker in session storage | attach, input, cleanup, abort, recover | nothing stays attached unknown to the marker | `BoundedCdp` |
| Target: task store (`apps/agent-server/src/tasks`, `packages/task-engine/src/durable`) | SQLite tables of tasks, leases, events, dispatch intents | admit, load, claim, advance, cancel, record, settle, prune, replay | a stale lease writes nothing; a step is dispatched once; budgets count all time and attempts; the history is neither incomplete nor wrongly certain | `DurableTask` |
| Target: orchestration (`packages/task-engine`, `orchestration-store`) | reduced task state | load, commit | only legal routes, only under the lease; COMPLETED only with known effects | `Orchestration` |
| Target: tool runtime (`packages/tool-runtime`, `policy-engine`, `browser-runtime`) | prepared calls, approvals, ledger, revocations, receipts | prepare, approve, execute, stop, cancel, acknowledge | one execution per call, as approved; true receipts; none after a stop | `ToolDispatch` |
| Target: session broker (`packages/browser-runtime/src/cdp`) | sets of tabs, rows of owners | session, detach, recover | a session has its row; nobody attaches to a tab in doubt | `CdpSession` |
| Target: migration (`apps/*/src/migration`) | journal, fence, staged rows, owner | prepare, copy, acknowledge, commit, roll back | one owner at a time; an active target is complete and current | `Migration` |
| Target: codebase repository (`packages/codebase-repository`) | graphs, receipts, datasets, recipes | commit, evict, pin, collect, manage | nothing is applied twice or comes back | `CodebaseStore` |
| Target: projection (`apps/*/src/bridge`, `src/ipc`) | leases, reads, transfers | publish, revoke, read, cancel, transfer | no read is answered whose lease or graph had gone before its last chunk was acknowledged; transfers do not overlap | `ProjectionRead` |
| Harness, providers, profiles, builders, settings forms, diagnostics | prompts, DOM evidence, graphs, forms | mostly pure functions | | none, see section 7 |

How they interact. In the shipped extension the panel talks to the worker by
messages (`CHAT_REQUEST_START`, `_RESUME`, `_STATUS`, `_CANCEL`, `ACT_APPROVE`,
`ACT_REJECT`, `WORKFLOW_SELECT`...) and hears of a run through the thread of its
tab. The request lifecycle and the runs are tied by callbacks: a terminal run
event of a tab ends *the tab's* request (`endTab`), a terminal request ends *the
tab's* run (`onTerminal`), activities move *the tab's* request (`progress`).
Navigation, tab removal, settings changes and timers end them from outside.
Session storage is written through one chain of saves and read only when the
worker starts.

In the target generation workers share one SQLite file. A worker claims a task
with a lease on its tab, advances it by events under that lease, commits the
orchestration under the same fence, records a dispatch intent before a tool call
reaches the browser, and settles it with the receipt of the tool runtime;
readers follow the event log by cursor, and retention deletes rows behind them.
Nothing but the tables is shared, so every worker acts on a row it read earlier.
The tool runtime has its own ledger in IndexedDB, and the bridge between the two
ends carries calls, cancellations and transfers that may cross each other.

What is hard: every `await` lets the request end under the driver; links go by
tab and not by id, so a late event can reach the next owner of the tab; saves
are asynchronous, may be refused and are cut off by a restart; duplicated
messages pass the same checks twice; two stores commit one after the other; and
promises such as "UNKNOWN once an action was sent" or "nothing after a stop" must
survive all of that. `PROJECT.json` "hazards" lists each hazard at its line with
the properties that cover it.

## 2. Modules

| Module | Models | Checked through | Proofs |
|---|---|---|---|
| `RequestLifecycle` | the worker's request map, drivers, runs, saves, restart | `MCRequestLifecycle` | `RequestLifecycle_proofs` |
| `MutationRun` | from an approved proposal to its one effect | `MCConversation` | `Conversation_proofs` |
| `ApprovalSettings`, `PermissionGrants` | the two stored policies | `MCApprovals` | `Approvals_proofs` |
| `BoundedCdp`, `CdpSession` | the two debugger adapters | `MCDebugger` | `Debugger_proofs` |
| `ChatThread` | the thread of a tab and the panel that shows it | itself | `Conversation_proofs` |
| `PanelRequest` | the request client and the composer | `MCConversation` | `Conversation_proofs` |
| `DispatchPromise` | abstract: what durable dispatch promises | implemented by the next two | |
| `DurableTask` | the task store | `MCTaskEngine`, `MCDurableTask` | `TaskEngine_proofs` |
| `ToolDispatch` | the tool runtime with its journal | itself | `ToolDispatch_proofs` |
| `Orchestration` | the reducer and store of a task's orchestration | `MCTaskEngine` | `TaskEngine_proofs` |
| `Migration` | the migration between the generations | `MCMigration` | `Migration_proofs` |
| `CodebaseStore`, `ProjectionRead` | the repository and the reads of it over the bridge | `MCCodebase` | `Codebase_proofs` |

Two components that share nothing may share a run: `MCTaskEngine`, `MCDebugger`,
`MCApprovals` and `MCCodebase` choose at the start which of the two a behaviour
drives (`driven`, `changed`), and at which scale; the other one rests in its
initial state. This adds no behaviour and hides none; it keeps the number of
runs small. What a scale restricts is said in section 3. `MCConversation` holds the
three parts of a tab's conversation, and each of its specifications drives one of
them: `PanelSpec` the request client, `MutationSpec` the proposed actions, and the
`Spec` of `ChatThread`, which it extends, the thread. It renames what the parts
call alike: the panel and the history of the client are `composer` and `tally`, its
stored rows `rows`, and the runs of `MutationRun` are the `Proposals`.

### RequestLifecycle

State. `requests` is `RequestStore.requests` with what the properties tell
apart: state, dispatch marker (`dispatch_started`), outcome, generation.
`budget` holds the requests with a `RequestBudget` timer. `runs[t]` is the
request that the coordinator's unfinished run of tab `t` was started for.
`at[r]` is the `await` on which the driver of `r` is parked and `bound[r]` the
generation in its `RequestContext`; a driver is never removed when its request
ends, it runs until a check throws, exactly as a pending promise does.
`detached` marks drivers that continue inside a panel message handler, whose
errors only return a code. `queue` is the promise chain of
`RequestPersistence.save`, each save with the drivers that await it; `disk` is
the row storage; `worker` is up, booting (the restored map is being saved) or
deaf (that save was refused). `effects`, `refused`, `failures`, `restarts` are
history.

Actions. `Start` … `StartRefused` are the START handler around its awaited
flush; `Activity` … `DiscoverFail` Act's discovery before a run exists;
`BeginStep` … `Decline` the steps of a run and the continuation of a review;
`Claim`, `Mark`, `Dispatch`, `MarkRefused`, `Abandon`, `PerformReturn` the
dispatch with its write-ahead marker; `Approve` … `Cancel` panel messages;
`Expire`, `PageChange`, `StopAll` the timers and events; `SaveOk`, `SaveFail`,
`Restart` storage and worker. `EndIn` is `finish()` with everything it calls:
the TERMINAL save before the outcome is set, the second save, the timer, the
run and the sessions of the tab. `Move` is `progress()`. `Progress`, `End`,
`EndTab` wrap them by caller.

Abstraction. What a step proposes, how a goal is judged and when users, pages,
providers or timers act is nondeterministic. The panel never reuses a request
id, owners carry no page epoch, retention outlives the behaviour; previews of
single tools and workflow selections that outlive the worker are left out.

Properties. `HonestOutcome`: cancel, expiry, page change, late answers and
restarts never call a request FAILED or CANCELLED whose action reached the page.
`WriteAhead`: the row on disk *and each save that still waits* would make a
restart at that moment report an effect honestly. `EffectIsMarked`: an action is
sent only while its stored row has the marker. `TabExclusive`: the registers of
who owns a tab agree although each is updated by tab from the other's callbacks.
`DriverIsBudgeted`: no driver sits on the way to the page without a timer.
`StorageCatchesUp`: no change of a request is left without a save behind it.
`StepIsolation`: a late handler changes no request but its own.
`EveryRequestEnds`: liveness.

### MutationRun

A handler is one panel message in flight (`ACT_APPROVE`, `ACT_VALUE_SUBMIT`,
`ACT_CONFIRM`, `ACT_REJECT`); messages may be duplicated, and the awaits of the
handler are its places. A run has one proposal of a kind: executed at once, with
a value, with a confirmation, a page API, a page method. Every `ACT_APPROVE` reads
the page again, and the digest the coordinator reserves covers the state it read
and the changes derived from it; so an *intent* is a run with a reading, and the
page may show any reading at any time. `reserved` are the intents of the
coordinator, `pending` the reading proposed last, `awaiting` what the session waits
for, `slots` and `tokens` the live value slots and confirmations, `inFlight` and
`consumed` the keys of the runners of page APIs and page methods. A run that takes
the tab over cancels the run before it, not its request. `MutationSafety`: whatever
is duplicated, an intent and a page call are sent once (`DispatchedOnce`), and an
intent that asked is released by the answer to itself, never by the answer to an
earlier reading (`AnsweredAsAsked`). It does *not* say that a run acts once: a
duplicate approval that reads the page after the first click changed it makes
another intent, which is not reserved, and clicks again (`OneDispatch`, a finding).
`NoDispatchAfterAbort`: nothing is sent after the request has ended, whichever
await its handler was in.

### ApprovalSettings and PermissionGrants

`ApprovalSettings`: one category of approval stands for all. `save[s]` is a
message of the settings page in the chain `queue`; a save closes the boundary,
writes, cancels the runs of every tab (`left`) and is answered; `update` is a
provider update that holds the same boundary. `request` and `analysis` disclose
under the policy they were admitted with. `PolicySafety`: what is disclosed is
disclosed under the policy in force and never behind a closed boundary, the
policy in force is the stored one, and no two saves are accepted against one
revision. `SavesAreAnswered`: also after a save before has failed.

`PermissionGrants`: a key is a capability on a host, kept for its run or stored
(never stored on a development host). Writes of the whole map are on their way
in order, a restart loses none of them but all of memory; messages are refused
until storage was read; the policy is "ask"; plan scopes are left out. A decision
is a request with its answer, a revocation goes through the tabs one await at a
time. `RevokedStaysRevoked` relates memory, storage and the writes on their way
to the decisions since the last acknowledged revocation. `DenialHolds`: a key
the user denied passes no gate until the user allows it or revokes everything.

### BoundedCdp and CdpSession

`BoundedCdp` is the adapter of the shipped extension on one tab: `act[a]` is the
progress of `execute()` of an action, `active`, `attached`, `aborted`,
`quarantined` say whether the sets of the adapter hold the tab, `marker` is the
row in session storage and `session` who is attached in the browser. Attach,
commands, detach and writes may fail; Stop, a page change, a detach by the
browser and a restart come at any await. `CdpSession` is the broker of the target
extension: bounded attaches may complete when nobody waits for them (`late`).
`AdapterSafety`: an action that runs alone attaches only under its marker and
leaves no session on the tab unless the tab is quarantined, and a receipt that
says an action was sent is honest. (Actions that overlap may leave a session,
see `cdp_overlap.cfg`; of them only the receipt is promised.) `InputIsGranted`: input
starts only for the run of the tab, and not after an abort when the action runs
alone. `AbortEnds`: an action that attached, and whose session a cleanup is about to
end or the browser ended, comes to its end though the page never answers a command of
it, and when it ran alone no session is left then or the tab is quarantined; the page
may keep it only by not answering `DOM.disable` or the clearing of the target, for
which the code sets no deadline. An abort that comes before the attach finds nothing to
clean up: the commands after it wait for the page. `BrokerSafety`: a session has its row at every
moment, a tab in quarantine or with a late attach keeps it, commands go to the
tab only while no other session is attached.

### ChatThread and PanelRequest

`ChatThread` is the thread of one tab: the store numbers events, keeps them under
a quota, writes them 250 ms later (approval events never) and posts them on the
panel's port; what the worker sends one panel arrives in order or is lost by a
restart. The panel drops what it has seen, asks for what it missed and reads the
whole thread again when it connects or its request ends. `ThreadSafety`: what is
shown is in order and without holes, a cleared chat stays cleared, and no
approval is offered that its worker does not know. `PanelSettles`: when the end
of a run is in the thread the panel leaves the run. Refused writes of session
storage and the removal of the tab are not modelled; `CHAT_CLEAR` asks in a modal
dialog, which blocks the panel.

`PanelRequest` is the request client: calls reach the worker in order and are
given up after five seconds, so an answer may come that nobody takes. A call is
handled together with its flush. `ends` are the requests whose `run_terminal` is
in the thread. `PanelSafety`: one request at a time runs in the tab, and the
panel shows none but the one submitted last. `LetsGo`: the panel lets go of every
request that is over or unknown.

### DispatchPromise, DurableTask and ToolDispatch

`DispatchPromise` says what the durable dispatch of a tool call promises, without
leases, journals, approvals or clocks: a step reaches the page through one call
only, a call has one verdict, and the verdict is true of the page for ever. The
task store and the tool runtime implement it (`KeepsPromise`, an `INSTANCE ...
WITH` in each).

`DurableTask`. `tasks`, `leases`, `log` and `intents` with `receipt` are the four
tables; a task row keeps the fields the guards read. `hand[w]` is the task row a
worker read or got back last and `prepared[c]` the context of a tool call; both
may be stale whenever they are used. `now` is `Date.now()`. `final[c]` is the
receipt the runtime wrote for a call, which may never be delivered. `effects`,
`recorded`, `granted`, `newest`, `resumer`, `ran`, `setbacks` are history. Each
operation of the store is one `BEGIN IMMEDIATE` transaction and one action:
`Admit`, `Claim`, `Advance` (with the reducer `From`/`To`/`Reduced` and the
accountant `Accounted`/`CanAccount`), `Cancel`, `Record`, `Settle`, `Prune`;
`Read` is `load()`, `Fence` is `assertFence()`, `Live` `assertLive()`. `Prepare`,
`Perform` and `Conclude` are the tool runtime as the store sees it: a context
bound to a lease, an effect that may come as late as after an uncertain receipt,
one receipt. A crash of a worker is a worker that acts no more. `Tick` and
`SetBack` move the clock. `Replay` is what a reader of the history gets. Left out:
admission digests and owners, failure codes and the goal, the argument checks of
`prepareStep()`. Leases are numbers in the order they were granted, where the code
draws random ids: only equality is compared. `AuthorityIsNewest`: a worker or a
prepared call whose lease ran out comes back after another task of the tab was
claimed, with the clock set back. `NoFalseCertainty`: lost receipts, late effects
and deleted rows never make the history call a dispatch known that is not.
`StoreSafety` collects resumption by the holder, accounting of time and complete
replay; that a step is dispatched through one call is part of `KeepsPromise`.

`ToolDispatch`. `call`, `grant`, `exec` and `ledger` are the prepared records, the
approvals, the calls of `execute()` at their awaits and the IndexedDB ledger; the
adapter an execution starts is a process of its own that runs on when the
execution gives up on it. `row`, `blocked`, `ready` are the stop of the task as it
is stored and remembered; `intents` and `synced` are the agent server's side.
`world` is the version of context, policy and registry. `CallSafety`: a call has
its effects under one execution and one approval, all in the context they were
approved in. `ReceiptsAreTrue`: no receipt, in the ledger or in memory, denies an
effect that came or *will still come*, and none confirms one without it.
`RevocationHolds`: neither a stop nor a cancellation is followed by an effect.
`ReservedSettles`: a reserved call gets its receipt unless the worker crashes.

### Orchestration

`row` is the state of the task in `orchestration_states`, `worker` what each
worker loaded and its lease; a commit reduces the row again in its transaction,
under the lease that `DurableTask` hands out (here only its number and whether
the deadline passed). Evidence and context digests are two facts of a transition.
`CompletedIsKnown`: a task that is COMPLETED has no dispatched step without an
answer or an unknown one. `NoBlindDispatch`: while a dispatched step has no
answer, by suspension, interruption or an unknown receipt, none is dispatched,
and a verified one never again. `OnlyHolderAdvances`: the holder of an older
lease, and everybody after a stop or the deadline, leaves the task as it is.

### Migration

`session[p]` is a coordinator between its transactions; `journal` and `fence` are
the rows in SQLite, `frozen`, `source` and `ownerAck` the browser, `sent` the
commands on their way, duplicated and late. `Abort` stands for every failed check
and for a crash. The check of the fence is merged with the journal write that
follows it, except in `Activate`. Left out: the converters, what drains wait for,
credentials of the settings, installed files, the checks of a resume. `MigrationSafety`: at every crash
point the journal, its owner and the pointer of the active namespace agree, and
an active target is completely staged. `CommitsAreCurrent`: what is activated is
of the sources that were seen frozen and of the epoch acknowledged last.

### CodebaseStore and ProjectionRead

`CodebaseStore`: all IndexedDB stores are one set of rows of one unit each; the
entities and edges of a graph go with its page row; a call that throws is no
step. Control by profile, recipes of recorded sources and the filters of readers
are left out. `StoreSafety`: a batch is applied once though its page is evicted
and starts again at revision zero, a dataset that can be read is of the very
graph it was collected from, a deleted recipe does not come back by an older
import, and a manager deletes only what it listed.

`ProjectionRead`: the extension publishes leases bound to a revision of the
graph, the agent asks reads of them, the endpoint serves one read at a time and
sends the packet as a transfer of one chunk. Each call has its digest computed
before it is posted, and digests may be ready in any order (`posting` is a set): a
revocation may overtake the offer of its lease. A call is refused while four are
unanswered, once before its digest and once after; `Others` of the four may belong to
other traffic of the bridge. The lease is validated three times for a read, by the
projection itself, before the transfer opens and before it completes, and each
validation reads the repository again (`look`: asked, and what was seen), while
leases end, documents leave and the graph changes. Only the projection is raced with
the deadline and the signal of the read; an aborted or late read whose validation
fails still loses its lease. Left out: the bridge's own timeout of five seconds and
the quotas of 128 and 256 ids.

`AnsweredFresh`: no read is answered whose lease was revoked, whose document left or
whose graph changed before its last chunk was acknowledged, and no transfer opens
with a packet whose lease had gone when it was read and hashed. A change after the
last validation has read the repository, while the completion is hashed or on its
way, may be overtaken by the answer: the code checks no further, and the property
claims no more. Without the last validation it fails, which is its mutant. Transfers
never overlap at the agent either, unless the call that cancels one found the bridge
full: then the endpoint goes on to reject the read while the transfer stays open at
the agent, and the next read ends the connection (`projection_full`).

`ReadsSettle`: the endpoint works its queue off although the repository may never
answer a projection, *unless* it is stopped in one of the two validations of
`sendProjection` (`Stalled`), which await the same repository without a deadline: there
one read keeps all that follow it, for good. And the agent forgets a lease that is
revoked while it knows it; of a revocation that overtook its offer nothing is
promised, the agent then keeps a lease that no read will be served of.

## 3. Runs

| Run | Instance | Properties |
|---|---|---|
| `lifecycle_safety` | 2 interchangeable requests on one tab, 1 resume, 2 effects, 1 refused save, 1 restart | `HonestOutcome` `WriteAhead` `TabExclusive` `DriverIsBudgeted` `StorageCatchesUp` `EffectIsMarked` `StepIsolation` |
| `lifecycle_liveness` | 2 requests on 2 tabs, fairness, 1 refused save | `EveryRequestEnds` |
| `task_engine` | the store: 2 tasks of one tab, or 1 task with 2 calls; the orchestration: 1 worker to the end, or 2 with reclaims | `StoreSafety` `AuthorityIsNewest` `NoFalseCertainty` `KeepsPromise` `CompletedIsKnown` `NoBlindDispatch` `OnlyHolderAdvances` |
| `tool_dispatch` | 2 calls of a step, 1 grant, 2 executions, 1 change of the world, 1 stop or cancel, 1 crash | `CallSafety` `ReceiptsAreTrue` `RevocationHolds` `KeepsPromise` `ReservedSettles` |
| `debugger` | 2 actions of the adapter (overlapping, or one alone), or 3 sessions of the broker; 1 restart, fairness | `BrokerSafety` `AdapterSafety` `InputIsGranted` `AbortEnds` |
| `mutations` | any 2 of 4 runs of four kinds, 3 of them on one tab; 2 readings, 2 messages in flight | `MutationSafety` `NoDispatchAfterAbort` |
| `approvals` | the policy: 2 saves, or 1 and a restart; the permissions: 1 decision among 2 tabs, or 2 in one session; 1 revocation, 1 restart | `PolicySafety` `RevokedStaysRevoked` `SavesAreAnswered` `DenialHolds` |
| `migration` | 2 units, 2 coordinator sessions, 2 epochs, 7 journal writes, 1 command in flight | `MigrationSafety` `CommitsAreCurrent` |
| `chat_thread` | 1 run that publishes and 1 that is asked for, quota 9, 2 events besides the end, 1 restart, 1 clear, 1 reopened panel | `ThreadSafety` `PanelSettles` |
| `panel_request` | 2 requests, 1 timeout | `PanelSafety` |
| `panel_liveness` | 1 request, 1 restart or selection, 1 timeout, fairness | `LetsGo` |
| `codebase` | the store: graphs and datasets, or recipes and managers, capacity 8; the reads: 1 lease, 2 reads, 1 change of the graph, 4 calls of which 3 may be of others, fairness | `StoreSafety` `AnsweredFresh` `ReadsSettle` |

Why the bounds are enough. Interference in the worker goes by tab, where at most
one request is unfinished: two requests are the smallest instance in which an old
driver meets a new owner, a third adds only more of the same stale drivers.
`MaxEffects = 2` gives a second marker, `MaxGeneration = 1` a resume,
`MaxQueue = 2` lets a step save while two saves wait. Tasks interfere through the
lease of their tab, so two tasks and two workers give every kind of stale holder;
`MaxLeases = 2` gives one reclaim, one setback of the clock a lease that comes to
life again; pages of two rows and replies of one make both cuts of a reply
happen. Three steps against an attempt budget are not in a run: `BudgetHolds` is
proved. Two executions of two calls of one step meet in the ledger, in the intents
and in the one grant. Three broker sessions give a late attach, the session that
waits and one that comes after. Any two of four runs (`MaxStarted`) meet in one tab or
on two, with a message each or two copies of one; two readings let a second approval
differ from the first. An action executed at once does what a confirmed one does whose
confirmation the policy gave, and is in no run of its own. Two units make a copy partial; epoch 2 is
a second fence. Capacity 8 forces eviction while two pages, their versions,
receipts and datasets compete. Two reads let one be served while the other waits, is
cancelled or late; they are alike and are asked in one order, and a behaviour ends its
lease either by the graph or by its admission (`Ordered`), which the proofs do not
assume. Two limits are scaled: `ReadLimit` is 2, and one chunk stands for the packet. The
worker of the client saves its rows at leisure, and where no restart is left to read
them (`Read`) it does so only with the calls that flush them. One restart, one refused write or one timeout makes
each single failure happen at every point; for what is proved (section 5) any
number may happen.

What a run leaves to a theorem, which has any number of everything: that the map of
requests and the coordinator name the same owner of a tab (`RunOwnership`); a stop
between two commands of an adapter (`RevocationsHold`; the runs have one command); a
save of the approval policy that awaits between several tabs (`PolicyIsSafe`; the run
has one); a rollback after the seventh journal write (`MigrationIsSafe`,
`CommitsCurrent`); a second receipt of a call after a reclaim (the store's
`PromiseKept`); a second run that publishes to a thread, and events published after a
restart (`ThreadIsSafe`; in the run the second is only asked for); restarts and resumed
requests of the client (`PanelIsSafe`). `StorageCatchesUp` speaks of behaviours in which
storage refuses no save: what a restart finds after a refusal is the matter of
`WriteAhead` and `HonestOutcome`.

Every bound is a named constant in a guard. Deadlock is not
checked: with its bounds exhausted every one of these systems may stop.

Where the code does something else than a document, a test or an assertion says
of it, a cfg checks that statement alone and TLC finds the behaviour. They are
run by hand (`tlc -config X.cfg M`):

| Cfg | Module | Refuted statement | What happens |
|---|---|---|---|
| `second_marker` | `MCRequestLifecycle` | `DispatchedNeverFailed` | a refused later marker deletes the first; the request ends FAILED after an effect |
| `terminal_crash` | `MCRequestLifecycle` | `DispatchedStaysTold` | a restart between the two saves of `finish()` loses the outcome |
| `old_activity` | `MCRequestLifecycle` | `NewRequestIsolated` | the discovery of a cancelled request moves the next one |
| `unbudgeted` | `MCRequestLifecycle` | `RunningIsBudgeted` | the moved request is skipped by `startRun()` and gets no budget |
| `double_approval` | `MCConversation` | `FailedIsUnsent` | a duplicate approval of a page API fails the run whose call is in flight |
| `double_approval` with `OneDispatch` as its invariant | `MCConversation` | `OneDispatch` | a duplicate approval reads the page after the first click changed it: another digest, a second click |
| `cdp_overlap` | `BoundedCdp` | `NoSessionLeak` | the cleanup of one action clears flags and marker of the other |
| `chat_gate` | `ChatThread` | `NoInheritedGate` | a run cut off by a restart hides the runs after it |
| `panel_told` | `MCConversation` | `EndIsTold` | after a restart the revision is lower than the one seen; the end is not shown |
| `panel_stop` | `MCConversation` | `StoppedIsFreed` | a Stop before the run begins leaves the composer locked |
| `expired_tasks` | `MCDurableTask` | `DeadlineEnds` | the guard that refuses work after the deadline refuses the events that would end the task |
| `failed_dispatch` | `Orchestration` | `AmbiguityIsShown` | a task that fails out of a dispatch is shown as known |
| `codebase_lru` | `CodebaseStore` | `LeastRecentGoes` | a page written again and again is evicted before one written once |
| `projection_cancel` | `ProjectionRead` | `BridgeStays` | a read asked just after a cancellation closes the bridge |
| `projection_full` | `ProjectionRead` | `GivenUpIsCancelled` | a cancellation that finds the calls full is dropped; the transfer stays open |

`PROJECT.json` "findings" quotes the statements, and four more that need no run:
the no-op receipt that stays unknown (`receipt-status.ts`), the rejected debugger
command whose input the page received, sequences given a second time after a
restart, and a review result that no poll asks for.

## 4. Fairness

* `RequestLifecycle`: storage answers every save, the handler woken by an answer
  continues (promise callbacks), a running timer fires while its request is
  unfinished (`setTimeout`). Nothing is assumed of drivers, users, providers or
  pages. `lifecycle_liveness` puts the requests on different tabs: on one tab
  `unbudgeted` shows the request that no timer ends.
* `DurableTask` (only `expired_tasks`): time passes, workers read, reclaim
  abandoned tasks and report failures when they may. Cancelling is a user's choice
  and is not assumed.
* `ToolDispatch`: the timers of `bounded()` fire and IndexedDB transactions end.
* `MCDebugger`: what the bounded adapter asks of the browser itself settles: session
  storage, attach and detach. A command is rejected once its session has gone. Nothing
  is assumed of the page: not of a command while the session stands, of
  `DOM.disable`, nor of the message that clears the target, which are awaited without
  a deadline. Nothing is assumed of the broker.
* `MCApprovals`: calls of the browser come back to a save; nothing is assumed of
  the permissions.
* `ChatThread`: messages are answered and delivered, the reconnect after 250 ms
  and the poll run. `PanelSettles` holds below the quota, which drops events.
* `PanelRequest`: the poll timer fires, calls are handled, each kind of answer is
  taken, events are shown. A user does nothing unless asked.
* `ProjectionRead`: digests are computed, messages delivered and answered, timers fire,
  deadlines pass, and code that waits for nothing runs; no read of the repository need
  return (`ReadBefore`, `ReadAfter`, `CatalogRead`, `PublishChecked`). It is one condition
  for all these steps, which use up what they act on, so that none starves another.

All of it is weak fairness: every assumed step stays enabled until it is taken.

## 5. Proofs

TLC checks the instances above; the theorems hold for every value of the
constants, from the named assumptions of the modules (constants that stand for
"none" are fresh, bounds are naturals, a function constant has its domain).
Every invariant is proved from an inductive one, each action by a step of its
own; the part a plain invariant lacks is said below.

| Module | Theorems (property of a run) |
|---|---|
| `RequestLifecycle_proofs` | `TypeCorrect`, `Invariance`, `OneRequestPerTab` (`TabExclusive`), `RunOwnership`, `BudgetRuns` (`DriverIsBudgeted`), `Honesty` (`HonestOutcome`), `MarkerAhead` (`WriteAhead`), `CatchesUp` (`StorageCatchesUp`), `EffectsMarked` (`EffectIsMarked`), `Isolation` (`StepIsolation`), `Finality` |
| `Conversation_proofs` | the thread: `ThreadInvariance`, `ThreadIsSafe` (`ThreadSafety`); the request client: `PanelInvariance`, `PanelIsSafe` (`PanelSafety`); the actions: `MutationInvariance`, `SentOnce` (`MutationSafety`), `EndedIsSilent` (`NoDispatchAfterAbort`) |
| `Approvals_proofs` | `PolicyInvariance`, `PolicyIsSafe` (`PolicySafety`), `GrantsInvariance`, `RevocationHolds` (`RevokedStaysRevoked`), `DenialIsKept` (`DenialHolds`) |
| `Debugger_proofs` | `Invariance`, `BrokerIsSafe` (`BrokerSafety`), `AdapterIsSafe` (`AdapterSafety`), `InputGranted` (`InputIsGranted`) |
| `TaskEngine_proofs` | the store: `TypeCorrect`, `Invariance`, `Authority` (`AuthorityIsNewest`), `Resumption`, `Finality`, `TimeKept`, `DispatchedOnce`, `BudgetHolds`, `CertaintyIsTrue` (`NoFalseCertainty`), `ReplayComplete`, `StoreIsSafe` (`StoreSafety`), `PromiseKept` (`KeepsPromise`: the store implements `DispatchPromise`); the orchestration: `PlanInvariance`, `CompletionIsKnown` (`CompletedIsKnown`), `NoneIsBlind` (`NoBlindDispatch`), `HolderAdvances` (`OnlyHolderAdvances`) |
| `ToolDispatch_proofs` | `Invariance`, `CallIsSafe` (`CallSafety`), `ReceiptsTrue` (`ReceiptsAreTrue`), `RevocationsHold` (`RevocationHolds`), `PromiseKept` (`KeepsPromise`: the runtime implements `DispatchPromise`) |
| `Migration_proofs` | `Invariance`, `MigrationIsSafe` (`MigrationSafety`), `CommitsCurrent` (`CommitsAreCurrent`) |
| `Codebase_proofs` | `StoreInvariance`, `StoreIsSafe` (`StoreSafety`), `AnswersAreFresh` (`AnsweredFresh`), `TransfersStayInOrder` |

*RequestLifecycle.* `Typing` strengthens `TypeOK` by what keeps its bounds:
generations of unfinished requests are below the bound, a driver on its way to
the page has an effect left, a save wakes only drivers that are parked on it and
no driver is parked on two. `Ownership` states the tab's exclusivity pointwise.
`Telling` carries the write-ahead argument through the queue: no save of an
unfinished request tells an end (`RowsOpen`); from the save a marking driver
awaits, every later save has the marker (`MarkerWaits`), so when it lands the
disk and the whole queue have it (`MarkerStored`), which is what `Dispatch` needs
to establish `EffectsTold`; that is preserved by every ending because `Honest`
maps marked failures to UNKNOWN, and by `Restored`. `CaughtUp` says the last save
is of the map as it is. Each action is reduced to a *shape* (which maps it saves,
what it does to runs and timers, how drivers move) and four lemmas carry the
invariant over any step of that shape; storage answers, restart, start and
dispatch are proved directly. `Isolation` follows because the run of a tab
belongs to the unfinished request of that tab; `Finality` because every handler
that changes a row checks that it is unfinished, except the one whose marker was
refused.

*MutationRun.* Each kind has its own reason to be sent once. The intent of a reading is
reserved by its digest before anything else happens to it (`ReservedFirst`) and is
then carried by one message (`SendsOnce`) or waits in one slot or token, unsent and of
a run that is not over (`HeldIsOpen`); what leaves a slot or token leaves it for good,
so no answer finds it twice. A page API is guarded by its key in flight and then
consumed, a page method by its consumed key (`CallsOnce`). None of it bounds how many
intents a run has. `AbortedIsOver`: a request that ended has no run that is not over,
so every check after an await fails.

*ChatThread.* The invariant looks at all the events there are: in the store, in
session storage and in the messages on the wire (`Around`). They are of one
thread, the one of the store, and born in the order they are numbered
(`AroundOK`, `Lineage`), also after a restart, because the restored store goes on
above the highest number that was written, and what it had numbered beyond is lost
with the wire. So it is enough that the panel would take only what was born after
all it has taken (`OfferedOK`): an event that is above what the panel has seen is
above what it was offered. `SequencesGrow` fails after a restart, and this is why
`ShownInOrder` speaks of births. While the worker lives, a message that reads the
thread has every transcript event below its last one that the panel has not seen
(`WireWhole`), and a live event is taken only when it is the next one; hence what
the panel has come to it was offered (`PassedOK`). A conversation is thrown away
by one erasing write and then one message: until the message is read the store is
fresh and no run is live, and nothing behind the message carries an event
(`ClearOK`), so the panel forgets its sequences only when no event is left that it
could mistake. `PastOK` counts: a thread begins only in a first request, after a
clear or after a restart, which keeps the thread ids in `Threads`. What `filter()`
keeps and what reading a whole thread does to a panel are recursions (`Within`,
`ApplyAll`); the prover cannot do induction over data, so their facts
(`KeptPicks`, `ReadWhole`) are proved by a least counterexample. `Runs` is finite
because every run may publish one event after the bound.

*PanelRequest.* A client that asks, asks about the request submitted last, and what
is shown is of it (`Asks`): an answer is taken only when it is of the client's id,
and a client that was reset asks nothing. A row is live only as one of its tab
(`Alone`), since `START` is refused while another one is; a restart ends every row
it restores. A live row has a revision to spare for its end (`Rows`), also in
session storage, where a restart takes it from; this needs `MaxRevision > 0`,
because an accepted request is stored with revision 1.

*Approvals.* One save runs, the head of the chain (`OneRuns`); a revision is
counted by the saves that are over (`RevisionsCount`), so no two are accepted
against one; a request follows the policy in memory, or a second pass is about to
cancel it, or the boundary is closed after a failure (`RequestsFollow`,
`AnalysisFollows`). For permissions: the write of a revocation and all writes
after it allow only what was decided since it began (`RevocationWrites`), so
nothing older lands later; the tabs a revocation has passed have no session with
a clearance from before (`SessionsReached`); the newest snapshot, in memory or in
the last write on its way, keeps every denial (`DenialKept`).

*Debugger.* The broker runs one session at a time (`OneSession`); a session past
its mark owns the row (`RowOwned`), and gives it back only when it met a denial or
detached itself: no attach is on its way then and nobody is attached
(`GivenBack`). The bounded adapter is honest however actions overlap
(`UnsentIsUntold`). For an action that runs alone `AloneInv` follows it from
marker to cleanup: the session is known or seen gone, and left clean or
quarantined. That it runs alone is the condition `cdp_overlap.cfg` shows to be
needed; `a1` is any action.

*DurableTask and TaskEngine.* One lemma for each operation says which row it
writes (`ClaimFacts`, `AdvanceFacts`...), so that the invariants never look into
the accountant again. A row of the lease table is the newest lease of its tab
(`RowIsNewest`), and the fence compares with that row: the check of the task's own
lease would not be enough when the clock goes back. A task that holds or runs was
claimed before (`Claimed`), so a claim of it suspends. An intent is deleted only
after its task has ended (`IntentsKept`), which no recording follows, so the
intents that are left are enough to refuse a second dispatch. Attempts bound the
recorded calls from above (`AttemptsCounted`) and intents are recorded calls, so
attempts no greater than intents mean that none is missing; the receipts left are
true (`ReceiptsTrue`). `ReplayComplete` needs no invariant of the log beyond its
order: the cut of a reply falls behind the events it passes over. For the
orchestration, the state a worker loaded is one the row has had (`ViewIsHistory`),
a dispatched step is active, ambiguous or answered (`DispatchedAnswered`), and
what is verified was answered (`VerifiedIsCompleted`). `TaskEngine_proofs` carries
both over to the behaviours of `MCTaskEngine`.

*ToolDispatch.* The reservation in the ledger survives a crash and has one holder
(`HeldOnce`), whose intent is the one recorded for the step (`StepTakenOnce`).
What an execution carries through its awaits (`CarriedAlong`) and the world it is
pinned to when it starts (`StartedPinned`) are those of its approval, so a late
effect of an adapter that was given up is still `AsApproved`. `VerdictsTrue`
speaks of the adapter as well as of the page: an execution that may write
"untouched" has no adapter that will still send. `RevocationsKept`: a stop row
blocks the task once it was read, and a cancellation leaves no approval.

*Migration.* A session acts on the journal it read, and its write is refused if
the revision changed. `Fits` says what it still knows while it did not: nobody
acknowledged after its fence, moved the pointer back before its commit, or forth
before its rollback is noted. The browser's acknowledgment is of the checkpoints
of the journal, which do not change once complete (`OwnerKept`); whatever has a
checkpoint, in the journal or on the wire, is staged (`CheckpointsStaged`).

*Codebase.* The store: keys are unique because a write replaces what has its key.
Receipts and deletion marks are never evicted, so what was applied has its receipt
(`ReceiptsKept`) and what was deleted its mark, at least as high as the highest
revision that went (`MarksKept`); an eviction takes the datasets with their page,
so a dataset of the present revision is of the present graph although revisions
start again (`DatasetsFollow`); while the catalog is the one a manager listed,
what it listed is there or was evicted (`ListedOrGone`). From `NumbersAreNatural`
alone, for every capacity. The reads: the endpoint makes one call for a read at a time
(`OneTransfer`), for the head of its queue and in the step it stands in
(`TransferServed`), in whatever order digests are ready. While a read is in one of its
last two validations, a lease that still holds and fits the graph, or was seen to fit
it, held and fitted when the stage before was over, because leases and graphs only
move on (`Looked`); so what opens or completes a transfer is of a read whose lease held
at that stage (`GoodCalls`), whatever aborts or refuses the read meanwhile. The
transfer open at the agent is the one of the call under way, or its timer forgot it and
the deadline has passed (`TransferFollows`); only a cancel that a full bridge refused
breaks that (`LeftOpen`), and the disjunction of the two is inductive (`InOrder`). Both
theorems are of all behaviours of `ProjectionRead` (`Projection!Spec`), not only of
those in the bounds of the run, which are among them (`RunReads`).

## 6. Only model-checked, and the plan

Liveness and ENABLED are out of the prover's reach: `EveryRequestEnds`,
`ReservedSettles`, `AbortEnds`, `SavesAreAnswered`, `PanelSettles`, `LetsGo`,
`ReadsSettle` are checked by TLC alone. Every safety property of the runs is
proved.

Next, in this order:

1. the arithmetic of `RequestBudget` (180 s of cumulative running time, 300 s of
   waiting);
2. the connection of the bridge with its handshake and event replay.

## 7. Not modelled, and why

Rendering, settings forms, redaction, schema validation, provider HTTP clients,
profile learning, harness prompts and DOM evidence rules, content scripts, and
codebase builders and queries are pure or external: their results appear as
nondeterministic choices where they matter. Plan scopes and the evaluation of
rules are pure as well. The request router of the agent server, MCP, the
handshake and event replay of its IPC, the converters and drains of the migration
and the removal of a tab are logic without a module yet. Scripts, examples,
native-host installation and deployment are not part of the running logic.
