# TLA+ models of Paseito

Paseito runs coding agents (Claude, Codex, OpenCode and others) in a daemon on the
user's machine, and lets clients (mobile and web app, desktop, command line) start
them, talk to them and watch them over WebSockets, directly or through a relay.
The daemon is one Node.js process: there are no data races, but nearly every
operation awaits something (a provider, a file, git, a timer), so that many
operations are half done at the same time and each of them goes on with state that
others changed meanwhile. Sockets come and go, clients retry, and the daemon is
killed and restarted over the files it wrote. These modules are about what has to
hold in spite of that.

Modules, configurations and proofs lie flat in this directory. `PROJECT.json` lists the
components, the runs, the code each definition models, the theorems, the hazards
and the findings.

## 1. The system

| Component | Code (below `packages/`) | State | Operations |
|---|---|---|---|
| Agent turns | `server/src/server/agent/agent-manager.ts`, `agent-run-state.ts`, `agent-prompt.ts` | per agent: lifecycle, tracked run, open foreground turn, active turn, finished turns, lane of foreground mutations, queue of session events, steer barrier, staged events | send, replace, steer a prompt; Stop; the events of the provider |
| Creation journal | `server/src/server/creation/` | record and claim files, active runners, observers, the admission chain | create, join, replay, retry, subscribe, import of older receipts |
| Message receipts | `server/src/server/message-receipts/` | receipt files, chain of promises per key | send with a message id, retried |
| Directory sync, daemon | `server/src/server/directory-sync/` | versioned collections of projects, workspaces, agents: entries, tombstones, head, expired number | sequence an update, synchronise with a listing, read from a cursor |
| Directory sync, session and client | `server/src/server/session.ts`, `app/src/runtime/directory-sync/`, `app/src/runtime/replica-cache/` | update queues of sessions; cursors, rows, transactions, persisted rows of the client | refresh, live update, demand, reconnect |
| Creation, client | `client/src/creation/` | operations by key, their last snapshot | submit, reconnect, receive |
| Agent lifecycle and storage | `agent-storage.ts`, `agent-loading.ts`, `lifecycle-command.ts` | stored records, loaded agents | load, close, archive, delete, reload |
| Rewind | `agent-manager.ts`, `agent/rewind/` | a lock kept as a pending run | rewind conversation or files |
| Timeline store | `agent-timeline-store.ts`, `timeline-projection.ts` | per chat: epoch, numbered rows, the entries they project to | append, replace on rewind or reload, cut a page |
| Timeline sync, client | `app/src/timeline/`, `app/src/types/stream.ts`, `client/src/timeline-subscription/` | per chat: transcript, range of rows it covers, catch-up, queue of live rows, persisted transcript | live row, page, catch up, retry, open, close, paint, older history |
| Stream coalescer, permissions, subagents | `agent/` | short buffers, open requests | merge chunks, answer requests |
| Owned subscriptions, daemon client | `client/src/connection/`, `client/src/daemon-client.ts` | subscriptions that outlive sockets, pending requests | subscribe, release, reconnect |
| WebSocket server, sessions | `websocket-server.ts`, `session.ts` | sessions, their disconnect grace, update queues | routing of some 300 messages |
| Workspaces and worktrees | `workspace-*.ts`, `worktree-*.ts`, `auto-archive-on-merge/` | registries, worktrees, setup runs | create, archive, reconcile |
| Git, forges, schedules, hub, relay | `workspace-git-*.ts`, `services/`, `schedule/`, `hub/`, `packages/relay` | caches, timers, pairings, channels | fetch, poll, run on time, pair |
| Providers | `agent/providers/` | processes and sessions of external agents | start, interrupt, steer, resume |
| Terminals, files, voice, browser tools, plugins, push, proxy | their directories | mostly I/O | |
| Front ends, protocol, libraries | `app`, `cli`, `desktop`, `website`, `chrome-extension`, `protocol`, `highlight`, `plugin`, `expo-two-way-audio` | views, schemas | |

How they meet. A prompt reaches `session.ts`, passes the message receipts, and becomes a
call of `AgentManager` (start, replace or steer). The provider session answers with events that
go through a per-agent queue into the agent's state and timeline, and from there to
subscribed sockets. A creation passes the creation journal, whose runner calls
the workspace and agent owners and finally the same prompt path. Changes of
projects, workspaces and agents are numbered by directory sync on their way to every
session, and clients that missed some ask by cursor.

What is hard in it:

* an operation reads state, awaits, and goes on (every cancellation, replacement, steer);
* the order of promise continuations decides who starts next when a lane is freed;
* provider events arrive before the call that caused them returns, late, twice, or not at all;
* a provider refuses an interrupt, or its turn ends while it is being interrupted;
* the daemon dies between an effect and the record of it;
* a client whose answer was lost repeats a call while the first one still runs;
* a listing captured earlier is applied after newer changes; removals are forgotten
  after a while, and cursors may be of a former daemon process.

What each component must guarantee is stated with its module below; for those not
modelled yet it is part of the plan (section 6). `PROJECT.json` lists the hazards at
their lines.

## 2. The modules

| Module | Is about | Lines of code it stands for |
|---|---|---|
| `AgentTurn` | the turns of one agent | `agent-manager.ts` (lane, send, replace, steer, cancel, event queue, terminal and start events), `agent-run-state.ts` |
| `ForegroundTurns` | what a client may rely on: the abstract specification `AgentTurn` implements | |
| `AgentTurnProofs` | theorems about `AgentTurn` | |
| `CreationService` | the creation journal | `creation/index.ts`, completely |
| `CreationClient` | one creation as a client sees it, composed with the journal | `client/src/creation/index.ts` (submit, reconnect, receive, settle) |
| `CreationProofs` | theorems about `CreationService` and `CreationClient` | |
| `MessageReceipts`, `MessageReceiptsProofs` | delivery receipts | `message-receipts/index.ts`, completely |
| `Collections` | the versioned collection as operators: no state of its own | `directory-sync/internal/versioned-collection.ts`, completely |
| `DirectorySyncService` | a collection that changes, with readers that follow it by cursor | `directory-sync/index.ts`, the read and merge steps of the client |
| `CollectionsProofs` | lemmas about `Collections` | |
| `DirectorySyncServiceProofs` | theorems about `DirectorySyncService` | |
| `DirectoryReplica` | the workspaces of one host from the registry to the app: sessions, refreshes, cursor, the copy on the device | `session.ts` (workspace updates and listings), the app's `directory-sync/`, `replica-cache/` |
| `DirectoryReplicaProofs` | theorems about `DirectoryReplica` | |
| `TimelinePages` | the daemon's projection of a chat and the pages it cuts: operators only | `timeline-projection.ts`, the page selection |
| `TimelineStream` | what the app keeps of a chat, and what pages and rows do to it: operators only | `session-stream-reducers.ts`, the replacement of `stream.ts` |
| `Timeline` | the two over time, with subscriptions, catch-ups and faults between them | `viewed-timeline-sync.ts`, the store, and the handlers that connect them |
| `TimelineProofs`, `TimelineCatchUpProofs` | theorems about `Timeline` | |
| `MC...` | values of the constants for TLC | |

An operator preceded by a comment that starts with *Mutant:* is not part of a model. It
is a version of the operator after it with a plausible bug; `PROJECT.json` lists for each property
the one that breaks it, which shows that the property does depend on that code.

### AgentTurn

One step is what the event loop runs without interruption: a client call, a timer,
a provider callback, or a continuation. Most continuations of one task run at once. Where
their order decides who wins they are steps of their own: `micro` is the list of continuations to
run before the next task, `queue` the chain of session events. `lane` is the queue
kept by `runForegroundMutation` (agent-manager.ts:2843): cancellations and steers wait in it, plain starts
do not.

| In the model | In the code |
|---|---|
| `agent.run`, `agent.settled` | the tracked run of `AgentRunState` and which `settledPromise`s have resolved |
| `agent.fg`, `agent.active` | `activeForegroundTurnId`, the active turn of the timeline |
| `agent.replacing` | `pendingReplacement` |
| `agent.finalized`, `agent.waiters` | recently finished turns, foreground turn waiters |
| `staged`, `barrier`, `steering` | events held back until `startTurn` answers, or a steer is admitted |
| `Send`, `StreamAgent`, `StartResolves`, `StartRejects`, `StreamEnds` | `startAgentRun`, `streamAgent` and the return of `session.startTurn` |
| `Stop`, `CancelStarts`, `InterruptAcknowledged`, `InterruptRefused`, `CancelCompletes`, `CancelTimesOut`, `CancelResumes` | `cancelAgentRun` and its awaits |
| `SteerStarts` ... `SteerResumes` | `steerOrReplaceActiveTurn` |
| `DispatchNext`, `Handle` | `dispatchSessionEvent`, `handleStreamEvent` and the handlers it calls |
| `ProviderAccepts`, `ProviderBegins`, `ProviderOutputs`, `ProviderEnds` | the provider, external: any session that keeps the interface |

What a prompt says, what output contains, persistence, and the coalescing of text are
left out. An agent has one session throughout; rewind, close and reload are not in it yet. A provider runs one turn of its own at a time, as
both that have such turns do (`claude/agent.ts:3635`, `opencode-agent.ts:4584`, `:4670`); a prompt's turn may run beside it.

Properties: the run, the open turn, the active turn and the lifecycle agree (`TurnOwnership`); a
cancellation acts only on the run it captured (`CapturedRunIsTracked`), and its forced
terminal event lets it return (`CancellationReturns`); a prompt is not started while another turn may run in
the provider (`NoSplitBrain`); an agent nobody works with is not busy
(`QuietMeansSettled`); it is held busy for a replacement only while there is one, and then never
shows as idle (`ReplacingHasOwner`); a prompt is turned away only for another one
(`RejectedForAnother`); prompts and output keep their order in the timeline however early events arrive
(`OutputAfterItsPrompt`, `SteeredTurnStaysOpen`); cancellations return and streams end
(`CancellationReturns`, `StreamEndsWithTurn`). `OneTurnAfterAnother` says that
`AgentTurn` implements `ForegroundTurns` (one open turn at a time, each opened
once, none given up before the provider is done with it), with `open <- agent.fg`, `ended <- agent.finalized`
and `over <-` the turns the provider has ended or aborted.

### CreationService

One action per await of `create`, `subscribe` and `run`. A request is abstracted to what it
asks for: a workspace or only an agent, with or without agent and prompt, with
ids or leaving them to the daemon; it stands for its fingerprint. Records and claims
are files: `record` and `claim` survive `Crash`, while `mem` (the record a call holds), `active` (the
map of runners) and the queues do not. Admissions run one after the other: `previous[a]` is the admission
that call or subscription `a` waits for. `registered` is what the registries of workspaces and agents answer
to `exists`; `provisions`, `spawns` and `prompts` count what was really done for a key.
Any write may fail (`DiskFails`), and then the copy in memory keeps the update that the file does not have, as
in the code. Operations on one receipt are made in the order they were asked for: when a call and subscribers all found
a creation cut off, those who read an earlier revision write first (`FirstToRecord`), without which a
record would go back. The owners of workspaces and agents may throw before, within and after their work. An agent
whose start fails before it is registered leaves nothing behind: this is what the code relies on
when it lets such a creation be retried, and it is an assumption here.

Properties: nothing is provisioned, created or prompted twice for a key (`AtMostOnce`); a record that says
that its outcome is known says exactly what was done, so that a retry goes on from the right place
(`JournalTellsTruth`); there is one runner for a key (`OneRunner`); two keys never own one resource, and a
call is refused for an id only if someone else has it (`ResourceHasOneOwner`); whoever observes a creation has been told its
latest revision (`ObserverIsCurrent`); records only grow (`RecordOnlyGrows`); a receipt of an older
daemon is never executed (`LegacyNeverRuns`); every call is answered (`EveryCallAnswered`).

Agents that a user deletes while their creation still runs are left out: `Delete` takes resources of completed creations.
A claim is written with `writeFile` and the flag `wx`, not atomically (creation/index.ts:272). When the write fails after the file was made, an
empty claim with the owner "" is left, which refuses its rightful owner for ever. `TornClaims = TRUE` lets this happen, and TLC then finds
`ResourceHasOneOwner` violated; the runs have it `FALSE`.

### CreationClient

The journal together with one client that creates something under the key `Key`. Every step of `CreationService` for a call or a
subscription is also a step of `CreationClient` (`Serve`, `Attend`, `Elsewhere`), which adds what the client does on hearing of it.

| In the model | In the code |
|---|---|
| `operation`, `outcome`, `recovering`, `seen` | an `Operation`: whether its promise is settled and how, `recovering`, the revision of `latest` |
| `StartOperation`, `Submit`, `Unsent` | `execute` of a new operation and `submit` |
| `Reconnect`, `watch` | `reconnect` and the subscription it makes, which later connections restore |
| `Receive`, `Conclude`, `Resubmit` (`Hear`) | `receive` and `finish`; the answer or failure of a request; the null snapshot that submits again |
| `call`, `wire`, `Arrive` | the request whose answer the connection may still bring; requests on their way to the daemon |
| `Drop`, `Die` | the connection is lost; the daemon dies with it |

What the daemon sends arrives in the step that sends it: it is received in order or lost with its connection, the
daemon never waits for it to be read, and a client that would read it later could not act between. What the client sends takes time: a
request on a connection that was given up may arrive after the subscription of the next one. `late` is a history variable that names
such requests; no action reads it.

Properties: an operation is settled for its caller (`OperationSettles`) unless it is `Stranded`; when a snapshot of the new subscription settles
it, none of the client's earlier requests is still waiting or running, so that the caller is not told of a failure that a
request of its own goes on to repair (`SubscriptionIsAuthoritative`). Both have exceptions, which TLC showed to be needed:

* `Stranded`: a client that reconnected only subscribes to a key the journal knows. When nobody works on the creation and its record is
  not terminal, nothing it could hear of will come. Either there is nothing in flight (the daemon died between two stages, or the admission failed and its answer was
  lost), so that `subscribe` does not settle it as cut off; or the runner could not write its end, and answered "error" to a connection that was gone.
* Requests a lost connection delivered late, and the request that is submitted again over the same connection after a null snapshot: the
  subscription may report the failure of another window's attempt, which ends the operation while the request then retries it.

An operation started while disconnected takes the path for older daemons, as the features of the host are then unknown; that path, a
second caller that joins an operation, `close`, and a new attempt after a failure are not modelled.

### MessageReceipts

`Send` chains a call behind the last one of its key, `ReadReceipt` ... `RecordCompleted` are the awaits of `sendOnce`, `Forget` is
the `finally` that drops the chain unless a later call extended it. The provider may accept a prompt that left the daemon
at any later time, also after the call failed or the daemon died. `AtMostOnce` is the point of the component; `SentMeansAccepted`
and `NoReceiptMeansNotAccepted` say what a client may conclude from an answer or from its absence.

### Collections and DirectorySyncService

`Collections` gives a collection as a record of entries (unknown, live or
removed, with the number of the last change), `head` and `expired`, and the
operations of `VersionedCollection` on it. `replaceAll` numbers the changes of a
listing in the order of its two loops; the model numbers them at once, in any order (`Orders`), and
`ReplaceAllIsItsLoops` checks that this is the same thing. `DirectorySyncService` is the
collection over time: updates are numbered, listings (also old ones) are synchronised, readers ask from
their cursor, the answer arrives or is lost, the daemon restarts with a new generation. The service has
three collections which do not interact; one is modelled. The reader merges answers as the client does
(`Merge`, `Receive`).

Properties: a reader whose cursor is at the head, with no answer outstanding, holds exactly what the
daemon holds (`CaughtUpHoldsAll`): nothing was missed, and no removed entity stayed behind, through expiry of tombstones, lost answers and
restarts; numbers identify changes and do not fall (`VersionsIdentify`, `VersionsOnlyRise`).

### DirectoryReplica

The workspaces of one host on their whole way: the registry, a session that describes, numbers and sends them, the connection,
the app's refreshes and cursor, the rows it shows and those on the device. `Collections` has the numbering. `DirectorySyncService` is
about the numbers with readers that only ask; this module is about whether an app that also receives live updates, gives up refreshes
and starts from an old copy uses the numbers rightly.

| In the model | In the code |
|---|---|
| `truth`, `Mutate` | what the session would describe a workspace as; `handleWorkspaceMutation` |
| `job`, `JobReads` ... `JobRemoves` | the chain of updates of a workspace and `emitWorkspaceUpdateBatch` with its awaits |
| `sub` (boot, pending, last) | the subscription, the updates buffered while it bootstraps, what was last sent or listed ("seeded") |
| `listing`, `ListingArrives` ... `ListingFlushes` | `handleFetchWorkspacesRequest` |
| `other` | what another session, or a listing nobody subscribed to, has read and numbers later |
| `demand`, `refresh`, `satisfied`, `Demand`, `Drop`, `ForceRefresh`, `RefreshEnds`, `RefreshFails` | `setDemand`, `setAgentRouteDemand`, `requestDemandRefresh` and its continuations |
| `txn`, `AsksForListing`, `ReceiveAnswer`, `GivenUp` | the transaction of the workspaces: its base rows, its cursor, the updates recorded since |
| `app`, `ReceiveUpdate`, `WriteCursor`, `Noted` | rows and cursor, `receiveWorkspaceDelta`, `writeCursor`, `noteLiveCursor` |
| `load`, `device`, `durable`, `DeviceRead`, `Flush` | `loadCachedDirectory`, rows and cursor queued for the device, those written |
| `Cut`, `Crash`, `Kill` | a lost connection, a restarted daemon, a killed app |

Abstractions. Of the agents' part of a refresh there is only whether it fails, of the projects' only that it is before the workspaces'.
A listing reads all workspaces at once. The daemon learns at once of a subscription that is released; what its jobs would still number is
covered by the other session. Pages after the first, script status, optimistic status, workspaces hidden by a local archive, rows
taken from answers to commands, single cached workspaces and eviction are left out. Values of `Quiet` differ in neither status nor activity, so that a
pending update to one of them is not sent after the bootstrap (workspace-bootstrap-dedupe.ts:35); the run has none.

Properties: a cursor, the app's or the device's, covers no change that the rows beside it lack, so that asking with it brings back what
was missed (`CursorHidesNothing`); an app that takes its directory for satisfied, with nothing under way, shows what the daemon has
(`SettledHoldsAll`); a connected app that needs the directory refreshes it, has a subscription, or was told of a failure (`DemandIsServed`).

They do not hold of everything the code can do. The situations that cost the app a change are named by the constant `Lapses`;
the run excludes them (`Lapses = {}`), and each of them, included alone, makes TLC find `SettledHoldsAll` violated: a workspace stays missing, old, or
there although it is gone.

* `unseeded` (session.ts:6185): a workspace goes that the subscription has neither sent nor listed yet. Its removal is skipped, but the app may
  hold it, or the listing, read earlier, may name it.
* `overtaken` (session.ts:6198): updates are sent in another order than they were numbered (another session numbers too, and updates wait behind a bootstrap). A
  connection lost before the lower number is delivered leaves the cursor past it.
* `replayed` (workspace-replica.ts:74): an update recorded during a refresh is put over the listing although the listing was read later.
* `refused` (directory-sync/index.ts:546): a forced refresh releases the earlier subscription, then fails; the app still counts as satisfied and is never updated again.
* `dropped` (directory-sync/index.ts:238): all demand is given up while a refresh runs; its end declares the directory satisfied, without a subscription.
* `ignored` (directory-sync/index.ts:852): a refresh that supersedes the listing of another one fails before its own; live updates of the first subscription
  then move the cursor past the listing that was ignored.
* `returned` (versioned-collection.ts:57): a listing read earlier sets the collection back to a workspace's former value, the app has the later one from an
  update, and then the workspace returns to the former value while nobody is subscribed: nothing is numbered, and the app's cursor covers it.
* `latecache` (directory-sync/index.ts:382): the device is read while or after a refresh ran that did not wait for it (demand for a route does not). Rows the refresh removed come back.
  docs/architecture.md:140 says that late cache reads cannot replace state already advanced.

### TimelinePages, TimelineStream and Timeline

A chat that an app has open: the daemon numbers rows, projects them to items (a tool call is one
item however many rows update it) and streams them; the app lays live rows over what it holds and
fetches pages for what it missed. `TimelinePages` and `TimelineStream` have no state; `Timeline` is
one chat between one app and the daemon, with every message on its way.

| In the model | In the code |
|---|---|
| `epoch`, `rows` | the timeline state of `InMemoryAgentTimelineStore`; `rows[s]` is the row that started the item of row `s` |
| `TailPage`, `AfterPage`, `BeforePage`, `Fetch` | `selectProjectedEntries...` and `fetch` |
| `subscribed`, `Subscribe`, `Deliver` | the timeline sources of a session and `forwardAgentStream` |
| `inbox`, `wire`, `Answer`, `Refuse` | requests and messages on the connection, `handleFetchAgentTimelineRequest` |
| `chat` (items, head, range, older, newer, synced) | tail and head of the stream, cursor, `hasOlder`, `hasNewer`, `authoritativeHistoryApplied` of the session store |
| `WithPage`, `WithRows` | `processTimelineResponse`, `processAgentStreamEvents` and the commit of their results |
| `sync` | `CatchUpState` and the continuation of `fetchUntilCurrent` |
| `Started`, `Decision`, `Owed`, `Recovered`, `Continued`, `Failed` | `startCatchUp`, `decideCatchUp`, `startAcknowledgedCatchUps`, `recoverGap`, `fetchUntilCurrent` and its catch |
| `forced`, `noticed`, `init` | the latest-tail replacement, the fetch after a replacement notice, the initialization of a first visit |
| `queue`, `ReceiveRow`, `FlushQueue` | `createAgentStreamReducerQueue` |
| `OpenChat`, `CloseChat`, `OtherChat`, `RetrySubscription` | membership: every change of the set of open chats subscribes anew |
| `PrepareChat`, `cached`, `stored` | the transcript persisted on the device and painted before the daemon answers |

`Disturbances` are what may go wrong or come between: a rewind or a reload (a new epoch), a refused fetch or
subscription, a lost connection, a restart of the app, its return to the foreground, a request for older
history, a change of the open chats. Any two of them (`MaxFaults`) happen at any time.

Abstractions. Every item has an identity, as tool calls have; texts, which are merged by adjacency, are
not modelled, nor are prompts submitted locally, jumps to a prompt, several chats that compete for
catch-ups, and the timer of a first visit. Requests of a chat are answered in the order they were sent, since
their handlers wait for the same promises; a subscription may overtake them. A request
in flight is shared by whoever asks for the same (`fetchAgentTimelineOnce`). The persisted transcript is, after a
restart, the one shown last or the one that was there before. Copies of an item that
stand where an update of it arrived, after items started later, are marked `late`: the code keeps them, and `HeldIsWhole` does not
ask for their order.

Properties: what a synced chat shows is exactly the daemon's items of its range, each complete up to the
end of the range (`HeldIsWhole`); once nothing is left to happen the chat is subscribed, its catch-up is
complete, and it holds the daemon's last row (`SettledIsCurrent`: it takes the place of a
liveness property, as every step of `Internal` uses up a message, a timer or a page, and only `External` steps create work); a window
that ignores live rows is being caught up (`DetachedIsCatchingUp`); late pages never take back what was held
(`EndOnlyAdvances`).

The app does lose rows in five situations. They are named by the constant `Lapses`; the run excludes them (`Lapses = {}`), and each
of them, included alone, makes TLC find a counterexample:

* `resubscribe` (viewed-timeline-sync.ts:727): chats are subscribed anew while rows are on their way. This is finding `timeline_missed_row`.
* `blank` (session-stream-reducers.ts:1514): the app has applied an empty history, misses rows, and takes the next one for the first.
* `refetch` (session-context.tsx:432): the fetch that follows a replacement notice fails and nobody repeats it.
* `early` (viewed-timeline-sync.ts:268): a replacement notice comes before the first history; rows of two epochs end up in one transcript.
* `retry` (viewed-timeline-sync.ts:268): the user retries the catch-up of a chat that is only painted; its second page looks like a gap, the recovery
  is taken for the same request, and the catch-up ends short.

## 3. The runs

| Run | Module, configuration | Instance | Distinct states |
|---|---|---|---|
| `turn_stop` | `MCAgentTurn`, `MCAgentTurnStop` | three prompts that start or replace, two Stops | 430 thousand |
| `turn_steer` | `MCAgentTurnSteer` | two prompts that steer or replace, a Stop, an autonomous turn, one output item per turn | 3.2 million |
| `turn_liveness` | `MCAgentTurnLiveness` | two prompts, one Stop, fair | 12 thousand |
| `turn_stop_pending` | `MCAgentTurnStopPending` | finds `StopSettles` violated | |
| `creation_retry` | `MCCreationService`, `MCCreationRetry` | one key, three calls, a subscriber, two crashes, a failing file operation | 420 thousand |
| `creation_client` | `MCCreationClient` | two keys, four calls (two of the client, one of a second window, one of a rival for the agent id), a subscription, an old receipt of three kinds or none, one lost connection, one crash or one failing file operation, fair | 432 thousand |
| `creation_same_outcome` | `MCCreationOutcome` | finds `SameOutcome` violated | |
| `message_receipts` | `MCMessageReceipts` | one key, three calls, one with another request, two crashes, fair | 17 thousand |
| `timeline` | `MCTimeline` | four rows, two epochs, pages of one item, any two of eight kinds of disturbance | 425 thousand |
| `timeline_missed_row` | `MCTimelineMissedRow` | finds `SettledIsCurrent` violated when another chat is opened | |
| `directory_sync` | `MCDirectorySyncService` | three entities, two contents, one reader, one remembered removal, four changes, a restart | 107 thousand |
| `directory_replica` | `MCDirectoryReplica` | two workspaces, two contents, one remembered removal; three events, of them up to two changes and up to two of seven kinds of disturbance | 1.6 million |

The bounds and why they are enough:

* *Turns.* Three prompts are the fewest for which a replacement is itself replaced while
  the first turn still runs; with two Stops a cancellation queues behind one that waits. Turns of
  the provider's own need only one, the manager tracks at most one run. One output item per turn (`MaxItems`) is enough to be before
  or after a steer. The modes are split over the runs; each run combines those that interact.
* *Creation.* A creation is begun, cut off, and repeated, with a call that joins: three calls. With two crashes
  a retry is itself cut off. One failing operation at every point; a second one would follow a failure whose
  handling is already over, except in the catch of the runner, whose own write is reached by a throwing owner and one failure.
  Two calls with three subscribers and one crash, where several record one interruption, were checked once (10.4 million states); the
  theorems cover any number.
* *Creation, client.* One lost connection gives one recovery and so at most two submissions, and the crash loses it too (`MaxDrops` counts both). `MaxFaults` 1 allows a crash or a failing file operation but not both, which `creation_retry` does. The second window is what makes
  the journal know a key that this client's request has not reached. With the rival, ids conflict; each kind of old receipt is a different import.
* *Receipts.* A chain is dropped under a waiting call only with three calls of a key.
* *Timeline.* With pages of one item and four rows a catch-up takes several pages, an item may span three of them, and rows
  arrive between them; two epochs are one rewind or reload. Two disturbances make every pair of kinds meet. Checked once and not
  kept because they take minutes: three disturbances with four rows (3.6 million states), pages of two items, and five rows in all.
* *Directory.* `MaxTombstones` is 1 instead of 5000: all that matters is that a removal is forgotten, and with three
  entities one is forgotten while another is remembered. `MaxSeq` 4 allows two to be removed and one of them to come back;
  `MaxGeneration` 1 is one restart. The proofs need neither bound.
* *Replica.* With two workspaces one changes, or is forgotten, while the other moves the cursor; any workspaces may be there at the start. Two
  changes can be reordered, two disturbances are a failure and its repetition. Every lapse is found within these bounds, those that need two disturbances too.
* Symmetry is used for prompts, Stops, calls of one key, entities and contents, which differ only in name, and not in runs with liveness.
* `CHECK_DEADLOCK FALSE` is given where the system stops: all requests were made and answered, or a provider stays silent for ever.

Fairness. `AgentTurn!FairSpec`: continuations and timers run, as the event loop guarantees, and a provider
answers a steer. The last one is an assumption the code makes too: it puts no limit on
`steerActiveTurn`. Nothing is assumed about `startTurn`, interrupts or the end of turns: those the code
guards with timers. `MessageReceipts!FairSpec`: what a call awaits (disk, provider) comes back
or throws. `CreationClient!ClientFairSpec`: the same for the daemon's calls and subscriptions (disk, workspace and agent owners); a client reconnects, as its
connection does with a growing delay for as long as it is open; and what it sends over a live connection arrives. Requests of a connection that was given up need not arrive. New requests, lost connections and crashes are never fair.

The type invariants of `MessageReceipts`, `DirectorySyncService` and `CreationService` are theorems and no run repeats them; those of `AgentTurn`, `CreationClient`, `DirectoryReplica` and `Timeline` are checked and proved.

## 4. Findings

* **Stop during a replacement that is starting** (`turn_stop_pending`, agent-manager.ts:3096). An acknowledged Stop
  clears the pending run, but leaves `pendingReplacement` when it is set, and when the pending run *is* the replacement nobody is left to
  clear it: Stop returns `settled`, and the agent stays busy for good. `QuietMeansSettled` and `ReplacingHasOwner` therefore speak of
  histories without a Stop.
* **Subscribing changes a settled outcome** (`creation_same_outcome`, creation/index.ts:131). `inFlight` stays set in
  a record whose outcome is unknown, and every later `subscribe` takes it for a creation just cut off and publishes the failure
  again, with another error and revision. A later call returns another outcome than the first.
* **Rows lost when the open chats change** (`timeline_missed_row`, viewed-timeline-sync.ts:719). Opening another chat subscribes all
  chats anew and drops the earlier subscription at once. Rows of a chat that stays open, on their way or appended before the daemon has the
  new subscription, reach nobody, and as its catch-up is complete they are not fetched, until a later row shows the gap. `docs/timeline-sync.md:15`
  says that a continuously subscribed client applies every committed row.

## 5. What is proved

TLAPS checks these for all values of the constants; the assumptions are only the named `ASSUME`s of the modules
(disjoint names, functions of the right types, a finite set of entities).

* **AgentTurnProofs**: `TypeCorrect`, `TurnOwned` (`TurnOwnership`), `CancellationKeepsToItsRun` (`CapturedRunIsTracked`) and `StartOwnsRun`.
  None of them is inductive. The first part of the module is about the agent record alone: `Sound` says
  that run, open turn, active turn, finished turns and lifecycle fit together, and `Advances` what an event, a failed start or a forced cancellation may do to
  a sound record (leave the run, settle it, or track a turn of the provider's). The second part ties
  the record to the operations (`Consistent`: a live start owns the pending run, a stream its turn, a cancellation its
  captured run) and to the events still on their way (`Buffered`: none can open or end a turn it does not belong to). Their conjunction `IInv` is
  inductive. `TypeCorrect` needs one argument more, since the lane and the continuations are sequences popped without asking: `LaneInv`
  says that whoever is past the queue is the head of the lane, that at most one continuation starts a mutation, and that only the head leaves.
  The third part, on the provider's side of the same invariant: the manager's record says nothing of what the provider does; `ProviderInv`,
  inductive over the above, relates the two:
  the turn of a settled run is over in the provider or will never start, no end is told of a turn that is not over, a turn that
  exists has a run, and an interrupt under way covers every turn that may still run. A step of `Next` does one of three things to the
  record (`AgentStep`): it leaves the open turn and its run, opens the turn of a prompt, or ends a turn that is over; `SessionNotSplit` (`NoSplitBrain`)
  and `OneAfterAnother` (the refinement `OneTurnAfterAnother`) follow from these.
* **AgentTurnProofs, order**: what rests on the order of events and of continuations. `BusyHasOwner` (`ReplacingHasOwner`) rests on
  `ReplacingOwned`: a prompt past its queue, or a live replacing run, releases the hold on each of its ways out.
  `TurnsInOrder` is the invariant `OpenInv`: taking the staged events, the barrier, the queue and what the provider still owes as one
  sequence (`Ahead`), a turn's start precedes its output and its end, the turn that is active now or next is the first to
  end, and the active turn has a tracked run unless it is over. `SteerKeepsItsTurn` (`SteeredTurnStaysOpen`) follows: everything that could end the
  turn of an admitted steer is behind the barrier.
  `RestsWhenQuiet` (`QuietMeansSettled`) needs, beside the order, the runs that a cancellation tracks for an agent that shows busy with nothing behind it (`PhantomInv`):
  such a run is never taken over, and the cancellation that made it settles it by its timeout, unless one was refused.
  `TurnedAwayForAnother` (`RejectedForAnother`) needs that who left the queue or a cancellation really is about to resume (`WaitInv`) and that such a run is gone
  when its cancellation returns (`ReturnInv`); between the return of a cancellation and its prompt's turn only others can track a run.
  `OutputFollowsPrompt` (`OutputAfterItsPrompt`) needs of the output still on its way (`Output`) that its prompt is in the timeline or its run is the one
  that waits for its turn, and that it knows every prompt that has steered or is steering; a prompt that is being admitted is known to nothing recorded so far.
* **MessageReceiptsProofs**: `TypeCorrect`, `DeliveredAtMostOnce`, `RetryIsSafe`, `SentIsTrue`. `Chain` says that the promises of
  a key form a chain without circles of which only one call is runnable, and `Journal` what its receipt means while that call runs.
  No circle is stated over sets of calls, which spares an induction over the chain.
* **CollectionsProofs**: lemmas about the operators of `Collections`, which the next two share: every operation only numbers entries anew above
  the old head or forgets removals at or below `expired` (`Evolves`), and an answer tells its reader everything numbered so far (`ReadLemma`).
* **DirectorySyncServiceProofs**: `TypeCorrect`, `CaughtUpIsComplete`, `VersionsAreUnique`, `VersionsRise`. The invariant says
  that entries are numbered uniquely up to `head` and that every forgotten removal is at or below `expired` (`CollectionOK`), that
  what a reader holds differs from the collection only in entries changed after its cursor (`ReadersTold`), and that an answer under way
  tells exactly these (`AnswersTell`); generations that are over are never current again (`GenerationsPast`). What is left
  to show is that no change of the collection disturbs readers whose cursor it leaves behind.
* **DirectoryReplicaProofs**: `TypeCorrect` (`TypeOK`) and `DemandServed` (`DemandIsServed`). What is on the wire, pending, recorded and merged is
  typed with the rest (`Shape`). `DemandInv` says what stands for demand at each moment: a refresh that has asked for a listing
  or will, unless it is going to fail (`RefreshServes`); between refreshes a subscription or a reported failure
  (`SatisfiedIsServed`). The theorem assumes that demand is not dropped while a refresh runs, the lapse
  `dropped`; it holds with every other lapse, and without bounds.
  `CursorsHideNothing` (`CursorHidesNothing`) and `SettledShowsAll` (`SettledHoldsAll`) rest on one invariant, `ReplicaInv`. Neither property is inductive: a cursor
  may cover a change that is still on its way, so one has to say where each change is until it arrives. `Controls`: what the session, the refresh's
  transaction and the device have under way together (an answer is first on the wire, nothing is pending outside a bootstrap). `Numbers`: no update,
  cursor or answer is numbered above what the collection numbered. `Truthful`: what is recorded, read by a job or captured by a listing still is
  so, or a job will tell. `Following`: while the app follows a subscription, a workspace's row becomes what is recorded of it, or what its job will tell, once all that is
  pending, on the wire and recorded during a refresh has come, in this order. `Honesty`: while the app goes by what it holds, because it has no
  subscription or a listing that it asked for with its cursor is still coming (`Kept`), its cursor covers nothing that its rows lack; the device's never does. `Subscribed`: an app that is
  satisfied has a subscription or has asked for one. The steps are first sorted by what they do to all this (`StepsOfAll`), so that each part is
  shown for a dozen kinds of step instead of for every action.
  Both theorems assume `Lapses = {}` and `Quiet = {}`, as the run does. The first excludes the situations above in which the code really
  loses a change, each of which violates `SettledHoldsAll`; the second, that a change that leaves status and activity
  alone (a name, say) is kept back from an app that was listed an older value, as the comment of workspace-bootstrap-dedupe.ts says it is. That costs the app
  a change as well: with two quiet contents TLC finds `SettledHoldsAll` violated. Contents of which none is quiet are those that
  differ in what that function compares.

* **CreationProofs, the journal**: `TypeCorrect`, `AdmissionsInTurn`, `OneRunnerEach` (`OneRunner`), `ReceiptsNeverRun` (`LegacyNeverRuns`), `MadeOnce`
  (`AtMostOnce`) and `TellsTruth` (`JournalTellsTruth`). The invariant has five layers, each inductive over the ones before it.
  `Seats`: calls and subscribers keep to their own steps, and whoever works on a record holds one.
  `Turns`: the admissions under way can be numbered without a gap so that each waits for the one before it and the last is the
  lane; the numbering is an existential witness that every step renews, so that no induction over the chain of promises is needed.
  `Ownership`: the map of active creations names a running call, and an admission finds no runner. `Legacies`: a creation with an older receipt is settled
  when it is recorded. `Journal`: what a record means at each step of its runner (`RunnerSound`), of an admission
  (`AdmissionSound`), of a call that found it cut off (`CutOffSound`) and on disk (`RecordSound`).
  It assumes that an identity is of one kind (the kind of request is part of it), that only agent-only requests have older receipts, that the names
  of calls and subscribers, and of workspaces and agents, are disjoint, and that `None` is nothing else.
  `MadeOnce` and `TellsTruth` have the hypothesis `ReceiptsApart`: no call asks for the agent that an older daemon's receipt
  names. It is needed: an agent another key's receipt names is not claimed by it; when the user deletes it after a second key's runner has
  created an agent of that id, the registry no longer has it, the runner's failure looks clean, and the retry creates it again.
  Three more theorems rest on the same layers: `ObserversAreCurrent` (`ObserverIsCurrent`), `RecordsOnlyGrow` (`RecordOnlyGrows`) and `ResourcesAreOwned` (`ResourceHasOneOwner`), without any hypothesis on
  receipts. The invariant `Growth` stands on the first four layers above and has three parts. `AtRest`: nothing is in flight in a completed record.
  `HolderSound`: what someone at work holds is what is on disk, but for a runner whose write failed, whose copy is ahead of the file, and
  for those who record that a creation was cut off, who may have been overtaken by one another: the file is then
  what they are about to write. `Current`: who watches was told the revision on disk. Every step of a call or a subscriber is shown to be one
  of four kinds (`Advance`): it leaves the record alone, makes it, marks what is in flight, or publishes; two lemmas then
  show for these kinds that `Growth` holds on (`AdvanceGrowth`) and that the record grows (`AdvanceGrows`).
  `Owners` stands on `Growth`: what was made was claimed first, a claim is never given up, what is registered was there before or is claimed, what was
  there before is still registered or part of a completed creation, and who was refused has an id in its record that is not its own. Proving it showed that the property
  as first stated was false: the user can delete an older workspace that a completed agent was made in, and its id is free for a creation
  then (`Freed`). `NothingMadeUnderForeignId` needs no assumption; that every refusal has a reason needs `TornClaims = FALSE`.
  `AnswersAreEnds` (`OnlyEndsAnswer`, which no run checks by itself) says that an answer with a record has one that completed or failed; its invariant
  `Finals` adds that an unknown outcome is only in a record that failed and never in the hands of a runner.
* **CreationProofs, the client**: `JournalUnderClient` (`ClientSpec => Spec`): composing the journal with a client, lost connections and late requests
  only restricts when calls come, so that what is proved of the journal holds under it: `OneRunnerUnderClient`, `ReceiptsNeverRunUnderClient`,
  `ResourcesAreOwnedForClient` and, with `ReceiptsApart`, `MadeOnceForClient`.
  `ClientTypeCorrect` (`ClientTypeOK`) is more than types: `Unsent` and the subscription `Reconnect` makes are choices that must exist, and
  what the caller is told must be an end (`AnswersAreEnds`). The invariant `Counted` counts: a connection uses up one subscription and is lost
  before the next one does; a request is sent at the start, and again only once a subscription was looked at and its key was not known, which
  is only its first news (`UnknownIsFirst`: records never vanish). So a client that may lose `MaxDrops` connections needs no more than one request
  more than that, what `ClientAssumption` gives it.
  `SettledByAuthority` (`SubscriptionIsAuthoritative`) has three parts. `Open`: a record at its end has no runner, and who joined has one to wait
  for. `Waits`: the numbering of the admissions (`Turns`) puts every request that came before a subscription before the one it waits for, so
  that none is being admitted any more when the daemon looks at it (`WaitsOn`, for any set of requests that none joins). `Settling`: while nothing was submitted over the
  connection, what the client sent before is such a set, since a new connection only submits when its subscription was looked at; what the
  former one delivers late is not, and is what the property leaves out.

* **TimelineProofs**: `TypeOKHolds` (`TypeOK`), `PositionsHold`, `EndOnlyAdvancesHolds` (`EndOnlyAdvances`) and `LinksHold`, with every lapse and without bounds.
  A page is a fold over rows and a transcript a fold over pages and queues, so the proofs need induction over data: it is derived from
  the well-foundedness of the natural numbers as a rule about sets (`Induction`), and applied to the intermediate results of a fold (`Merging`, `Applying`).
  `Shape` types the state and says that every page on its way is one the daemon could have cut from its rows (`PageHolds`) and every row one of them; what
  `TailPage`, `AfterPage` and `BeforePage` cut is shown first (`TailShape`, `AfterShape`, `BeforeShape`). Each action has a lemma (`...Shape`) that shows that
  `Shape` is kept and names what the action does, so that the later invariants need not look into it. `Positions`: rows and pages are on the
  wire in the order of the history, and nothing held, painted or stored is beyond what is behind it; so a late page never moves the end of a window back.
  `Links`: what the app knows of its subscription and what the daemon does.
* **TimelineCatchUpProofs**: `CatchesUpHolds`, `DetachedIsCatchingUpHolds` (`DetachedIsCatchingUp`), `LeadsHold` and `SettledIsCurrentHolds` (`SettledIsCurrent`). The answers on the wire and the requests in the inbox form one
  line, the course. `Control`: a running catch-up awaits a request that is in the course, an unsynced chat has asked for nothing but its first
  page, a catch-up is there exactly when it can run, and one that is complete has a window that takes live rows. `Grounds`: no request asks for what lies beyond what is held, and while
  nothing is held all that is to come is of later epochs than the requests. `Streams`: no answer that may move the window comes
  after the one that is awaited, and among the others cursors only rise; without it an answer to a superseded request could detach a window that is
  said to be complete. The steps are sorted by what they do to the course: it is taken from, answered, shared or thinned (`Drawn`), and a fetch is appended or shared
  (`Asking`). Most actions start the catch-up or leave it (`Goes`, `GoneCatchesUp`); a page may do so three times in one step, for a gap before it, for a
  gap it leaves, and to go on, which `Steers`, `Detour` and `PageSettles` follow.
  `SettledIsCurrent` speaks of rows that nobody awaits, which `CatchesUp` does not; `Leads` does. For an app that is up to date, and for every page on the wire
  that arrives at a subscribed app, each row of the daemon's epoch is before the end of the window (of the page), or behind it on the wire, or queued, or else a notice is behind it
  (`Informed`). That is inductive because a page has all the rows there are when it is cut (`Tells`), because rows that wait are applied without a gap or start a
  recovery, and the catch-up is not complete then (`FlushedInformed`, `RecoveryStarts`), and because a page that ends a catch-up is one of the end, which leaves
  the window at the page's last row or beyond (`LandedTail`, `LandedAfter`). When nothing is on its way and nothing queued, `Informed` leaves only the window: it has every row,
  and by `Positions` no more than there are; `Links` and `Control` leave no status but complete.
  The four theorems assume `Lapses = {}`, as the run does: each lapse lets the catch-up lose what it awaits, and is a situation the code does not handle.

Only model-checked: liveness (beyond the prover), `OperationSettles` of `CreationClient` among it; `ReplaceAllIsItsLoops`, which compares loops written with library
operators the prover knows nothing of (`SelectSeq`); and `HeldIsWhole` of `Timeline`, which is about the items on screen and not the window alone: it needs, above
`Leads`, what every merge of a page or a row does to order, copies and coverage of the items, that an overlay ends where the first page does, and that
a row which meets an empty window is the first of its epoch.

## 6. Plan

Done, in this order: `MessageReceipts`, `AgentTurn`, `Collections` with `DirectorySyncService`, `CreationService`, `Timeline`,
`DirectoryReplica`, `CreationClient`. Next:

1. `DirectoryReplica` with agents and projects beside the workspaces (an answer about one names the others), and two apps; the finding
   runs its lapses deserve.
2. `CreationClient`: `close`, a second caller that joins, a new attempt after a failure, and the sequence of requests that takes the place of the journal with
   older daemons.
3. `AgentRewind` and `AgentLifecycle`: rewind, close, archive and reload against `AgentTurn`; rewind's lock is a pending run
   taken outside the lane.
4. Several chats in `Timeline`, texts beside tool calls, the jump to a prompt; `OwnedSubscriptions` on its own.
5. Proofs: `HeldIsWhole` of `Timeline`, above `Leads`; `ReplicaInv` with the lapses one by one (`dropped` and `ignored` first).

## 7. Not modelled

Providers, git, forges, speech, terminals, files, the proxy, push and browser tools are input and output: what they
do to the modelled components is left free (they succeed, fail, or stay silent). Authorization, protocol and labels
have no behaviour over time. The front ends besides the parts named above are views. Schedules, the hub, relay handshakes, the provider snapshot
manager, workspace archive and git refresh coalescing have behaviour worth modelling and come after the plan above.
`PROJECT.json` gives the reason for each component.
