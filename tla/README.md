# TLA+ models of the proxy's credentials, requests, registry, watcher, relay and usage

The repository is an HTTP proxy that answers OpenAI-, Claude- and Gemini-style
requests with the credentials of many upstream accounts. Most of its size is
format translation and upstream I/O. What this directory models is the part
that keeps state while many goroutines run: which credential exists, which one
a request gets and how often it tries, what failures do to it, which models are
offered, how changes on disk reach all of this, how requests travel over a
websocket to a provider that has connected, and how the record of each request
reaches the history database and whoever listens.

## 1. Inventory

| Component | State | Operations | Interacts with |
|---|---|---|---|
| Credential runtime state (`sdk/cliproxy/auth/conductor.go`, `types.go`, `selector.go`) | per credential: `ModelStates`, aggregated `Unavailable`, `NextRetryAfter`, `Quota`, `LastError`, `Status`, `Disabled` | `MarkResult`, `ReconcileRegistryModelStates`, `Update`, removal, `refreshAuth` | every other component, through `auth.Manager` |
| Auth manager (`conductor.go`) | `Manager.auths` under `Manager.mu` | `Register`, `Update`, `pickNext`, `syncScheduler`, `RefreshSchedulerEntry` | hands snapshots to the scheduler; calls the registry after results |
| Scheduler (`scheduler.go`) | per provider and model a shard: entries, ready views by priority with round-robin cursors, views of websocket credentials, groups by virtual parent; a cursor for mixed requests; all under `authScheduler.mu` | `upsertAuth`, `removeAuth`, `rebuild`, `pickSingle`, `pickMixed`, `promoteExpiredLocked` | reads the model registry when an entry is built |
| Service binding (`sdk/cliproxy/service.go`) | the channel of auth updates | `applyCoreAuthAddOrUpdate`, `applyCoreAuthRemoval`, the model catalog callback, `Shutdown` | calls manager, registry and scheduler one after the other |
| Model registry (`internal/registry/model_registry.go`) | clients' model lists, counts per model and provider, quota and suspension marks, cached listings, under one mutex | `RegisterClient`, `UnregisterClient`, `SetModelQuotaExceeded`, `SuspendClientModel`, their inverses, `GetAvailableModels` | called by service and manager; asked by the scheduler |
| Watcher (`internal/watcher`) | `lastAuthHashes`, `currentAuths`, debounce times, pending updates | file events, `reloadClients`, `refreshAuthState`, the dispatch loop | sends auth updates to the service |
| Usage pipeline (`sdk/cliproxy/usage/manager.go`, `internal/usagehistory`) | the manager's queue, the writer's queue and batch, the database | `Publish`, `run`, `Stop`; `Write`, `run`, `Stop` | executors publish; `Service.Shutdown` and `main` stop it |
| Request retry loop (`conductor.go`, `executeMixedOnce` and its variants) | tried and attempted credentials, rounds, cooldown waits, the locks of request preparation | `Execute`, `ExecuteStream`, `ExecuteCount`, `prepareRequestAuth` | picks, executes, reports results |
| Auto-refresh loop (`auto_refresh_loop.go`) | timer heap, dirty set, job channel | `rebuild`, `handleDue`, `applyDirty`, workers | starts `refreshAuth`; told by `Update` |
| Session affinity (`session_cache.go`, `selector.go`) | bindings with a time to live | `Get`, `GetAndRefresh`, `Set`, `Invalidate`, `cleanup` | wraps a selector |
| Websocket relay (`internal/wsrelay`) | sessions per provider, pending requests per session | connect, `request`, `dispatch`, `cleanup`, `Stop` | adds and removes runtime credentials |
| Redis usage queue (`internal/redisqueue`, `redis_queue_protocol.go`, `service.go`) | items with an age behind a position, subscribers with a channel each | `Enqueue`, `PopOldest`, `SubscribeUsage`, `SetEnabled`; the forwarder of home mode | fed by a usage plugin, read over redis connections and by the management API |
| Home client, stores, translators, executors, HTTP API, login flows, user interfaces | mostly I/O and data conversion | | |

Hard behaviours, and what makes each component correct:

* **Three locks, one story.** Manager, scheduler and registry are brought up to
  date one after the other, by threads that took their snapshot under one lock
  and apply it under the next. The registry should list the enabled credentials
  only, the scheduler should not offer a removed one, and a usable one should
  not be lost.
* **Results in any order.** Requests that overlap report success and failure in
  any order, over reconciliations and reloads. The aggregate of a credential
  must fit its models, the backoff must neither run away nor restart.
* **Old copies.** Token refreshes, catalog refreshes, resynchronisations and
  reloads work on copies of records that change meanwhile.
* **Counting by differences.** The registry's counts change by differences of
  lists and providers; its listing subtracts sets of clients that may overlap,
  and is cached against a clock read before the lock.
* **Files that change while they are read.** Events are handled late and
  debounced by time; the last content should win.
* **Accepted means kept.** Usage records cross two queues and a batch that may
  fail after it was committed, and a shutdown may start at any point. Payloads for
  listeners are broadcast, kept, pruned by age, compacted and given back.
* **Turns.** Round-robin positions survive rebuilds of what they point into, splits by
  parent, and changes of the number they are taken modulo of. Nobody who is ready
  should be passed over for ever.
* **A request that goes on.** It picks, prepares, executes, reports and waits while
  other requests change the holds it decided by; it should try whoever it may,
  report each call once, and come to an end.
* **Channels that several goroutines close.** A relay session ends by a lost
  connection, a missing heartbeat or a stop, while requests register, leave and are
  answered; a usage subscription by a slow reader, a switch or the reader itself.
* **Bindings that expire while they are used.** A conversation keeps its credential
  for a while, across concurrent requests, a sweeper and a change of the selector.

`PROJECT.json` lists the hazards one by one, each with its line and with the
properties that cover it.

## 2. Modules

Every module keeps the names of the source where there are any. An action is a
critical section of the code, so steps of different goroutines interleave
exactly at the places where a lock is released or a blocking call is made.
`PROJECT.json` maps each definition to its lines.

* **AuthState** – one credential. `states` are its `ModelStates` (keys in `tracked`),
  `auth` its own fields. Time is an integer clock, zero is Go's zero time. Actions in one
  section under `Manager.mu`: `Success` and `Failure` (`MarkResult`), `Reconcile`,
  `Upsert` (an uploaded file), `SetQuotaCooldownDisabled`. The `Writers` work on a copy:
  `TakeCopy` clones the record, and later, with anything in between, one of
  `RefreshSucceeds`, `ServiceUpdates`, `ServiceRemoves`, `PatchStatus` and `SaveFields`
  (management handlers, and the preparation of requests) hands it to `Update`, which
  puts it in the place of the record; `RefreshFails` marks the record itself,
  `WorkIsDropped` leaves it. `RefreshIsDue` is the refresh loop's decision, which may be
  old when the copy is taken. The service has one consumer of updates, everybody else
  may overlap. `MCAuthState` says who works beside whom in its instance.
* **AuthManager** – the threads around that record, for one model of one
  provider. `auths` is what `Manager.auths` says of each credential, reduced to
  absent, ready, cooling or disabled; `sched` is how it stands in the scheduler's
  shard, `registered` and `suspended` are the registry's view. `binder` holds the
  program counter and the copy of the service's consumer of updates and of catalog
  callbacks, `request` and `refresher` those of requests and token refreshes.
  `View` is the point where the scheduler judges a copy and asks the registry.
  `Update`, `MarkResult` and the rest are split where the code lets go of a lock.
  Which ready credential is picked is left open. `MCAuthManager` starts with some of
  the threads off.
* **ReadyView**, **Scheduler** – `authScheduler` for one model. ReadyView is what one
  view does without state: the credentials of a priority in their order, grouped by
  virtual parent when there are several, a cursor per group and one over the groups,
  how the cursors advance and what becomes of them when the view is rebuilt.
  Scheduler has a shard per provider with its `entries`, the ready views per priority,
  and those of websocket credentials; its actions are updates, removals, the passing of
  deadlines (only a pick promotes what has expired), and picks of one provider or of
  several, with a pinned credential, with tried ones excluded, for websockets, in
  round-robin or fill-first. `waited` and `idle` count picks for the properties.
* **RequestLoop** – `Execute`, `ExecuteCount` and `ExecuteStream` of concurrent requests
  over the holds, preparation marks and locks of the credentials. `record` is what
  `Manager.auths` says of each, `scheduler` the scheduler's copy of it, `late` the
  snapshot that a thread has yet to hand over (`Publish`) after it let go of the record,
  `shots` the snapshot of all with which `Rebuild` replaces the copies. `Pick` is
  `pickNextMixed` on the copies; when it finds none, `SnapshotAuths` and `Rebuild` follow
  and it picks again (`PickFails`, `SecondPickFails`). `PickLegacy` is
  `pickNextMixedLegacy` on the records; either may serve any pick, since a reload may
  change the selector and the aliases that decide between them. The `Workers` refresh
  tokens, update records and register models: `taken` is the copy such a worker writes
  back, which may be prepared or not, and enabled or not, whoever holds the preparation
  lock. A request's record has its round, the credentials it has tried and attempted, the
  copy it prepares, the models of a pool that are left, and how long it still waits.
  Holds are what remains of them, `Tick` shortens them. `passed` notes what was usable
  all through a round, `settled` what a request has prepared and no worker has written
  since, `owed` what is still to be reported.
* **Relay** – one session of `wsrelay`: the `pending` map, the channel of each request,
  the reader with `dispatch`, the heartbeat, cancellations and the `cleanup` that each of
  reader, heartbeat and `Stop` may run, `NonStream` and `Stream` as callers. The map's
  operations are single steps, so a lookup, a send and a close of different goroutines
  interleave. `crashed` is a send on a closed channel or a second close, `lost` a chunk
  that found its channel full.
* **SessionAffinity** – `SessionAffinitySelector.Pick` over `SessionCache`, with a step
  for each time the cache's lock is taken: bindings of sessions and of their first
  turns, the sweeping goroutine of every selector, holds that begin and end, the
  replacement of the selector and the shutdown. Which credential the wrapped selector
  takes is left open.
* **ModelRegistry** – `models`, `clientModels` and `clientProvider` are the maps
  of `ModelRegistry`; lists are bags since a list may name a model twice.
  Exported calls are atomic; `GetAvailableModels` is `BeginList` (read the
  clock) and `EndList` (under the lock).
* **UsageHistory** – `publisher`, `pending`, `closed` and `dispatcher` are
  `usage.Manager`; `writerQueue`, `sealed`, `done`, `wake` and `writer` the history
  `Writer`; `stored` the rows, which an insert with a known event ID leaves
  alone; `shutdown` the steps of `Service.Shutdown` and `main`.
* **UsagePipeline** – what the usage pipeline promises: records that are accepted are
  stored, nothing else is, and a stop leaves none behind unless the backend is marked
  degraded. UsageHistory implements it under the mapping in `Pipeline`.
* **UsageQueue** – `internal/redisqueue`: the array with its position (`Pruned`,
  `Compacted`, `Popped`), `Enqueue` in the three steps between its locks, `SetEnabled`
  with `clear` and the closing of channels after it, redis connections from their wait
  for a command to the end of their stream, a reader that polls, and the forwarder of
  home mode, which runs if `QueueInit` says so. `told`, `taken` and `home` record where
  payloads went.
* **UsageFeed** – what that queue promises: each payload is told or waits, those that wait
  are taken oldest first, what is given up is the oldest, and what was sent away and
  failed comes back. UsageQueue implements it.
* **Watcher** – `disk` and `events` are the file system and fsnotify;
  `hashes`, `current` and `recent` are guarded by `clientsMutex`; `handler` is
  `processEvents`, `reloader` runs of `reloadClients`; `pendingUpdates`, `batch`,
  `queue` and `applied` the way to the service. A file holds one credential and
  a version stands for its content; an empty file is one being rewritten.
  `MCWatcher` starts with the reloads off or with most changes on disk used up, and with
  both files there or neither.
* **AutoRefresh** – the goroutine of `authAutoRefreshLoop` (`loop` with the IDs it
  goes through and the one in its hand), the heap, the dirty set and the token of
  `wakeCh`, the job channel and the workers. Of a record it keeps what the loop asks
  of it: whether the token is inside its lead (`wants`), whether `NextRefreshAfter`
  lies ahead (`gated`), whether `LastError` is a 401 (`rejected`); time is the
  actions that turn these. A look at a record under the manager's lock is one
  action, so records change between `CheckDue`, `MarkRefreshPending` and `SendJob`.
* **AuthStateProofs**, **AuthManagerProofs**, **SchedulerProofs**,
  **RequestLoopProofs**, **SessionAffinityProofs** – theorems about the module of that
  name. **ServiceProofs** – theorems about AutoRefresh, Relay, Watcher and ModelRegistry;
  **UsageProofs** – about UsageHistory and UsageQueue. **FiniteOrder** has the lemmas on
  minima and maxima of finite sets of naturals that several of them use.

The modules that share a proof module share no name: what every specification has comes
with a prefix there (`RelayInit`, `RelaySpec`, `RelayTypeOK`, `relayVars`, and so on with
`Refresh`, `Watcher`, `Registry`, `History` and `Queue`). They are still separate
specifications, and no theorem about one uses a theorem about another.

Operators introduced as "wrong forms" (`ViewTrustsCopy`, `FlushFailsAndForgets`, ...) are
plausible bugs of the definition below them. No specification uses them; with
one put in place of its definition, the property that `PROJECT.json` pairs with
it must fail.

How the modules fit together: AuthState describes what AuthManager's `ready` and
`cooling` abstract from (a hold on the model, or none); AuthManager uses of the
registry what ModelRegistry models in full; Watcher ends with the update that
AuthManager's `BeginAdd` and `BeginRemove` start with; AutoRefresh decides when
AuthManager's `BeginRefresh` happens. Scheduler and SessionAffinity are the two ways
to make the choice that AuthManager's `Pick` and RequestLoop's pick leave open, and
RequestLoop is what happens between AuthManager's `Pick` and `MarkResult`. Relay carries
the calls of one kind of executor. UsageHistory and UsageQueue are two plugins of the
same usage manager, whose dispatcher is modelled in the former. Two compositions are
refinements, checked and proved (UsageHistory of UsagePipeline, UsageQueue of UsageFeed);
a composition of manager and scheduler is part of the plan below.

## 3. Runs

All passing runs explore the full state space within their bounds.

| Run | Instance | What it shows |
|---|---|---|
| AuthState | 2 models, clock to 2; failures of every kind and no writer; or 429s and a writer who refreshes or does the service's updates; or 429s of one model, a refresh beside a second one or a management handler, and a clock that stands still (732,000 states) | `AggregateSound`; `OnlyRefreshLeavesError`, `BackoffFallsOnlyWhenWiped`, `ReenabledStartsClean` |
| AuthManager | 1 credential; 2 requests, or a request beside a catalog run, or one beside a token refresh, or the two refreshes (310,535) | `RegisteredIffEnabled`, `RemovedNotOffered` while the refreshes are off; `ReadyEventuallyServed`, `SuspensionHeals`, `RemovedEventuallyUnused` in all four cases |
| ModelRegistry | 2 clients, 2 providers, lists of up to 2 copies, 2 readers, clock to 4 (955,260) | `CountsMatchLists`, `ServedIsCurrent`, `ListedHasProspect` |
| UsageHistory | 3 records, batches of 2, 2 final attempts (37,027) | `AcceptedIsKept`; `ImplementsPipeline`, `PublishedIsDispatched`, `AcceptedIsStored`, `ShutdownEnds` |
| Watcher | 2 files, both there or neither, 2 versions, channel of 1; 4 changes, or 1 change and 2 reloads (419,715) | `DeliveredAgrees`; `LastWriteApplied`, `ForcedReloadRepairs` |
| AutoRefresh | 1 credential, 2 workers, channel of 1 (12,928) | `DropsOnlyRejected`; `RefreshedWhileTracked` |
| Scheduler | 3 credentials, 2 providers, 2 priorities, 2 parents (44,314) | `ShardsAgree`, `TurnComes`, `SegmentComes` |
| RequestLoop | a credential with a pool of 2 models and one without, at most 2 attempts per round; a request, and a worker who updates or registers, both credentials being prepared; or 2 requests that prepare the second, and a worker who refreshes or updates; or a request that prepares and waits once, and a worker who registers; or a stream that does, whose client may leave (897,592) | `UsableIsTried`, `PreparedOnce`, `ReportedOnce`; `StepsRunOut` |
| Relay | 2 requests, channels of 1, answers of 2 parts and of none; the client of one may leave (481,303) | `WholeUnlessCrowded`; `WaitersEnd` |
| RelayStops | the same with 1 request (ends at the counterexample) | `StopsGracefully` is violated, section 6 |
| SessionAffinity | 2 credentials, a first and a second turn, 2 requests, time to live 1, clock to 2, 1 change of the selector (1,231,660) | `ServesUsable`; `OwnBindingLasts`, `ExpiredAreSwept` |
| UsageQueue | 2 connections and the switch, or a reader, or the forwarder, or both of these; 3 payloads, buffers of 1, retention 1, clock to 2, 2 switches (193,711) | `ClosedOnce`, `GapFree`, `DroppedAreTold`; `ImplementsFeed`, `KeptUntilDelivered`, `Forwarded` |

The type invariant of every module is a theorem (section 4), so no run spends time on it.
Further configurations end in a counterexample each and are described in section 6:
ErrorLeft, BackoffForgotten, ReturnsHeld, SkippedByOldCopy, BindingLost, SelectorsStop,
LateSubscriber, StaleRegistration, RefreshRevives, AvailableHidden, RefreshForgotten and
RotationStarves.

**Bounds.** `MaxNow`, `MaxTime`, `MaxCopies`, `MaxChanges`, `MaxReloads`, `MaxPayloads`,
`MaxSwitches` and, in the instances of AuthState and RequestLoop, the condition `Within`
of their MC modules are the only bounds put on behaviour; the specifications are otherwise
unbounded in length. The theorems hold for every value of them.

The clock of AuthState comes to the end of the shorter holds, so expired, standing and
missing deadlines meet in one state, and a backoff base of 1 with a cap of 2 reaches the
cap in two steps. With copies about, 429s without a Retry-After are enough: they set every
field that a failure sets, and a rejection comes from the refreshes. What two writers do
to errors and to the switch needs no second model, no passing of time and no change of the
cooldown setting; `Within` in `MCAuthState` says so. Symmetry of the models is sound since
nothing tells them apart (no `CHOOSE` over them, no temporal property of a single one).

In AuthManager the threads run two at a time beside the consumer of updates, in each
combination that shares a credential. Two requests are enough for two results of one
credential to pass each other between manager, scheduler and registry; a third would
repeat what one of the two does.

In ModelRegistry a second client is needed for a model to outlive the first, a second
provider for a change of provider; the clock passes one quota window of 2.

The records of UsageHistory are alike, so they are published in the order of their numbers
(`InOrder`), which leaves out no behaviour but for names. Three records and a batch size
of 2 give a full batch, a partly filled one that is topped up, and a rest for the final
flush; the code makes three final attempts, two exercise "not yet" and "give up".

Four changes on disk are enough for remove, recreate, truncate and rewrite of one file or
for crossings of two; a channel of one place is full after the first update, as the real
one is after 256; a file of two that is alone at the start comes about by the first
change. One change and a reload that has read the old content are enough to set snapshot
and service apart, a second reload repairs it.

In AutoRefresh one credential can be in the job channel, in a worker's refresh that has
outlived its pending minute, and due once more, so it blocks the loop by itself; what a
second one adds to safety the theorem covers, for any number.

In Scheduler three credentials make a rotation in which one may be skipped and a group of
two beside a group of one; two priorities and providers are what one preference and one
mixed request need.

In RequestLoop a copy that is older than its record takes one other thread that changes
the record, which a worker does in every way a second request could, and in more; a pool
makes the difference between a ready copy and one with a free model. A second request is
needed where two prepare, and there one credential without holds is enough (`Within` in
`MCRequestLoop`). Where updates are at work, a round that ends does not wait for another,
which would begin like the first. With a limit of two attempts, a wait and a stream every
reason to leave a round occurs, and the limit lies beyond the first credential, so that a
round may be over with one attempted and one passed over; what a stream does that a plain
request does not, it does alone, since both share the loop. The two pool models are
symmetric.

A channel of one place in Relay is full after one part of an answer, as the real one is
after eight.

A time to live of 1 and a clock to 2 let a binding expire, be renewed and be swept.

Three payloads are enough for a position in the middle of the array with and without
compaction; the real array compacts from 1024 passed items on or at half, here from 2; one
of two connections is slow while the other is not. Subscribers never see the clock, so it
stands where they run; in home mode nobody subscribes, so reader and forwarder run without
them.

**Deadlock** is checked except where the program, its clients or the bound end the
behaviour: UsageHistory (the process exits), Watcher (no changes are left), Relay (the
session is gone and its callers have their answers), SessionAffinity (the service has
stopped), UsageQueue (no payloads, switches or time are left).

**Fairness.** Always of goroutines that have something to do, never of the
outside: no request, update, record, file change, reload or shutdown is forced to
begin. In AuthManager the consumer of updates, catalog callbacks and requests
under way are weakly fair (calls upstream carry timeouts); token refreshes are
not, since nothing needs them. In UsageHistory the writer's `select` is strongly
fair in its ticker and `done` cases, since Go chooses uniformly among ready cases
and both stay ready or come back; `FlushSucceeds` is strongly fair: the database
is not down for ever. `ShutdownEnds` does not lean on that assumption alone: its
wrong form, a final flush without a limit of attempts, fails it, since the final
flush's success is not assumed. In AutoRefresh the loop and the workers are weakly
fair, the two cases of the loop's `select` strongly; deadlines pass
(`GateOpens`, strongly fair, since an update may shut the gate again) and refreshes
end, but nobody is made to send requests or updates. In Watcher events,
reloads and delivery are weakly fair. In Relay the cleanup, the
reader's work on a message it has and receivers go on; nobody is made to send a request
or an answer, to leave, or to end the session. In SessionAffinity only the cleanup's
ticker is fair. In UsageQueue dispatcher and forwarder go on and the push to the home
service is strongly fair: it works now and then. With payloads without end that would not
be enough, since it might work for later payloads only; the bound on payloads stands in for
a service that comes back for good. Scheduler and RequestLoop need none:
`TurnComes` and `SegmentComes` count picks, and `StepsRunOut` is an action property,
explained below.

**What the liveness properties say of the code.** `ReadyEventuallyServed`: a pick
that finds nothing rebuilds the scheduler and picks again, so a snapshot that was
overtaken costs a detour, not the service. `SuspensionHeals`: `MarkResult` resumes
in the registry on every success, not only when the record was cooling; a success
that told the registry only in that case would leave a late suspension for good.
`RemovedEventuallyUnused`: whatever a catalog refresh leaves in the registry, the
scheduler drops a disabled record when it meets it. `LastWriteApplied`: a remove
forgets the hash, so the same content counts as new when it comes back.
`RefreshedWhileTracked`: a wake-up that finds one already in the channel is not
lost, because the loop drains the dirty set after it has taken the token; a full
job channel delays the loop and no more. Its premise ends the updates, since each of
them may carry a gate that is still shut. `WaitersEnd`: a request may register while the
cleanup ranges over the map, and be missed by it, but then it finds the session closed
when it looks or when it writes. `ExpiredAreSwept`: what no request touches again goes
with the next tick after its time. `Forwarded`: a push that fails costs the forwarder a
pause, and the queue's own position never hides what was given back.
`StepsRunOut` stands for the termination of requests: every step of a request ends it,
opens a new round that some credential's retry count still allows, or brings the round
closer to its end, a bounded number of steps away, whatever the others do meanwhile; a
request that takes steps therefore ends.

## 4. Proofs

The proof system checks the following for all values of the constants, under the
assumptions the modules name.

* **AuthStateProofs**, from the assumptions AuthState names (holds and backoff are
  positive, `Models` is finite, Retry-After values are naturals), for any number of writers
  at work at once. A copy may take the record's place at any time, so the inductive
  invariant says the same of the record and of every copy (`Sound`, `CopiesSound`): the
  deadline and the quota flag are backed by the models, levels stop at the cap, a model in
  state error carries an error, and a record without model states has no standing deadline.
  The third is needed because `ClearIfHealthy` decides by status and by error, and is
  right only where the two agree; the last because `Update` keeps the old states when the
  new record brings none. What a copy says stays true while it ages: its deadlines only
  come closer. Results: `TypeCorrect`, `AggregateIsSound`, `BackoffIsCapped`, and from
  the same invariant the action properties `BackoffIsKept`, `ReenabledIsClean` and
  `ErrorIsLeftByRefreshOnly`. Minima and maxima of sets of deadlines and levels enter
  through the lemmas of FiniteOrder.
* **AuthManagerProofs**, under `ProcessAssumption` and `Alone` (no catalog and
  token refreshes: with them the two invariants are false between updates, which
  StaleRegistration.cfg and RefreshRevives.cfg show). The invariant follows
  the update consumer: outside the window between writing a record and telling the
  registry the two agree (`RecordsAgree`); inside it, the consumer's copy says what
  the record is (`WindowIsSound`); and what the scheduler offers is backed by the
  registry unless the consumer is about to drop it (`OffersBacked`), which is why a
  request's old copy does no harm: `View` asks the registry when the copy arrives.
  Results: `TypeCorrect`, `RegistryFollowsRecords` and `RemovedStaysOut`, for any number of
  credentials and concurrent requests.

* **ServiceProofs**, four components of the service.
  * *Refresh loop*, from `RefreshAssumption`. `InHand` says who holds a credential: the
    loop exactly between deciding for a refresh and sending it off, a worker exactly while
    it is busy; and a drain starts with an empty list. Without it the loop could take a
    second credential in hand and lose the first. Results: `RefreshTypeCorrect` and
    `OnlyRejectedDrop`, for any number of credentials, workers and places in the channel.
  * *Relay*, from `RelayAssumption`. `RelayInv` gives each request one of three accounts:
    before it waits nothing was sent for it and only an error can lie in a channel somebody
    closed already; while it waits, what it has received, what lies in its channel, what
    the reader has in hand and what the other side has yet to send add up to the answer
    and its end, unless a message was lost, and a closed channel holds the word that
    explains it; when done, a complete answer is whole. The sum is what makes the property
    inductive: an end that arrives must come after every part. Results:
    `RelayTypeCorrect`, `CompleteIsWhole`, for any number of requests, parts, and places
    in a channel.
  * *Watcher*, from `WatcherAssumption`. `CurrentSettles` looks for the youngest word on
    its way to the service about a file, in the handler's hand, among the pending updates,
    in the batch, in the queue, and last at what is applied, and says that it is what the
    watcher keeps for the file. The property speaks only of the end of that way; the
    invariant has to follow an update along all of it. It is about directory events
    alone, as the property is: reloads hand over what they read before. Results:
    `WatcherTypeCorrect`, `DeliveryAgrees`.
  * *Registry*, from `RegistryAssumption`. `CountsMatchLists` is a sum over clients of how
    often each lists a model. The proof counts pairs of a client and a copy number
    (`Places`), whose cardinality changes by one list at a time (`Recount`), so that it
    needs no induction; `Tallies` follows `Gain`, `Lose` and `Forget` through
    `RegisterClient` branch by branch. `CacheSound` says of a cached listing which moment
    it was computed for, and `SameUntilExpiry` that a listing stays the same until the
    first mark over which it would change runs out; together they give
    `ServedIsCurrent`. Results: `RegistryTypeCorrect`, `ListingsCounted`, `ServedOnTime`,
    `ListedProspects`, for any number of clients, models, providers and copies.
* **UsageProofs**, the two ways of usage records.
  * *History*, from `UsageAssumption`. Three conjuncts beside the types: what is sealed
    stays sealed while the writer drains (`Sealing`), attempts are counted from none and a
    batch keeps to its size (`Counted`), and nothing is stored that was not accepted
    (`OnlyAccepted`). With `AcceptedIsKept` they give `HistoryTypeCorrect`,
    `AcceptedAreKept` and the refinement `Implements`: the initial state maps to one of
    UsagePipeline's, and every step to a step of it or a stutter. Ranges of concatenated
    and split queues enter as lemmas.
  * *Queue*, from `QueueAssumption`. `QueueInv` says who holds what: an `Enqueue` under
    way has a payload and the forwarder a batch exactly at certain points (`Phases`);
    at home the queue stays on and has no subscribers (`AtHome`); a subscriber's channel
    is open exactly while one party has yet to close it, the list, the switching off or
    the connection (`Owned`); a connection has, in its hand and in its channel,
    consecutive payloads from its subscription on, and all of them while it is listed
    (`Followed`); and no payload is in two places (`Distinct`). `OneCloser` needs `Owned`,
    since two parties close channels without a common lock, and `NothingLost` and `IsFeed`
    need `Distinct`: a payload given back while it also waited would be delivered twice.
    Results: `QueueInvariance`, `QueueTypeCorrect`, `DroppedLearn`, `OneCloser`, `NoGaps`,
    `NothingLost` (an action property) and the refinement `IsFeed` of UsageFeed, whose
    `given`, `waiting` and `away` are what was dispatched, the payloads that are alive
    in the queue, and what the forwarder has taken out. They hold for any number of
    subscribers and any sizes of buffers, batches and retention.
* **SchedulerProofs**. The invariant is that of sane shards: views hold exactly the ready
  entries of their priority, groups split them, and each cursor fits what it points into
  (`TypeOK` says so). The lemmas are about remainders: an index taken modulo a length lies
  inside, and the search for the next credential finds one when there is one. Results:
  `TypeCorrect` and `ViewsFollowEntries`.
  `EverybodysTurn` (`TurnComes`) and `EverySegment` (`SegmentComes`) need a second invariant,
  `RotationInv`, since a bound on how long somebody has waited says nothing about the next
  pick. It measures how far the rotation still has to go: `Turn` is the number of picks
  that everybody may take before a member's own, the distance of the cursor, or in a grouped
  view that of the parent plus as many times the number of parents as its child is away;
  `Gap` is the number of mixed picks before the next one in a provider's segment. What was
  waited and what is still to wait stay together below a round. A pick brings all members
  of its view one closer or serves them; a view that is rebuilt with the same members leaves
  every turn where it was, because the cursors are taken modulo the lengths
  (`RebuiltTurn`); a view with other members, or other weights, starts the count again; and
  that a credential is in one view only is why a pick disturbs nobody else's count. The
  slots of the mixed rotation are counted as a set of pairs, so that the sum of the weights
  needs no induction. All hold for any number of credentials, providers, parents and
  priorities.
* **RequestLoopProofs**, from `LoopAssumption`. The invariant adds to the types what a
  request's record means at each of its steps (`Records`); that a preparation lock is held
  exactly from the second look at the record until the preparation is written, and that
  who prepares found the record not prepared (`Locking`, `SettledIsPrepared`); that a
  report is owed exactly while a call is unreported; and of the credentials usable all
  through a round that they are not behind the request untried, and ready in the scheduler
  from its rebuild to the second pick (`PassedIsNew`). The last is where old copies
  matter: such a credential is usable in every snapshot that may still arrive, so after the
  rebuild no thread can make its copy a held one (`StaysReady`), and the second pick cannot
  come back empty while one is left. Results: `TypeCorrect`, `NobodyIsPassedOver`,
  `OnePrepares`, `CallsAreReported`, `RequestsEnd`, for any number of credentials, models,
  requests and workers.
* **SessionAffinityProofs**. The invariant: a request knows the keys it works with, it
  serves only what it was offered (`OfferStands`), and its clock is behind the present.
  The last two are what the results need: a credential on hold could otherwise be served
  from the cache, and a deadline be written that lies before one already there.
  Results: `TypeCorrect`, `ServesOnlyUsable`, `OwnBindingsLast`. The last also needs that
  the key a request deletes on the way to inherit is its first turn's, never its own.

Only model-checked: the properties under fairness (`ReadyEventuallyServed`,
`SuspensionHeals`, `RemovedEventuallyUnused`, `PublishedIsDispatched`, `AcceptedIsStored`,
`ShutdownEnds`, `LastWriteApplied`, `ForcedReloadRepairs`, `RefreshedWhileTracked`,
`WaitersEnd`, `ExpiredAreSwept`, `Forwarded`), which are outside what the proofs can state.
Every invariant and every action property of the passing runs is a theorem, the two of
AuthManager under `Alone`, and so are the safety parts of both refinements.

## 5. Not modelled

Translators, executors, login flows, stores and user interfaces are conversion
and I/O. The home client talks to a service that is not in the repository. Within
the modelled parts: dispatch of requests by the home service, aliases (but for the picker
they decide on), which models the registry lists in RequestLoop, the antigravity
credits fallback, executors that are missing; the
hooks, the contents of `ModelInfo`, `GetAvailableModelsByProvider`; history
queries and compaction; runtime credentials and credentials from the
configuration in the watcher, `Watcher.Stop`; `StopAutoRefresh` and evaluators of the
auto-refresh loop; how session IDs are found in headers and bodies, and `Invalidate` and
`InvalidateAuth`, which nothing calls; the upgrade of a relay connection, pings, the
replacement of a session by one of the same name (every connection gets a name of its
own) and the callbacks that add and remove its credential; the redis protocol around
`SUBSCRIBE` and `LPOP`, its authentication, the contents of payloads and changes of the
retention. `CleanupExpiredQuotas` is in
ModelRegistry although only tests call it today.

## 6. Where comments and code part

The first has a run, and `PROJECT.json` quotes the sentence; the others have a
configuration that ends in the counterexample.

* **RelayStops** – a request, its cancellation, `dispatch` and `cleanup` close or use the
  same channel under nothing but the map's own atomicity (`session.go:109`, `113`, `151`,
  `160`, `175`). Stopping a session while a request is being sent, or an answer is being
  dispatched, makes one of them send on a closed channel, in goroutines that do not
  recover. `manager.go:95` says that `Stop` closes gracefully.
* **BindingLost** – `SessionCache.Get` decides under the read lock that a binding of a
  first turn has expired and deletes under the write lock what another request has bound
  anew in between (`session_cache.go:49`). A binding that sessions do not inherit from
  goes through `GetAndRefresh`, which holds one lock, and lasts (`OwnBindingLasts`).
* **SelectorsStop** – `SetSelector` replaces a selector without stopping it
  (`conductor.go:360`), though `conductor.go:124` says that selectors are stopped during
  shutdown: the cleanup goroutine of every replaced one stays.
* **LateSubscriber** – a redis connection looks at `managementRoutesEnabled` before it waits
  for a command and not after (`redis_queue_protocol.go:65`); its `SUBSCRIBE` may come
  after management was switched off, and stays open, where tests expect subscriptions and
  connections to be closed (`queue_test.go:45`).
* **ErrorLeft** – a refresh that is decided on before another one is rejected can clone
  the rejected record, succeed, and write it back without its error but with its status
  (`conductor.go:4145`, `4196`): the credential is shown in error for no reason
  (`ErrorJustified`). Nothing but such a refresh does that,
  or a handler that writes back a copy of what one left (`OnlyRefreshLeavesError`).
* **BackoffForgotten** – a 429 that arrives during a refresh raises a backoff level, and
  the refresh writes the lower one of its copy back (`BackoffKept`,
  `conductor.go:1182`). Only copies do (`BackoffFallsOnlyWhenWiped`).
* **ReturnsHeld** – the same with a removal during the refresh: the credential comes back
  enabled with the model states it had before (`ComesBackClean`). `ReenabledStartsClean`
  says which copies can bring states along; a management handler that switches a
  credential on again writes back those it was switched off with.
* **SkippedByOldCopy** – after `MarkResult` has let go of the records and before it hands
  its snapshot to the scheduler (`conductor.go:2396`), a pick takes the older copy.
  If the copy is ready but all models of its pool are held, the credential is skipped
  for the round without a call (`conductor.go:1374`), although by its record one of them
  was free all the time. `UsableIsTried` therefore leaves out such credentials, and
  says what the second pick after a rebuild makes good: copies that are held.
* **RotationStarves** – a rotation over a view that changes can pass a ready credential over
  for ever. Three credentials, cursor 1: picks take the second and the third; the second
  goes on hold, the view shrinks to two and the cursor 3 becomes 1; the second recovers, and
  the next picks take it and the third again. Only over an unchanged view does everybody
  have a turn (`TurnComes`). `README.md:56` promises load balancing by round-robin.
* **RefreshRevives** – a token refresh writes its copy back through `Update`
  and enables a credential that was disabled while the refresh was under way (its model
  states: ReturnsHeld).
  No comment plans for it; the copy should be merged with the current record.
* **StaleRegistration** – a catalog refresh can register the models of a
  credential removed after its last look. The scheduler still leaves it alone.
* **AvailableHidden** – a client that is out of quota and suspended is
  subtracted twice and hides a model that another client could serve.
  `GetModelCount` subtracts in the same way, for every 429.
* **RefreshForgotten** – the loop drops a credential whose last error is a 401,
  also one that a request met; a later success clears the error and tells the loop
  nothing, and its token is not refreshed again until something outside updates it.

Noted while reading, without a run: a suspension reported after its client was
unregistered waits for the client and holds it when it registers again, since
`RegisterClient` cleans up only after clients it knows (`model_registry.go:274`);
the second of two removals of a file inside the debounce window is dropped, and the
credential of a file that is gone stays in use (`events.go:178`);
`syncScheduler` may overwrite a newer
addition with its older snapshot, until a pick that finds nothing (covered by
`ReadyEventuallyServed`); a reload that read the directory before a write can put
the old content back, until the next forced reload (`ForcedReloadRepairs`);
`usage.Manager.Stop` returns before the queue is drained (`manager.go:157`), so
records that were published but not yet accepted are lost at exit; `flushFinal`
gives up after three attempts where `writer.go:261` says it retries until success
(`AcceptedIsKept` states what holds: the backend is marked degraded);
`writer.go:55` describes a limit of the PostgreSQL backlog that does not exist.

In the relay, `s.pending = sync.Map{}` (`session.go:182`) races with every use of the map;
`NonStream` returns a cut-off body as a success when its channel was full as the session
ended and the error found no place (`WholeUnlessCrowded` says that only then); a session is
listed before its connection is announced (`manager.go:156`), so an end announced first
leaves the credential of a dead session; and the update that adds it is applied at once
when the service's queue is full, past others that wait in it (`service.go:162`). In the
request loop, an error that was wrapped while a stream was started loses its Retry-After
(`conductor.go:2643`). `InvalidateAuth` (`selector.go:564`) has no caller, although its comment
says that it runs when a credential is rate-limited; `m.selector` is read without the lock
in `useSchedulerFastPath` and `StopAutoRefresh`, and `SetSelector` may come after the latter,
since the watcher stops later (`service.go:988`). In the usage queue, a payload that passed
the test of `Enabled` before a switch-off is appended after the clear and delivered after the
next switch-on if it is young enough; one that was published when all subscribers were full
is neither received nor kept (`queue.go:125`); and what the forwarder gives back gets a new
time and the last place (`service.go:698`).

## 7. Plan

1. AuthManager's `Pick` as the abstract specification of Scheduler, refined by it, and a
   property of rotation over a changing view that the code meets.
2. **AutoRefresh** with providers that lose their executor and refreshes that are
   cancelled, composed with AuthManager's record.
3. The callbacks of the relay, from the connection to the credential and back.
4. The order of saves to the stores.
5. A watcher that hands over the last content, as an abstract specification implemented
   by Watcher.
