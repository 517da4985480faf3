# A TLA+ model of legacy-EFD's content delivery

legacy-EFD (Enterprise File Delivery) copies *content sets* - directory trees, archives
or shares - from a *supplier* host to *consumer* hosts over HTTP, with an optional
satellite broadcast (GBS) beside it. A supplier writes inventories of its content set at
intervals; a consumer fetches the newest inventory at intervals, compares it with its
local copy, and adds, updates or removes local files until the two agree. An administrator
creates, changes and watches content sets from a web console.

This directory holds TLA+ modules for the parts of the system in which threads, retries,
interrupts, callbacks and failures meet:

* the way of the content: one synchronization of a consumer, the service through which its
  threads transfer files, and the transfer of a single file with its retries;
* the way of the inventories: how the supplier keeps its index, the differences and their
  bundles, and how a consumer takes them over;
* management: the requests that change a content set while its task runs;
* the web console: the tree and the form of a content set against a server that answers in
  any order, and the loops in which the dashboard and the status panels ask for news.

TLC checks small instances of each. Every safety property that a passing run checks is also
proved with TLAPS for every value of the constants, and so is the refinement of the
synchronization; liveness stays with TLC (see "What is only model-checked").

Paths below are relative to `src/src/java/com/solers/delivery/` unless they begin with
`src/`.

## 1. Inventory of the system

| Component | State it keeps | Operations | Interacts with | What is hard | What makes it correct | Here |
|---|---|---|---|---|---|---|
| **Consumer synchronization run** (`content/consumer/SynchronizationTask`, `ContentDiffereceTask`, `difference/*`, `event/SynchronizationEvent`) | the run's event with result and counters, two bounded queues, a thread pool | `run`, `runTasks`, `put`, `onStop`, `handle`, `cleanup`, `completed` | calls the transfer service, the inventory retriever, the comparer, the remover, the listeners; interrupted by the schedulers | generator, remover and requesters run concurrently over full queues; poison pills; `shutdownNow`; any collaborator may throw | no difference is lost or handled twice; the verdict describes what was done and stays true; everything ends | modelled, proved |
| **Transfer service** (`transport/http/client/TransferServiceImpl`) | `isRunning`, `currSession`, `saturationLimit`, the executor | `start`, `process`, `stop` | called by the run's requesters and by its driver; tasks on the executor | requesters of an interrupted run are not waited for and call a service that has been stopped or started again; interrupts inside `acquire` and `get` | permits are neither lost nor made up; `stop` returns; no transfer loses its session | modelled, proved |
| **Content transfer** (`transport/http/client/util/TransferTask`, `ContentCopy`, `TransferContent`, `retry/*`) | bytes counted, temporary file, local file, retry policy | `call`, `fetchData`, `createFile`, `execute`, `finalizeRequest` | answered by the supplier's `FileHandler`; judged by `Requester` | retries with a range, broken streams, cancellation, crashes, the delete-then-rename at the end | what is reported as received is the listed file; a local file is never replaced by part of one | one file, proved |
| **File server** (`transport/http/server/*`) | none per request | `FileHandler`, `ValidationHandler`, `SynchronizationEventHandler`, `GbsHandler` | answers the consumer | the file changes between two ranges; the bundle asked for is being replaced | the range, or the bundle, asked for is the one sent | as the consumer meets it |
| **Inventory creation and pruning** (`content/supplier/*`) | index, differences and bundles on disk | `InventoryCreationTask.run`, `InventoryDifferencePruner` | comparer, bundler, schedulers | interrupts, failures and crashes between any two steps; leftovers; a consumer that asks meanwhile | the differences kept lead to the index, a bundle leads from the inventory of its name to the index | modelled, proved |
| **Inventory factory, bundler, differences** (`inventory/InventoryFactory`, `InventoryBundler`, `inventory/index/diff/*`) | files named by a timestamp | create, scan, apply, bundle, unbundle | supplier's task, retriever | which file counts; what a merge takes over | inventory + differences = an inventory the supplier had | modelled, proved |
| **Inventory retrieval** (`content/consumer/InventoryRetriever`) | the consumer's inventory and its timestamp | `getNewInventory` | transfer service, bundler | a bundle that is cut short, one that was not asked for, a failed merge | the inventory compared is one the supplier had, and in the end the supplier's own | modelled, proved |
| **Inventory comparison** (`inventory/comparer/UnorderedInventoryComparer`) | two sets of nodes seen | `compare` | reports to a `NodeListener` | unordered input, soft cache, interrupt in the middle | reports exactly the set difference | its reports, whole or cut short |
| **Content set management** (`content/ContentServiceImpl`, `ContentSetManager`, `rest/resource/ContentSetResource`, ...) | rows of the database, the map of schedulers | create, save, enable, disable, remove, `initialize` | schedulers, database, GBS | no lock and no version keep two requests apart; a request cut off before its commit; a run in progress | the schedulers do what the database says; one run of a content set at a time | modelled, proved |
| **Schedulers** (`content/scheduler/*`) | futures of the scheduled tasks | `start`, `stop` | run the tasks; interrupt them | cancelling forgets a task that is still running; a task that throws is not run again | an interrupted run ends, an enabled content set is run again | modelled but for their calendars |
| **Web console: content sets** (`src/web/js/user/user.js`, `contentset.js`, `src/web/js/extensions.js`, `types.js`) | the tree with its root's flags, the open form, calls in flight | load, reload, menu, toolbar, drag and drop, edit, save | DWR calls to the REST resources; events relayed from the tree to the form | answers in any order or never; a reload during a load; several copies of one content set | tree and form show what the server has | modelled, proved |
| **Web console: dashboard and status panels** (`src/web/js/user/dashboard.js`, `status.js`) | grids, stores, what has been accounted for, timers | ask, populate, age out, prune, change tabs | the transfer monitor | timers that cannot take back a call; answers that overtake one another; the server repeats itself | one loop, each synchronization recorded once, news arrive | modelled, proved |
| **Transfer monitor** (`transport/http/monitor/TransferMonitor`) | current synchronizations, time-limited | `startConsumer`, `completeConsumer`, supplier's side | run, server handlers, dashboard | completion of what was never started | shows what is going on | active, complete, expired |
| **Removal of content** (`content/consumer/difference/Remover`) | the parents whose children are still there, pending deletes | `handle`, `cleanup` | file-backed queue, `PendingDeleteDAO` | a child that cannot be deleted; deletions put off | deletes only what was listed, and ends | when it works and what it counts |
| **File-backed queue** (`util/FileBackedQueue`) | head, tail, pages on disk | deque operations | used by the remover and the comparer | paging, clearing | is a deque | not modelled |
| **Events and listeners** (`event/*`, `event/listener/*`) | batches of content events, single-thread executor | `notify`, `flush`, `started`, `completed` | the run, requesters, the index | late events of an interrupted run; a listener that throws | the index holds all of a run's events before its end | exceptions only |
| **GBS push, poll, FTP** (`transport/gbs/*`) | files queued for broadcast; archives seen | `add`, `archive`, `upload`, `poll` | requesters, supplier | restart of a content set, failed upload, incomplete archive | every pending file is delivered or asked for again | not modelled |
| **Scripting** (`scripting/*`) | event queue | enqueue, dispatch | listeners | bounded queue, slow scripts | no event lost | not modelled |
| Event index, inventory formats and providers, HTTP connections, alerts, persistence, domain, users and passwords, security set-up, reports and metrics, the console's session and history, installers, utilities | - | - | - | I/O, sequential, generated or third-party | - | not modelled |

`PROJECT.json` lists each part with its sources, its status and the reason, and the
hazards found in the code, each at its line.

## 2. The modules

```
SynchronizationResult          results, counters, computeResult
  Synchronization              abstract: what a synchronization promises
  SynchronizationTask          detailed: scheduler thread, generator, workers
    SynchronizationTaskProperties   invariants, refinement, liveness
      MCSynchronizationTask         instances for TLC
      SynchronizationTaskProofs     TLAPS
Dashboard  (with the transfer monitor)
StatusPanel
  Monitoring                   a dashboard or a status panel, on one monitor

TransferService   ContentTransfer   InventoryExchange
ContentSetManagement   ContentSetConsole   Monitoring
   each:  X -> XProperties -> MCX
                           -> XProofs  (and ContentSetConsoleFormProofs on the console's)
```

Operators whose comment begins with "Mutant" are plausible slips in the code, one next to
the definition each would replace. No specification uses them; they exist so that each
property can be shown to fail when the code is wrong.

The modules touch in the code where one's result is another's input: `InventoryExchange`
yields the inventory whose comparison is `Refreshes` and `Removes` of
`SynchronizationTask`; a requester's step there is a call of `process` in
`TransferService`, and one transfer of that is `ContentTransfer`; the runs that
`ContentSetManagement` starts and interrupts are runs of `SynchronizationTask` or of the
supplier's task; the calls of `ContentSetConsole` are requests of `ContentSetManagement`.
Each module keeps of its neighbours what can reach it: outcomes, exceptions and interrupts.

### SynchronizationTask

One call of `SynchronizationTask.run`.

| Code | Model |
|---|---|
| position of the scheduler's thread in `run` and `runTasks` | `phase`; each action leads from one phase to the next, to `complete` (the `finally` block) when `run` catches an exception, or to `escaped` when one leaves the `finally` block |
| `SynchronizationEvent.result`, `computeResult` | `result`, `ComputeResult(tally)` |
| `ConsumerProgress` counters | `tally`: which of completed and failed are not zero, which is all the verdict looks at |
| `TransferMonitor.consumers` | `registered` |
| `TransferServiceImpl.isRunning` | `running` |
| interrupt status of the threads | `interrupted`; `awaitTermination` clears the scheduler's, `shutdownNow` sets the pool's |
| `DifferenceGenerator.run`, the comparer's reports | `genPc`, `found`; `Report`, `DropReport`, `CompareReturns`, `CompareFails`, `OpenFails` |
| `DifferenceQueuer.onStop` | `stops`, `pills`: one pill for the remover, then one per requester; called twice when the comparison throws, because `compare` calls it in `finally` and `run` calls it again |
| the two `ArrayBlockingQueue`s | `refreshes`, `deletes`; `put` waits for room, or drops its element if the thread is interrupted |
| `ContentDiffereceTask.run` | `workerPc`, `holding`; `Take`, `WorkerInterrupted`, `HandleRefresh`, `HandleRemove`, the two cleanups, `HandlerFails` |
| nothing (history) | `outcome`: what became of each difference; `cleanedUp` |

The differences the comparer finds are a constant set; the order in which it reports them
is free. A handler is one step: what it does to files is the subject of the other modules,
here it counts as completed or failed, or throws. A requester that calls the transport
after `stop` gets `TransportLifeCycleException` without any fault being switched on.

`Synchronization` is the abstract promise: each difference meets at most one fate, the
report is given once and is the one the counters call for, a failure is reported only if
nothing was done, and only a run that reports `INTERRUPTED` may change content afterwards.
The refinement maps the report to `result` from the moment `event.completed()` has returned.

### TransferService

`TransferServiceImpl` over several runs of one content set. Every caller of `process` is a
thread of one run (`<<n, requester>>` or `<<n, Scheduler>>`, the thread that fetches the
inventory); `pc` says where in `process` it is, `active` whose transfer an executor thread
is working on, `session` with which session. `Schedule` is the scheduler's thread: `start`,
the inventory, the pool, and `stop` in its four steps (collect all permits, send the stop
message, give them back, forget the session). `isRunning` and `currSession` are plain
fields: a requester that was interrupted is not ordered after the later writes, so it may
read the current value or that of its own run (`MaySeeRunning`, `MaySeeSession`).
`process` sets the interrupt status again whenever it has caught the exception, so an
interrupted requester stays interrupted.

### ContentTransfer

One file. The content of a file is a sequence of pieces `[version, from, to]`, joined when
they are adjacent, so that skipped, repeated and mixed bytes are visible. `Answer` is
`FileHandler`'s reply to a range; `LooksComplete` is `MathHelper.percentComplete` with its
three significant digits, half up, compared with 100. `before` is what the local path holds
at the beginning: nothing, a file or a directory (`OldDirectory`, of which `Remains` may be
left). `Replace` and `Rename` are separate steps: what was there is deleted before the new
file takes its name. What the code does not defend itself against - the supplier's file
overwritten between two attempts, the temporary file removed by another run, a write that
fails half-way, a deletion or a rename that fails - are faults recorded in `disturbed`;
properties say under which of them they hold.

A deletion fails in two ways. `delete()` of a file returns false, which nobody looks at, and
the rename goes over the file (`FileUndeleted`). `deleteDirectory` throws, perhaps with part
of the directory gone (`DirectoryUndeleted`): the attempt has failed with all bytes counted,
so the retry asks for a range that begins at the end, is sent the whole file and appends it to
the first. If the directory can be deleted now, the local path then holds the file twice and
the transfer is reported as a failure, because the bytes are too many; the next
synchronization finds the difference again.

### InventoryExchange

The supplier's task, its files and one consumer. A directory is a function from timestamps
to what the file of that timestamp holds (`None`: no file); `Latest` picks the file that
counts, as `InventoryFactory` does by name.

| Code | Model |
|---|---|
| the children of the content set's root | `content`, from `Entries` to a version or `None`; the version of a directory stands for all that is under it |
| the open directory: `*.inv`, `*.diff` | `index`, `diffs`; a difference is named for the inventory it leads from and has the stamp of the one it leads to |
| the packaged directory, with the temporary names | `bundles`, `temps` |
| `InventoryCreationTask.run` | `pc`: `Cleanup` and `Create`, or `Scan` (`ScanUnchanged`, `ScanCutShort`) and `ApplyDifferences`; then `Prune` and, unless the latest bundle has the name of the index, `Package`, `Delete` each old bundle, `Rename` each new one |
| what may stop it | `Stop` between any two steps; `PackageFails` (the temporary files go); `PackageTorn` (a process that ends while it writes one); `LoseIndex` |
| `MergedNode`, iterated by `InventoryWriter` | `Takes`: a difference counts for the children of the root, nothing of it for what is deep |
| `SupplierContentSetManager.getFile` | `Requested`, `Served`: the bundle asked for, or the latest |
| `InventoryRetriever.getNewInventory` | `TakeIndex`, `TakeDifferences`, `TakeIndexCutShort` |
| nothing (history) | `history`: every index there has been; `astray`; `published` |

A consumer's request is answered between two steps of the supplier's task, so that it may
ask while bundles are deleted or renamed. `astray` says that differences went to a consumer
that had not asked for them, or ones that were never applied got into a bundle; the consumer
applies them nevertheless and is, under the latest timestamp, permanently wrong. Without
that condition TLC refutes `Faithful` even with no fault at all. `published` says that the
bundles are, or will be made, those of the index: a run that ends between the new index and
its bundles is not made up for until the next change, and without that condition `Converges`
is refuted. Assumed are a clock that only goes forward, one supplier's task at a time,
deletions and renames that work as POSIX has them, and one consumer.

### ContentSetManagement

One content set. A request is a thread of the server: it looks the row up in a transaction of
its own (`Arrive`), calls `ContentServiceImpl` (`Call`), which has the `ContentSetManager`
unregister the old scheduler (`Lookup`, `GetScheduler`, `Stop`, `RemoveFromMap`), register
a new one (`Put`) and start it (`Start`), and ends with its transaction (`Commit`, or `Fails`:
everything but the scheduler is rolled back). `row` is
what has been committed, `registered` the manager's map, `scheduled`, `running`,
`interrupted` and `dropped` the schedulers and their executors; a scheduler is named for the
request that made it. `Restart` ends the process at any point. `apart` is TRUE as long as no
two requests have overlapped since the start: nothing in the code keeps them apart, and TLC
finds without that condition a disabled content set whose task is scheduled for ever.

`failed` is TRUE from a failure after the manager has been called to the next commit or
restart. The database may refuse what no validator looks at - a name or a display path that is
too long, a unit of an interval -; `GenericHibernateDAO.makePersistent` catches the exception
and only logs it, so that `ContentServiceImpl.save` goes on to the manager, whose scheduler is
replaced and started before the transaction is rolled back. From then on, one lone request
having failed, the scheduler runs what the row does not say. What puts it right is the next
request for the content set that succeeds, or a restart; the properties speak of the times
before the failure and after the repair, and `OneActive`, which does not need that condition,
of all times.

### ContentSetConsole

One content set in the browser of one administrator, and the server it asks. JavaScript runs
one handler at a time, so each handler is one action; between them lie the calls.

| Code | Model |
|---|---|
| the content set on the server | `row` |
| the root, an `AsyncTreeNode` with a `DWRTreeLoader` | `loading`, `loaded`; `waiters`, the timers of `expand`; `lists`, the calls of the loader with what they bring |
| a leaf | `nodes`: the attributes it was loaded with, the object its menu works on, and the folder it is in. After an enable or a drop these differ |
| `ContentSetForm.contentset` | `form`; `shared` if it is the object of a leaf's menu |
| DWR calls that change something | `calls`, each sent, (read,) served or refused; answered or failed in any order; `multi` masks the panel |
| the toolbar, the menu, drag and drop, the form's buttons | `DoMultiAction`, `ChangeStatus`, `ConfirmDeleteContentSet`, `NodeDropped`, `EditContentSet`, `AddContentSetForm`, `Submit`, `CloseForm`, `RefreshTrees` |
| the events the user panel relays | `UpdateStatus`, `UpdatePath`, `Remove` |
| `updateDisplayPath`, which reads in one request and saves in another | `ReadMove`, `WriteMove`, `RefuseMove` |
| `RestfulContentService.enable`, `disable` and `remove`, which ignore the status of the response | `ServeChange`: `Change` or `Neglect`, answered as done in both cases |

Five histories name the ways in which the console goes stale, and each is needed: `lost` (an
answer never came, or nobody was left to hear it), `swallowed` (a reload was asked for during
a load: `expand` waits, and what the older load brought counts as loaded), `crossed` (two
changes that undo each other were out at once), `strayed` and `misled` (leaf and form are told
of a change when it is sent, and nobody takes it back). `strayed`: a move was refused - the
content set does not validate, the database fails - and the leaf stays in its new folder until
the next reload, which a refusal does not bring about. `misled`: while a form was open a move
was refused, or a switch was not carried out although it was answered as done; the tree
is reloaded and shows it, the form stays wrong until it is closed. `upToDate` says that a form
was given what the server had: the Edit of a leaf that has been moved opens a form with the
old folder, and the save takes the content set back there. A drop back to the folder the leaf
was loaded in is never sent.

One form is open at a time: a bound of the model that the code does not have. `showTab` looks
for a tab by its title (`src/web/js/user/user.js:389`), and the title of a form that has been
edited ends in an asterisk (`src/web/js/types.js:322-328`), so Edit opens a second form on the
same content set, of which `FormStaysTrue` says nothing.

### Dashboard, StatusPanel, Monitoring

`Dashboard` holds the transfer monitor (each synchronization active, complete for three
minutes, then expired) and the dashboard: its calls in flight with what they bring, its
timers - the one in `refreshTimeout` and those it has lost track of -, the active grid, the
recent store with its age filter, and `meta`, what it has accounted for. `PopulateDashboard`
is the whole callback: accounting in the order of the answer, pruning, both grids, the next
timer. A record that is new is never too old at once for the age filter; in the code it can be,
because the age counts from the last time the server was asked (`dashboard.js:442`), and then
it is in the store and in `meta` and only not shown. `StatusPanel` has the loop of a panel, which `tabchange` starts and stops. `Monitoring`
puts either on the same monitor; a behaviour has one of them open, because they share nothing
else. `presses` and `leaps` count what multiplies the loops: a Refresh, or leaving the tab,
with a call out.

## 3. What is checked

| Run | Configuration | Shows |
|---|---|---|
| `sync` | `SynchronizationTask.cfg` | `Accounted`: each difference is in one place until its one fate; `CleanupIsLast`: delayed deletions come after all removes; `QuietWhenReported`; `LeftOnlyByTheDead`: without a cancellation a difference stays queued only if every reader of its queue died; `KeepsPromise`: refinement of `Synchronization`; `Terminates`: run and pool come to rest unless a worker died of an exception; `InterruptStopsPool`: after `shutdownNow` the pool always does |
| `sync_hang` (violated) | `SynchronizationTaskHang.cfg` | `ComesBack`: the remover dies of an exception, its queue is full, and `run` waits for ever |
| `sync_verdict` (violated) | `SynchronizationTaskVerdict.cfg` | `CompleteMeansSynchronized`: a run whose comparison threw, in the trace because the inventory could not be opened, compared nothing and is reported as a synchronization in which nothing had to be done |
| `transfers` | `TransferService.cfg` | `PermitsAccounted`: no permit is lost, and at most one too many per interrupted caller; `Undisturbed`: a caller that is not interrupted transfers under a permit, in its own session, with the service up; `StopReturns`; `InterruptedLeave` |
| `transfers_stop` (violated) | `TransferServiceStop.cfg` | `NoTransferAtStop`: a cancelled transfer is still active when the stop message is sent |
| `transfer` | `ContentTransfer.cfg` | `TempIsPrefix`: the temporary file is the prefix that was counted; `SuccessIsWhole`: success means the whole listed file, though 99.95 % passes for complete in `ContentCopy`; `FailureKeepsOld`: a failure leaves what was there, unless a directory was not deleted altogether; `NeverPartial`, at any instant a crash may come; `Ends` |
| `transfer_rename` (violated) | `ContentTransferRename.cfg` | `NowItExists`: a failed rename is reported as success although the local file is gone |
| `inventories` | `InventoryExchange.cfg` | `Contiguous`: each difference kept leads to the next and the last to the index; `Faithful`: the consumer has an inventory the supplier had; `Converges`: in the end the supplier's own, which describes the content set |
| `inventory_merge` (violated) | `InventoryExchangeMerge.cfg` | `MergeGoesDown`: what changes below a directory never gets into the index |
| `management` | `ContentSetManagement.cfg` | `Agreement`: the schedulers are what the database says, unless requests overlapped or the last one failed after it had changed them; `OneActive`: whatever fails, one run at a time that nobody has interrupted, and no scheduler out of reach; `GoesQuiet`, `ComesToRun` |
| `console` | `ContentSetConsole.cfg` | `NoDuplicates`, `LoadingIsAwaited`: loads and reloads leave one leaf, and never a second call; `TreeIsFresh`, `FormStaysTrue`: at rest tree and form are what the server has, but for the five ways named above; `MasksGo`, `LoadEnds` |
| `monitoring` | `Monitoring.cfg` | `EachOnce`: a synchronization is recorded once or not at all; `OnlyDetoursAddLoops`; `ActiveSettles`, `PanelSettles` |

Each passing run also checks the module's `TypeOK`.

### The disagreements

1. `sync_hang` - the comment in `SynchronizationTask.run` asks that the task always comes
   back to the scheduled executor. `ContentDiffereceTask.run` catches only
   `InterruptedException`; once the remover has died of a `RuntimeException` and its queue
   is full, the generator waits in `put`, `awaitTermination` never returns, and the content
   set is not synchronized again until someone cancels it. One exception is enough: in the
   trace the remover dies on the first of two removes and the second fills its queue.
2. `sync_verdict` - `DifferenceGenerator.run` swallows the exception of a comparison, whether
   the inventory could not be opened or it failed half-way, and the verdict is computed from
   what was counted until then; `SynchronizationResult` says of the verdict that the content
   set was (or was brought) in synchronization. In the trace the inventory cannot be opened and
   the verdict is `COMPLETE_NOT_MODIFIED`. The faults of this run leave out that the prescan
   fails, in the scheduler's own thread, which `run` catches.
3. `transfers_stop` - `stop` says it waits until no transfer is active. `process` releases the
   permit of an interrupted caller when it has asked the task to cancel, not when the task
   has ended, and lets a caller interrupted in `acquire` transfer without one.
4. `transfer_rename` - `createFile` deletes the old file, fails to rename the new one
   twenty-one times, logs it and returns; `finalizeRequest` calls the transfer completed.
5. `inventory_merge` - the comment in `MergedNode.getChildren` says that an inner class makes
   the merge go on down the tree. It overrides `get` of an `ArrayList`, and `InventoryWriter`
   iterates; since Java 7 the iterator of an `ArrayList` does not call `get`, and the build
   is for Java 8 (`src/nbproject/project.properties:95,118`). What changes inside a directory
   that was there before is in the difference file and never in an index, the supplier's or a
   consumer's, and every later run of the supplier's task finds the same difference again.

### Bounds

* Synchronization: two requesters and one remover, one refresh and one remove, queues of
  two (5000 in the code, `SynchronizationTask.java:77`). With the pills there is more to put
  than room, so the refresh queue fills; a pill each, put twice when `onStop` is called twice,
  blocks or not according to who has died; two requesters suffice for one to die while the
  other drains the queue. `sync_hang` takes one requester, no refresh, two removes and queues of
  one: the remover dies on the first remove, the second stands for the `QUEUE_SIZE` more that
  fill its queue, and there is no room for the pill. A longer queue only puts off the same states,
  but a shorter one than there are requesters makes `Terminates` fail: the second call's pills
  have no reader, and the code relies on there being room for them. `Cancel` is offered until
  the thread leaves `awaitTermination`; afterwards nothing in `run` reads the status.
* Transfer service: two runs, so that a straggler of the first meets the second; one permit
  (three in the code), so that the straggler and the next run's requester contend for it. One
  requester, because liveness and safety are checked in one run; the invariants are theorems
  for any number. `transfers_stop` has two requesters in one run.
* Content transfer: nothing, a file or a directory in its place; a listed file of 2000 bytes, for which 1999 look complete; versions of
  the same, a greater and a smaller size; streams that break at 1000, 1999, 2000 or 3000; two
  retries, so that a resume is itself resumed; each fault at most once and at most two of
  them in one behaviour. `MaxRetries` stands for the time `RetryPolicyLinearTime` has.
* Inventories: a file and a directory, which change twice (`MaxEdits`), each with two
  versions or absent; two differences kept (`MaxDiffs`), so that the third prunes; four
  timestamps (`MaxClock`), so that the consumer may be two, one or no difference behind, or
  before the oldest; two faults of any kind, so that a leftover of one run meets a second run
  that is cut short. A deep change uses up the clock, because it is found in every run;
  `Converges` speaks of behaviours in which the clock is not at its bound.
* Management: three requests of any kind, two at once (`MaxAtOnce`), and one restart: a request
  that is cut off or fails, one that comes after it, and one that overlaps.
* Console: four actions of the administrator (`MaxClicks`) and two calls in flight with one
  load: edit, drop, toolbar and save in one behaviour, each with the others' answers
  outstanding or refused. Without any one of its five conditions TLC refutes `TreeIsFresh` or
  `FormStaysTrue` within these bounds. One form at a time. Its safety properties are theorems
  for any number of actions and calls.
* Monitoring: two synchronizations, of which one is watched by the panel; room for one recent
  entry (`MaximumEntries`), so that the second prunes the first while the server still reports
  it; two actions of the user, so that answers of two extra loops overtake one another; four
  tab changes: leave, return, leave, return.

No run uses symmetry: most check liveness as well.
Deadlock is checked except where a system may really stop: in the synchronization whose
faults let a worker die (the generator may wait for ever, as `sync_hang` shows), and in
inventories, management, console and monitoring, where nothing is left to do once the bundles
are at the consumer, the requests are done or the user has stopped. A step `Finished`
(`Ended`) marks the states in which the other systems may rest.

### Fairness

* Every thread keeps running while it can: weak fairness for the scheduler's thread, the
  generator, each worker, each caller together with its task, the call and the requester's
  judgement, each request of management, and each executor that has something scheduled. The
  JVM's threads and the executors' pools justify it; a blocking queue or a semaphore wakes a
  waiter when there is something to take.
* A handler of the synchronization is a single step and so always returns: this leaves out
  the remover's endless loop over a child that cannot be deleted (listed as a hazard), sockets
  without a time-out and full disks. In management only a run that was interrupted must end.
* `Receive` and the broken stream are one step group (`Call`), so a stream ends or makes
  progress; the retries are bounded by the policy, not by fairness.
* The supplier's task and the consumer's are scheduled again and again: weak fairness for
  `Supply` and for `Retrieve`, and none for the faults.
* The browser: the server serves what it was sent and the browser hears of it - or of the
  failure, which is a step of its own that may take the place of the answer -, and timers
  fire. `LoadEnds` names the one case that is not repaired: a load whose connection fails.
* A status panel's call that fails (`StatusFails`) also stands for a renderer that throws: in
  both cases no timer is set.
* Nobody is assumed to cancel, to fail, to click, to start a synchronization or, in
  `TransferService`, to stop asking for content.

## 4. What is proved

The modules `...Proofs` hold for every value of the constants that satisfies the named
assumptions of the specifications; TLC evaluates the assumptions on each run's instance. Each
proof has the same plan: an inductive invariant that was model-checked first, its base, one
step per action, and the properties as consequences.

### The synchronization

Assumptions: `ThreadsAssumption` (finitely many requesters, at least one, as
`ConsumerContentSet.concurrentTransfers` requires; distinct threads),
`DifferencesAssumption` (finitely many, adds and updates apart from removes, the pill is not
one of them), `QueueSizeAssumption` (at least one slot), `FaultsAssumption`.

The invariants that the runs check are not inductive; `IInv` is, with five parts:

* `TypeInv`: `TypeOK`, and a call of `onStop` in progress has been counted (`StopsLeft`);
  without it `stops` could fall below zero.
* `PhaseInv`: what the pool may be doing, and what the result may be, in each phase of
  `run` - the pool is idle before it is started; a result other than `INTERRUPTED` at the end
  means that the pool is idle or has stopped; a failure means that nothing was counted; a
  computed result is still the one the counters call for. `QuietWhenReported` and the
  refinement rest on it, with the lemma `RestIsQuiet` (a pool at rest takes no step).
* `HoldingInv`: what a worker holds, according to where it is; it reads its own queue only.
* `Accounted`: itself, once the queues' operations are described by the lemmas
  `ContainsTaken` and `ContainsAppended`.
* `PillsInv`: no pill before the comparer has finished; no difference behind a pill; a worker
  that holds the pill has left only pills in its queue; the cleanup comes with the pill.
  `CleanupIsLast` and `LeftOnlyByTheDead` follow from it.

| Theorem | Result |
|---|---|
| `Invariance` | `Spec => []IInv` |
| `TypeCorrect` | types, and the bound of the queues |
| `NothingVanishes` | `Accounted` |
| `CleanupLast` | `CleanupIsLast` |
| `Quiet` | `QuietWhenReported` |
| `LeftByTheDead` | `LeftOnlyByTheDead` |
| `Implements` | `KeepsPromise`: the refinement of `Synchronization`, from `ReportInit` (initial states) and `ReportStep` (each step is one of the abstract specification, or a stutter) |
| `RunsOutOfSteps` | a run takes at most `14 + 7 * Pills + 3 * Cardinality(Differences)` steps |
| `NeverStuck` | `SomebodyMoves`: a run that is not over has a thread that can go on |

The last two are what `Terminates` amounts to without `ENABLED` and fairness, for any number
of requesters and differences.

`RunsOutOfSteps` counts down `StepsLeft`: a difference or a pill is put, taken and handled,
each thread stops once, `run` has a rank that only falls. An exception or an interrupt only
skips steps. `onStop` is counted twice, because a comparer that throws has it called again.

`SomebodyMoves` spells out what each thread waits for (`GeneratorCanMove`, `WorkerCanMove`,
`RunCanMove`: room, an element, the end of the pool, or an interrupt). It allows one way of
standing still: a worker has died of an exception on a difference, and nobody has interrupted
the pool - the hang that `sync_hang` shows. Two invariants are needed besides
`IInv`: `PoolInv` (the pool is interrupted as a whole; a worker stops because of its pill, of
an interrupt or of an exception) and `PillCount` (as long as nobody is interrupted, the pills at
the end of a queue are those that were put there, by the first `onStop` as a whole and by the
second so far, less those that were taken). With them, a full queue whose readers have all
gone would hold more pills than there are.

That last step needs `Cardinality(Requesters) <= QueueSize`, a hypothesis of the theorem. In the
code the queue has 5000 places (`content/consumer/SynchronizationTask.java:77`);
`concurrentTransfers` has a minimum of 1 and no maximum, so it is the delivered values and not
the code that keep it. Without it the claim is false: with three requesters, two places and a
comparer that throws, TLC finds the second `onStop` putting pills into a queue that all its
readers have left. `Terminates` holds in its run under the same condition.

### The transfer service

Assumptions: finitely many requesters, any number of runs, at least one permit, the
scheduler's thread is no requester, no run is called `NoSession`. `IInv` there:

* `ServiceInv`: which phases have a session and a running service.
* `CallersInv`: an interrupted requester belongs to a run that has ended (or is ending); a
  caller that is not interrupted is in `process` only during its own run.
* `HoldersInv`: a caller has a permit only between `acquire` and `release`; one that is not
  interrupted has it all that time and is waiting exactly while its transfer is active.
* `PermitsInv`: the account of the permits, with the interrupted callers that have *left* in
  place of all interrupted callers - a permit too many is always the last act of an
  interrupted caller - and `permits >= Limit` between two runs: the exception for which a
  missing session accounts loses a permit only then, when all of them are there.

| Theorem | Result |
|---|---|
| `ServiceInvariance` | `Spec => []IInv` |
| `ServiceTypes` | `TypeOK`; the permits never fall below zero |
| `PermitsAreAccounted` | `PermitsAccounted` |
| `TransfersAreUndisturbed` | `Undisturbed` |
| `NobodyWaitsInVain` | while `stop` waits for all permits, or a caller for one, somebody who has a permit can go on |

`NobodyWaitsInVain` is the reason why `StopReturns` holds: the permits that are missing
are with callers that submit, or await the outcome of, a transfer (or with the thread of
`stop` itself), and none of those waits for a permit. It is a state property of the account
`PermitsInv`; that such a step is taken in the end is left to fairness.

### The content transfer

Assumptions: the listed version is one of the versions and every version has a length; streams
may break anywhere; any number of retries and faults; `NoFile` is no file, and a directory is
neither a file nor nothing. What the code does
not defend itself against is in `disturbed`, and the invariant has a part for each degree of
disturbance: without conditions `TypeOK`, `Open` (while a stream is read there is a file to
write to) and `Decided` (a completed transfer is over); `Mild`, if streams were truncated or
lacked their trailer at most: the temporary file is the prefix that was counted, or too many
bytes were and no success can come of it - a transfer whose directory could not be deleted is
one of these; `Clean`, without any fault but a file that is not deleted and renamed over
(`Spared`): never too many bytes, and the local path as it was
until it is replaced.

| Theorem | Result |
|---|---|
| `TransferInvariance` | `Spec => []Inv` |
| `TransferTypes`, `ResumesExactly`, `ReportedIsWhole`, `FailedKeepsOld`, `PlacedWhole` | `TypeOK`, `TempIsPrefix`, `SuccessIsWhole`, `FailureKeepsOld`, `NeverPartial` |
| `RunsOutOfTurns` | each step lowers `TurnsLeft`, or keeps it and lowers `ToRead`; both are numbers |

`RunsOutOfTurns` bounds a transfer: five turns for each retry the policy has time for, twelve
more, one for each fault (`5 * MaxRetries + 12 + MaxFaults`), and between two turns no more
reads than the answer is long. The measure is lexicographic because a new answer may be
longer than what the last one left unread; it shows that neither a stream that breaks after
every piece nor a cancellation in the middle makes the loop of retries go on for ever.

### The exchange of inventories

Assumptions: any entries, directories among them, and versions; any bounds; `None` and `Same`
are no files. The invariant `FilesInv` has, besides types,

* `Links`: each difference leads forward, and to the next or to the index (`Contiguous`);
* `Past`: timestamps name one inventory each, and none is later than the index;
* `Chained`: an earlier inventory becomes the index by the differences kept from its timestamp
  on - the fact that makes a bundle of differences true; that it survives a further
  application rests on the lemma `MergeAdded`: applying differences and then a newer one is
  applying all of them at once;
* `Packaged`: every bundle, temporary or not, of whatever run it is left over, makes of the
  inventory of its name one there has been (`Leads`);
* `Faithful` itself.

That a set of timestamps has a latest, which `CHOOSE` in `Latest` and `Newest` needs, is
proved from the well-foundedness of the strict subset ordering of a finite set
(`LatestExists`).

| Theorem | Result |
|---|---|
| `TypeInvariance` | `TypeOK` |
| `LinksStay` | `Contiguous` |
| `FaithfulStays` | `Faithful` |

### Management

Assumptions: finitely many requests; `Boot` and `None` are none of them; any number of
restarts, of requests in progress at once and of failures. The invariant: a run that no
scheduler would stop has been interrupted; and as long as no two requests have overlapped
(`Alone`), the one in progress knows at each of its steps where row, map and scheduler stand
(`Progress`) - less of it at the beginning, if the one before it failed -, and between
requests they agree, unless the last one failed. What it does itself to the scheduler does not
depend on what it found, which is why a request that succeeds repairs what a failed one left.

| Theorem | Result |
|---|---|
| `Invariance` | `Spec => []Inv` |
| `ManagementTypes`, `ManagerAgrees`, `AtMostOneActive` | `TypeOK`, `Agreement`, `OneActive` |

### The web console

Assumptions: any number of clicks and of slots for calls (`Slots`); the names of states are
apart from content sets, forms and calls (`NamesAssumption`). On top of types and of `LoadInv` (while
the tree is loading it has no leaves, and exactly one call is out) the invariant `FreshInv`
says

* `CallsInv`: unless an answer was lost, somebody listens to every save; unless changes
  crossed, no two calls in flight conflict;
* `MovesInv`: a move that has read the content set will write the `enabled` that is there;
* `ShownInv`: what the tree shows, and what a served load is about to show, is what the server
  has - unless a call that was carried out is about to reload the tree (`Awaited`), the only
  excuse there is;
* `PlaceInv`: the move of a leaf away from its folder is under way, or done, or refused since
  the last load.

The form is proved true on top of that, in `ContentSetConsoleFormProofs`:

* `SavesInv`: a form is saved by one call at a time and stays open meanwhile;
* `PastInv`: nothing of a content set is shown before it was created;
* `BatchInv`: there is one call of the toolbar at a time, and what was out when it was sent
  agrees with it;
* `FormInv`: what the form has (or will have, once it hears of the toolbar's call: `Asked`) is
  what the server has, or what a call that is still unserved brings there (`Agreed`); or the
  form is about to be closed, because the toolbar has removed its content set (`Closing`). It
  says so as long as nothing the form was told of has been refused or left undone (`Told`).

A step is first classified by what it does to the calls and to the form (`FormKinds`); each
class then has a lemma of its own (`FormQuiet`, `FormSends`, `FormFinishes`, `FormServes`).

| Theorem | Result |
|---|---|
| `ConsoleTypes`, `LeafIsUnique`, `LoadIsAwaited` | `TypeOK`, `NoDuplicates`, `LoadingIsAwaited` |
| `TreeStaysFresh` | `TreeIsFresh`: the ways to a stale tree that it names are all there are |
| `FormRemainsTrue` | `FormStaysTrue`: a form that began up to date saves nothing stale, unless an answer was lost, changes crossed, or the server did not do what the form was told |

### The dashboard and the status panel

`LoopsAreBounded`: `OnlyDetoursAddLoops`, for any synchronizations, clicks and tab changes. The
invariant `LoopInv` bounds calls and lost timers by `presses` and `leaps`, one less when the
field's timer is armed, and for the panel one less when its tab is not shown.

`RecordedOnce` rests on `OnceInv`: `meta` lists no synchronization twice and only such as have
ended; the store has one record of each that is in `meta` and none of another (`Records`); each
answer that is out is `Sound` - what it calls complete has ended and is not called active, and,
as long as Refresh was not pressed during a call, what it calls active is not accounted for.
The last clause is why one press is enough to show as active what has been recorded: a second
answer may then be on its way that is older than the one recorded. `MonitoringTypes` adds
`PanelInv`, in which the tab is left no more often than tabs change.

`Dashboard.Accounted` goes through an answer of any length with a recursive function. The
library's induction theorem cannot be used on it (its parameter is an operator), so the module
proves the induction it needs for sets of numbers (`LeastNat`, `Induction`), from the
well-foundedness of the finite sets under strict inclusion. With it, `AccountingExists` and
`AccountedSteps` show that the function exists and obeys its equations, and `AccountedIs` that
what is accounted for after an answer is what was, and the answer, each once. `Pruned` says of
`pruneRecentGrids` that records and `meta` go together, and `LongEnough` that there is enough
of `meta` to drop: a list without repetitions is as long as what is in it is large.

| Theorem | Result |
|---|---|
| `LoopsAreBounded` | `OnlyDetoursAddLoops` |
| `RecordedOnce` | `EachOnce` |
| `MonitoringTypes` | `TypeOK` of monitor, dashboard and panel |
| `ShowsNoMore` | after an answer the recent grid has at most `MaximumEntries` rows |

### What is only model-checked

* Liveness (`Terminates`, `InterruptStopsPool`, `StopReturns`, `InterruptedLeave`, `Ends`,
  `GoesQuiet`, `ComesToRun`, `Converges`, `MasksGo`, `LoadEnds`, `ActiveSettles`,
  `PanelSettles`): the prover has no rules for fairness and `ENABLED`. What can be said
  without them is proved for the three components whose endings matter most: a run and a
  transfer have a measure that each step lowers, a run always has a thread that can go on,
  and permits that are waited for are with somebody who can.
* The five violated properties are refuted by a run, and that is all there is to them.

## 5. What is left out, and why

* Counts, byte rates, GBS statistics, progress reports and log messages: no decision depends on
  them, except the counters kept in `tally`.
* In a synchronization, which differences exist is an input; the comparer's unordered
  traversal is seen through its reports. `InventoryExchange` has contents, but the retrieval
  as one step.
* The work inside a handler as seen by the pool: one step. `ContentTransfer` opens up a
  request; the removal of a directory tree over the file-backed queue is not modelled, nor is
  the queue, which pages to disk without effect and is a deque in memory.
* GBS requests: a requester that asks for a broadcast counts a completed refresh. What happens
  to it then depends on a carrier and an FTP server that are not in the repository.
* Compression: only that the end of a compressed stream can be missing when all bytes are there.
* Pruning of inventories by size and age (off in the delivered configuration), the backup
  directory, estimates and statistics, hashes.
* The overlap of two runs of one content set: `ContentSetManagement` shows when it can occur;
  the transfer service's straggler is the part of it that reaches another run.
* Events, their batches and the index: a run's listeners may throw, and `QuietWhenReported`
  says when nothing of a run goes on after its report; the order of what they write is not
  modelled.
* In the browser: a second form on one content set; the fields of forms and their validation, layout, sorting, the session's
  time-out with its warning, the login dialogs and the history's searches; other
  administrators (their changes would be found at the next reload). The library Ext
  (`src/web/ext/ext-all-debug.js`, 37,000 lines), the grid library
  (`src/web/js/contrib/livegrid-all-debug.js`) and the console's scripts joined for delivery
  (`src/web/js/combined.js`) are vendored or generated; of Ext the asynchronous tree node is
  modelled, because the console's correctness rests on it.
* Parts of the system that are sequential I/O, third-party or generated (see the table).

## 6. What could come next

In order of what matters most to a user of the system:

1. `Remover` over a directory tree, with the deletions that are put off, and the loop over a
   child that cannot be deleted (`Remover.java:232`).
2. `ContentEvents`: `FlushingListener`'s batches and the single-thread executor behind
   `LuceneConsumerEventListener`; an abstract index in which a run's events precede its end.
3. The comparer against the difference of two sets, with its soft cache and the interrupt.
4. `GbsDelivery`: files queued, archived, uploaded, polled and extracted, once there is a
   description of the carrier to model it from.
5. The console's session: the warning before the time-out is the box that every error message
   replaces.
6. Candidates: the scripting event queue, `ResourceManager`'s reference counts,
   `TimeToLiveMap`.
7. Proofs: measures and enabledness, as for the synchronization, for the exchange of
   inventories (each round brings the consumer nearer) and for management (a request ends).
