# Now Playing: a verification project

TLA+ modules, TLC configurations and TLAPS proofs for the Now Playing app of
BenzeneOS: ambient music recognition on the device. The reference is the
source; every definition of a module is a translation of the lines
`PROJECT.json` ("map") names for it.

## 1. The system

```
                 Settings (binder)      broadcasts
                        |                   |
                 SettingsProvider      BootReceiver           JobScheduler
                   |    |    \          /    |                 |       |
   deleteDownloaded|    |     applyEnabled   |schedule/cancel  |       |
                   |    |          |         |                 |       |
                   |    |   SoundTriggerController <---- ShardDownloadJobService
                   |    |          ^     \  armFromRearmJob        |  periodic,
                   |    |   armAfter|     \                        |  refresh job
                   |    |          |      SoundTriggerManager      |
                   |  NowPlayingDetectionService <--- DSP events   |
                   |          |                                    |
                   v          v                                    v
               ShardStore   NativeRecognizer <---------------- ShardStore.sync
                   |          | (JNI)                              |
                 disk       Rust core: tables, index, search   CatalogSource
```

| Component | State | Operations | What is hard |
| --- | --- | --- | --- |
| `SoundTriggerController`, `SoundTriggerRearmJob` | `armed`, `loaded`, a monitor, a single-thread executor, one rearm job in JobScheduler | `armAsync`, `armFromRearmJobAsync`, `applyEnabled*`, `armAfter`, `markTriggered` | recognition is one-shot and nobody polls: one lost step silences the feature for good; the DSP, the job and the process fail separately |
| `NowPlayingDetectionService` | `operations` by id, a single-thread executor | `onGenericRecognitionEvent`, `onError`, `onStopOperation`, `onDestroy` | the framework's timeout races the finally block of the recognition |
| `ShardDownloadJobService`, `BootReceiver`, `SettingsProvider` | `SYNC_IN_PROGRESS`, `running`, an executor, two jobs in JobScheduler | `onStartJob`, `onStopJob`, `schedule`, `reschedule`, `refresh`, `cancel`, `cancelRefresh`, `call` | jobs stop at any time; callers act on a setting they read before; a refused refresh is over for good |
| `ShardStore`, `CatalogSource` | `objects/`, `active.json`, `.partial` files, `STORE_LOCK` | `sync`, `deleteDownloaded`, `readActive`; `latestBuild`, `manifest`, `select`, `download` | a crash between any two file operations; the recognizer and the disk must agree; one step of several fails |
| `NativeRecognizer`, `rust/jni` | `initialized`, a monitor; the recognizer behind a mutex that a panic poisons; the thread's affinity, the last timings | `initialize`, `recognize`, `replaceShards`, `dropDownloadedShards`, `validateShard` | files are opened with the mutex free; two locks on two sides of a language border; what remains after a panic; it reads `active.json` outside `STORE_LOCK` |
| `RecognitionState`, `SquelchPolicy` | two preferences: the recent history, the previous match | `record`, `projectedPreviousMatch`, `currentSquelch` | elapsed times of an earlier boot; the range of the delay; thresholds on both sides |
| `RecognitionHistoryStore`, `HistoryActivity` | one table, an executor, what is shown | `record`, `newestFirst`, `delete`, `clear`; `onResume`, `onDestroy` | two bounds on one table; work dropped with the activity |
| `RecognitionGates`, `AudioCapture`, `AmbientIndication`, `LiveParityCapture` | none worth keeping | queries of the framework, one read of audio, one indication, a debugging dump | little: no state of their own |
| Rust core: `sstable` | the decoded-block cache: entries, LRU, `used`, `clock` | `get`, `insert`; `Table::get`, `get_many_uncached`, `validate` | check and insert are two critical sections; the accounting of the limit; the two lookups must agree; what passes the validation must be readable |
| Rust core: `index` | none | decoders of the records, partition selection, the lookups of a shard | prefix codes that are cut short; ties; a port of `nth_element` whose order is part of parity |
| Rust core: `search`, `scorer`, `recognize` | per call: worker threads, per-shard results, a counter of shards | gate, embeddings, candidate search, shortlist, alignment, ranking, continuity | workers that fail or panic beside one another; results that must not depend on the schedule |
| Rust core: `resample` | per call: a buffer, its fill, the time of the next output | `resample` | two units of time in one loop; the end of the recording |
| Rust core: `google_fft`, `frontend`, `music_frontend`, `embedder`, `music_detector` | none | transforms, windows, layers | hand-unrolled passes over flat arrays; offsets into a weights file |
| `tools/`, build files, assets | none | build time | out of scope |

What makes each correct:

* recognition cycle: recognition that is allowed is never forgotten; what is
  forbidden ends; the controller's belief agrees with the DSP; each rearm job
  is finished exactly once.
* catalog store: only validated shards are served; a catalog that can be read
  is lost to a deletion or a replaced file only; a synchronization that returns has delivered; a
  reader sees only whole selections or a growing first part of one.
* catalog jobs: the flag always has an owner; the periodic job follows the
  setting; the desired selection is downloaded in the end.
* cache and history: the accounts are those of the entries, whatever overlaps;
  a deletion hits the row that was tapped, rows leave for a reason.
* native recognizer: it serves what was asked for last, a call leaves no trace
  on the thread or the next call, and every call returns.
* search: the answer is a function of the songs, never of the schedule; one
  failure is an error of one call.
* algorithms: each one computes what it is for, on every input of its run.

## 2. Modules

| Module | Models | Checked by | Proved in |
| --- | --- | --- | --- |
| `SoundTrigger` | controller, detection service, rearm job, and the DSP, JobScheduler and user switches around them | `MCSoundTrigger` | `SoundTriggerProofs` |
| `CatalogStore` | `ShardStore`, the download of `CatalogSource`, how `NativeRecognizer` uses them | `MCCatalogStore` | `CatalogStoreProofs` |
| `Catalog` | the abstract specification `CatalogStore` implements | as a property of `CatalogStore` | `CatalogStoreProofs` |
| `SyncJobs` | `ShardDownloadJobService` (catalog half), `BootReceiver`, `SettingsProvider` | `MCSyncJobs` | `SyncJobsProofs` |
| `DecodedCache` | `DecodedCache` of `sstable.rs` with the lookups of `sstable.rs` and `index.rs` that share it | `MCDecodedCache` | `DecodedCacheProofs` |
| `History` | `RecognitionHistoryStore`, `HistoryActivity` | `MCHistory` | `HistoryProofs` |
| `NativeEngine` | `NativeRecognizer` and `rust/jni` with their locks | `MCNativeEngine` | `NativeEngineProofs` |
| `Search` | `recognize.rs`, `search.rs`, `scorer.rs`: the stages of one recognition and their workers | `MCSearch` | `SearchProofs` |
| `Shards` | the lookups of a shard over its M, R and T records (`index.rs`) | `MCSearch`, `MCAlgorithms` | `SearchProofs`, over shards built from songs |
| `Resampler` | `resample.rs`: the buffer and its rounds | `MCAlgorithms` | `ProbesProofs` |
| `NthElement` | the port of libc++'s `nth_element` and the bounded gathering of candidates (`index.rs`) | `MCAlgorithms` | `ProbesProofs` |
| `Tables` | opening, single and batch lookup, validation (`sstable.rs`) | `MCAlgorithms` | |
| `Records` | varints, protobuf fields, delta-Huffman track numbers, leaves, partitions, tracks, configuration (`index.rs`) | `MCAlgorithms` | |
| `Quantizer` | product quantizer, probes and the search over them (`index.rs`, `search.rs`) | `MCAlgorithms` | |
| `Fourier` | the transforms of 512 and 1024 samples (`google_fft.rs`) | `MCAlgorithms` | |
| `Networks` | weight ranges, shapes, windows, layers (`embedder.rs`, `music_detector.rs`, the frontends) | `MCAlgorithms` | |
| `RecognitionState` | `RecognitionState`, `SquelchPolicy` | `MCAlgorithms` | `ProbesProofs` |
| `CatalogSource` | requests, the listing, the manifest and the selection of `CatalogSource.kt` | `MCAlgorithms` | |
| `Loops` | how loops and results are written in the modules above | | |
| `Probes` | the test bench: the cases, and what the selection and the memory of the recognitions are for | `MCAlgorithms` | `ProbesProofs` |
| `Algorithms` | what the other algorithms are for, as properties of the bench's cases | `MCAlgorithms` | |

The modules compose as the code does: `Search` uses the lookups of `Shards`;
`Quantizer` decodes its configuration with `Records` and searches with `Shards`;
`CatalogStore` takes the selection that `CatalogSource` computes as any first part
of a manifest, which `AsksForTheRightCatalog` shows it to be; `SyncJobs` abstracts a
whole synchronization, which `SyncEnds` shows to end; `SoundTrigger` abstracts a
recognition to one that ends or is stopped, which `EveryCallReturns` and the
framework's timeout provide.

A definition that begins with the comment "Mutant" is a plausible bug: with it
in the place of the definition after it, a property must fail.

### SoundTrigger

* `armed`, `loaded` are the controller's fields, `queue` its executor, the head
  being the task that runs. `lock` is its monitor. `arm` and `armAfter` first
  look at the world and then change it, so they are two steps with the monitor
  held (`ArmStart`, `ArmEnd`; `ArmAfterEnter`, `ArmAfterSchedule`); `disarm` and
  `markTriggered` are one.
* `phase[o]` follows a detection operation: "fired" or "failed" while the event
  is on its way, "queued" from `markTriggered` to the finally block,
  "finishing" until its `armAfter` returned. `calls[o]` counts `armAfter` calls
  under way: one of the finally block and, if the framework stops the operation
  after that block passed its check, one more of `onStopOperation`.
* `rearm` is the job as JobScheduler sees it, "rearm" tasks of the queue are the
  ones whose completion will call `jobFinished`. Replacing, stopping or
  cancelling the job turns its task "stale": it still arms.
* `due` holds the broadcasts and provider calls that will run `applyEnabled`.
  Several of a kind coalesce, as they do the same.
* `hw` is the DSP: it survives the process, because recognition is registered
  with a service component rather than with a callback of the process.
* `Kill` and `Reboot` lose what is in memory. `applied` and `excused` are
  history variables: `applied` says that `applyEnabled` ran since the flags
  last changed, `excused` that a failed call or a death may have left
  recognition off (the code has no retry for a failed arm or a refused job).
* Abstracted: delays (only their order remains), the uuid and the audio.
  `applyEnabled` reads the setting twice, before and inside `arm`; both reads
  lead to a disarm if either finds the feature off, so they are one.
  `onDestroy` comes after the operations are finished or stopped, which is how
  the framework unbinds, and is part of `OnStopOperation`.

### CatalogStore and Catalog

* The disk: `files`, `partial`, `active`. A pack is a name and a size, as in the
  manifest; `NameOf` gives its name, and packs of one name are `Namesakes`. A
  name has one file, hence at most one of its packs is present, "good" or "bad" as
  `validateShard` would find it. `ReadActive` is `readActive`: a catalog with a
  missing file reads as none.
* A synchronization is one actor at a point `sync` with the variables of
  `syncLocked`: `goal` the selection, `work` the variable `active`, `growing`
  the variable `incremental`, `next` the index of its loop. Each file operation
  and each call of the recognizer is a step of its own, so that `Crash` may come
  between any two. `Fetch` chooses any target and any first part of its
  manifest: a build, a country or a storage cap may have changed in between.
* `ensureObject` deletes a file of the wanted name with another size before it
  downloads (`DeleteOtherSize`, `ShardStore.kt:171`), even one of the active
  catalog, which then reads as none until the selection is activated.
* The recognizer: `initialize` takes two steps (`OpenBegin` reads `active.json`,
  `OpenEnd` opens the files) under its monitor `opener`, and a recognition runs
  it without `STORE_LOCK`.
* History variables: `cutShort` is set while a deletion that died halfway, or a
  synchronization that failed or died after `DeleteOtherSize`, has left
  `active.json` naming missing files. A later download can bring a missing file
  back, and then the old catalog reads as active again, with files nobody validated
  since; the properties leave that window out and say so. `adrift` is set while the
  recognizer may serve something else than `active.json`: after a failed write,
  after `initialize` fell back to the core shard, after a deletion that failed or
  that raced with `initialize`.
* Abstracted: the bytes (two files of one name and size are told apart only by
  being good or bad); the URLs, redirects and limits of the client are one
  failure, `SyncFails`. The branch of
  `ShardStore.kt:124` (more shards active than desired) cannot be reached:
  `activePrefix` implies the opposite.
* `Catalog` is what a reader may observe: nothing, a first part of one
  manifest, which grows a shard at a time, a whole selection that replaces
  another at once, and nothing again after a deletion or once a file was replaced.

### SyncJobs

* `stored` and `ctx` are the job as JobScheduler keeps and runs it, `flag` is
  `SYNC_IN_PROGRESS`, `task` the one task of the service's executor. A task
  keeps running after its job was stopped; the flag then refuses other jobs.
* `call` holds what the main thread ("receiver") and a binder thread
  ("provider") do next. They read the setting (`Receive`), read it again
  (`Recheck`) and act in steps of their own. `lapsed` is a history variable: the
  last call acted on a setting that had changed meanwhile, or died.
* The callbacks `onStartJob` and `onStopJob` run on the main thread and so never
  during `onReceive` (`MainFree`).
* `getPendingJob` also finds a job that runs.
* The end of a task is three steps. `Leave` ends the try or catch block, where the
  retry is decided, and removes the operation from `running`: a stop does not reach
  it any more, which is why the next step need not be divided. `Finally` clears the
  flag and checks `stopped`; if it was not set, `finishing` says that `jobFinished`
  is on its way, and `JobFinished` delivers it. In between the other job may start,
  and JobScheduler may stop this one: its `jobFinished` is then that of a start that
  is over, and does nothing.
* `EarlyStop` says whether a job may stop before its task started. It may, in
  the code; the constant separates the defect of section 6 from everything
  else. `World` chooses what happens around the service.

### DecodedCache

* `cached`, `value` and `touched` are the map `entries`, `lru` the ordered set of
  pairs, `used` and `clock` the counters. `value` says whose decoding an entry
  shares (the code's `Arc`).
* Every lookup of the tables has the same shape: `get`; on a miss, decode
  without the mutex; `insert`. `insert` calls `get` again, gives the mutex back,
  and takes it a second time (`LookAgain`, `Enter`), so other threads may store
  the key, or store and evict it, between any two of these. Inside the second
  section evictions are steps of their own (`Evict`, `Store`) under `mutex`, so
  that the limit is checked between them too.
* `lastUse` is a history variable: the clock of an entry's last hit or store, from
  which eviction must choose the smallest.
* Abstracted: what is decoded; a failure (a missing record, a malformed block)
  gives the lookup up. A thread that looks up a leaf while it decodes the codes
  of a track counts as two. A cache without a limit is not built by this
  program. `ClockBound` bounds the run only: the code's clock has 64 bits, and
  the proofs need no bound. A poisoned mutex and a value of the wrong type end
  the lookup in the code and cannot arise here: no section panics, and a key's
  variant fixes the type.

### History

* `table` and `sequence` are the database: rows with the id that AUTOINCREMENT
  gave and the time of the recognition, which orders and expires them. `now` is
  the system clock: any value may follow any other, as the user may set it.
* `Record` is one transaction: the insertion and both prunes. `NewestFirst` is a
  set: its order is `Ahead`.
* `life`, `tasks` and `posts` are the activity, its executor and its runnables in
  the queue of the main thread; `shown` is what it rendered last. A deletion is
  two steps, since its second half reads the table with another connection.
* `shutdownNow` drops what is queued. The task that runs is not stopped by an
  interrupt and ends beside the next activity: `orphans`. Whether the head of
  `tasks` had started is a choice in `OnDestroy`.
* `seen` stands for the condition of the clear button, which was enabled if
  anything was ever shown; the dialog may be confirmed later. With `erased`, a
  history variable, it states what may no longer be shown.
* Abstracted: the fields of a row, the layout. A database that stays busy for
  longer than its timeout ends the process (`ProcessDies`) or loses the record
  (the service catches the error).

### NativeEngine

* `monitor` is the lock of the Kotlin object, `mutex` the one around `RECOGNIZER`,
  `slot` what is in it, `initialized` what Kotlin believes. A method is a sequence
  of steps, one for each thing that another thread could see or disturb: `check`,
  `build` and `install` of an initialization are three, since the models and shards
  are opened with the mutex free; likewise `read`, `open` and `swap` of a reload.
* A recognition runs with the mutex held: `pin`, `running`, `publish`. It may fail
  (`RecognizeFails`) or panic (`RecognizePanics`); unwinding restores the affinity
  and poisons the mutex, and whoever takes it next gets an error. `NativeTimings`
  reads what the recognition left, still inside the monitor.
* `affinity` is the cores of a thread: "all", "small" while it is pinned, or "left"
  after a `Guard::drop` whose `sched_setaffinity` failed, an error it ignores. What
  may never happen is that a pin outlives its recognition for any other reason.
  `SmallCores` is the argument `run_on_small_cores`. The app ships with
  `RUN_ON_SMALL_CORES = false` (`NativeRecognizer.kt:173`), under which no thread is
  ever pinned; the run sets it to `TRUE`, the value with more behaviours, so that
  what the native code does when it is asked to pin is checked. The proofs cover
  both values.
* An initialization whose downloaded shards cannot be opened goes on with the
  preinstalled one (`fallback`).
* `asked`, a history variable, is the set that the last accepted change asked for.
* `Crash` is the death of the process. `MaxCalls` bounds the calls of one process.
* What a recognition computes is `Search`. The JSON of the response and the
  conversion of arguments are left out.

### Search

* A stage is a scope of workers: `worker` is the state of each, `output` what they
  put out, `next` the shared counter of the scoring stage. In the first three
  stages a worker takes every n-th item. `Process` handles one item, `Finish` ends
  a worker, `Panic` may strike any that runs.
* The caller joins in order (`Join`) and stops at the first failure; the scope then
  waits for the others (`Leave`). A panic that was not joined leaves the scope and
  with it the recognition; `NativeEngine` says what follows.
* `AfterQuery` builds the shortlist, `AfterScore` the results: alignment of every
  shortlisted track at the offsets of its hits, the order, the limit.
* Abstracted: an embedding is a number with a distance; the metric, the weights and
  the bias of the scorer are one gain that decreases with the distance, which is
  all that the order of results depends on. Reading WAVE files and the diagnostic
  entry points are left out. Two offsets of one score are taken from a hash map in
  the code: the model lets either be the result.
* A world is what a call meets: the audio, the shards, the context of the previous
  recognition, and, for the properties, the songs. `Whole` says what it is for a
  shard to be built from its songs: a partition list for each track, and in each
  partition a leaf with its seconds, by track and in order. `WorldsAssumption` asks
  it of every world that is not marked as damaged, and TLC evaluates it. The worlds
  marked as damaged are catalogs whose records do not decode, do not agree, or hold
  no song.

### The algorithms and their bench

`Probes` picks a case of a kind; it and `Algorithms`, which extends it, state for each
kind what the algorithm is for, in terms of the input (a sorted array, the entries
that were written, the defining sum of a transform) and never of the code's own steps. The
definitions compared with it are translations: the same loops, in the same order, over
the same flat arrays. `Loops` says how: a loop is the function of its states, and what
may fail is the set of its results, `{}` for an error.

* `NthElement` keeps the order of equal elements, since which of two candidates at
  the same distance survives is part of parity. An index outside an array is an
  evaluation error and so is found as well.
* `Tables` and `Records` work on cells (a varint or a byte each) at the scale that
  constants give; the checksum is a function that every single damage changes.
  The batch lookup takes its keys as a sequence, in any order and with duplicates.
* `Fourier` computes in the field of 12289 elements, whose roots of unity of order
  1024 stand for the complex ones: exact arithmetic, and every identity the passes
  rely on holds. A transform is linear, so that impulses suffice.
* `Networks` keeps shapes, ranges and index arithmetic over integers. Normalizations,
  ELU and the sigmoid are left out: they act on one element after another.
* `Quantizer` computes over integers.
* `Resampler` is a state machine, since the buffer is: fill, filter, shift. `base`
  and `due` are history variables, the place of the buffer in the recording and
  the exact time of the next output. Time is counted in fractions of a sample; the
  code's `f64` rounds them.
* `RecognitionState` keeps the milliseconds of the code. An entry is its time and
  what the delay depends on; `Record`, `Decide` and the projection are operators on
  the stored state. The asynchronous write of preferences, their encoding and the
  counter of on-demand sessions, which nothing uses, are left out.
* `CatalogSource` keeps the limits of the code. The service is a function from
  addresses to responses. The syntax of addresses, JSON and UTF-8 is left out.

## 3. Runs

| Run | Instance | Shows |
| --- | --- | --- |
| `cycle_safety` | 2 operations, queue of 3, faults on, symmetric | the safety properties, 465,437 states |
| `cycle_liveness` | 2 operations, queue of 2, faults off | recognition comes back, and ends when forbidden |
| `store_safety` | 5 packs of 4 names, 2 targets sharing a pack, all faults | the safety properties, `OnlyDeletionLoses`, the refinement of `Catalog`, `SyncEnds`; 246,846 states |
| `jobs_safety` | 2 selections, everything happens, no early stop | the flag, the contexts and the periodic job; 6,573,384 states |
| `jobs_liveness` | 2 selections, region changes, process death, the refresh job of the boot | `CatchesUp`; 16,908 states |
| `jobs_early_stop` | the same with early stops, region changes only | `CatchesUp` is violated |
| `cache_safety` | 2 threads, keys charged 1, 1, 2 and 3, limit 2, 8 clock ticks | the accounts, the order of eviction, one value of a key; 36,697 states |
| `history_safety` | a table of 2, 3 recognitions, a clock of 2 values, 2 tasks, 2 posts, 1 orphan | deletions, what is shown, and why rows leave; 1,129,566 states |
| `history_retention` | the same | `KeptAtMostRetention` is violated |
| `engine` | 3 threads, 2 shard sets, 3 calls of a process | what is served, what a call leaves, `EveryCallReturns`; 103,663 states |
| `search` | 2 shards, up to 3 songs, up to 3 queries, 3 workers, panics | the answer, the continuity, the extent of a failure; 778,531 states |
| `algorithms` | one case of each kind after the other, 102,548 states | each algorithm does what it is for |

The bounds. Two operation ids suffice to have an operation time out while another
fires, and ids are reused, so that any number of recognitions follow. A queue of
three holds two `applyEnabled` tasks and a rearm task between them; the code's
executor is unbounded, hence `QueueBound` is in the guards of the two actions that
append. Two targets of three shards each share the shard `b` at different positions:
growing, switching with a shared shard, shrinking (a smaller cap) and the empty
selection all occur. One name has a size in each target, so that a switch replaces
its file. Two selections are what a change of region needs. `jobs_liveness` leaves
changes of the setting and the refreshes and deletions of the provider to
`jobs_safety`: its question is whether the periodic job catches up when the process
dies at any step and the refresh of the boot is refused. In the cache one key takes
the room of two, and one fits never; eight ticks let both threads store, hit, evict
and store again. Three recognitions overfill a table of two, under a clock whose one
tick exceeds the retention and which is also set back.

Three threads are a recognition, a catalog change and a validation or a third
that waits; three calls of a process let an initialization, a change and a
recognition meet, and a panic be followed by calls that find the mutex poisoned.
Two songs fit the shortlist and the raw candidates of the search run, three do
not; five kinds of damage are shards whose records do not decode or do not agree.
The cases of the algorithms are chosen around their boundaries: arrays of up to 17
with every tie pattern of three distances up to 8; tables of two blocks with every
single cell damaged; inputs of every format cut short or with one part out of range;
impulses at the ends and around the boundaries of the passes; 8 rates on both sides
of the target and 61 lengths; times at, one before and one behind each threshold of
the squelch; listings of 31, 32 and 33 pages and requests of 5 and 6 redirects.

All models have finite state spaces apart from these bounds; nothing else is cut
off. `CHECK_DEADLOCK` is off in `search` and `algorithms`, where a call or a case
ends; it is on in every other run.

## 4. Fairness

* Recognition cycle: threads that can run do (weak fairness of the executor, of
  each operation's thread); the framework stops an operation that does not
  finish, so weak fairness of "finish or stop" needs no promise from the
  recognizer; broadcasts and the rearm job, whose deadline equals its latency,
  are delivered. Delivery is strongly fair only because `QueueBound` disables
  it at times. Nothing makes the DSP fire, settings change or users switch.
* Catalog store: the thread that synchronizes goes on, and so does a recognition
  inside `initialize`. Nothing is assumed of the network beyond that a request
  ends: each one has a timeout (`CatalogSource.kt:259`). `SyncEnds` leaves out the
  behaviours in which recognitions open the recognizer again and again for ever
  (`KeepsRetrying`): a monitor promises its callers no turn.
* Native recognizer: each thread goes on (weak fairness of its `Step`). A call waits
  for a monitor that others take at most `MaxCalls` times, which is what makes weak
  fairness enough for an unfair lock.
* Catalog jobs: JobScheduler runs a stored job again and again (the periodic one
  every period), calls proceed, and a synchronization that runs again and again
  succeeds at some time, which is strong fairness of `EndSync`; a finally block that
  has begun ends, and a `jobFinished` arrives. Without the last
  there is nothing to show: a network may be down for ever.

## 5. What is proved

`SoundTriggerProofs` proves for every set of operations, every `QueueBound`,
with and without faults, that each safety property of `SoundTrigger` holds
(`TypeCorrect`, `ArmedCorrect`, `OffCorrect`, `Remembered`, `JobsFinishOnce`,
`Silenced`). The assumption is `ConstantsOK`: the booleans are booleans, the
bound is a positive number and the lock's values are no operations.

None of the properties is inductive. The invariant `IInv` adds what holds
inside the monitor:

* `Inside`: between `startRecognition` and `armed = true` the executor's task
  is still the head of its queue, and the DSP listens or has an event under
  way that `markTriggered` cannot consume yet. Without it `ArmEnd` could set
  `armed` for a DSP that fired and was already reported.
* `Inside`, second part: whoever is inside decided under flags that no
  `applyEnabled` has overruled since. Without it a rearm job could be scheduled
  after the feature was switched off.
* `CallsOwed`: an operation that fired owes no `armAfter` call, one that
  finishes owes one. It bounds `calls` and gives `NeverForgotten` its witness
  when an operation ends.
* `ModelKnown`: without faults a DSP that listens holds a model the controller
  knows of, so that `Disarm` unloads it.

The lemmas on the queue (`OrphanedQueue`, `TailOneTask`, ...) say what each
operation does to the tasks that serve a job; one lemma for each conjunct shows
that every action keeps it, and `Invariance` puts them together.

`DecodedCacheProofs` proves each property of `DecodedCache`, for any threads,
keys, charges and limit. `Total`, the charges of a set of keys together, is a
constant with its defining equations as an assumption (`ConstantsOK`: the empty
set has none, and one more key adds its charge), because a sum over a set is
defined by induction; the run instantiates it with the sum. The invariant adds
`Inserting`: a thread that makes room does so for a key that fits the limit
alone and that is not cached, the two things it looked up in two critical
sections. Without the first, `Store` after an empty index could exceed the
limit; without the second it would count a key twice and leave a stale pair in
`lru`. `Recency` ties `touched` to the last use.

`HistoryProofs` proves every safety property of `History` for any bounds. What the program can
see of the table (`Known`: rows of the table, the screen, the queues and the
tasks) is told by the id, and ids only grow (`OneRowPerId`). Only `Record` adds to
`Known`, with an id above all of them; the lemmas show of every other step that
it knows no more than before (`Keeps`). This is `DeletesCorrectly`.

What the screen shows needs `ScreenInv` on top. A list is made by the executor, waits
in the main thread's queue and is shown there, so that the invariant speaks of every
list on its way: `PostedInOrder` says that a row which one list no longer has is in
no later one, nor in the table, and `DeletedLeaves` that the last list, which the
screen will end with, lacks what the activity deleted unless a load is still to come.
One thread that makes the lists and one queue that brings them are all it takes; a
second thread for loads would break `PostedInOrder`. `GoneStaysGone` and
`DeletedStaysAway` follow. `LeavesOnlyForAReason` and `RecognizedStays` are about
steps: besides the invariant they use that `Prune` keeps the `MaxEntries` newest
rows of a finite table, which the lemmas on cardinalities provide.

`CatalogStoreProofs` proves the safety properties of `CatalogStore`, and that it
implements `Catalog`, for any names, manifests and faults. The catalog is spread over
the files, `active.json` and the recognizer, and a synchronization changes them one
after another, each change possibly the last before a crash. The invariant says what
each step may rely on:

* `PassedIsGood`, `GrowsInOrder`, `ActivatesGoal`: the shards that the loop has passed
  are good, the active catalog is that part of the goal while it grows, and what is
  being activated is a part of the goal with good files. A shard that is being
  downloaded belongs to no catalog that can be read, and no file of its name is left.
* `OneFilePerName`, `ActiveIsGood`: the packs of one name are never present together,
  and what `active.json` names is there, except for the files that a synchronization
  has deleted to replace them (`ReplacingSteps`), none of them of its own selection.
* `OpeningIsRight`: an `initialize` read `active.json` some time ago; what it opens is
  still the active catalog unless a file has gone, in which case the opening fails.
* `ReloadedAhead`, `Serves`: between the reload and the write of `active.json` the
  recognizer is ahead of the disk, and `adrift` says so; otherwise they agree.
* `Delivered`: from the pruning on, the active catalog is the selection.

Every one of them is subject to `cutShort`, a deletion that died between two files
or a replacement that was not completed: from then to the next successful activation
a reader may find a catalog whose shards have partly gone. The refinement maps such
a catalog to none (`Seen`): the steps that write or remove `active.json` are `Grow`,
`Switch`, `Appear` or `Lose`, the others stutter. `ReadableIsSelection` is the
invariant of `Catalog` carried over.

`SearchProofs` proves the properties of `Search` for any number of shards, tracks,
seconds, queries and workers, any limits, any distance between integers and any
schedule. It has three parts.

* The protocol (`ProtocolHolds`): which workers a stage has, that the caller has
  joined a first part of them and stops at the first that failed, and that each
  worker that failed is a fault of its own. A panic that reaches the caller was not
  joined, hence there was another failure before it. `FailuresAreContained` also
  says that over an undamaged catalog no worker fails by itself (every item has a
  result, `SomeResult`) and no stage is an error when its workers have all returned.
* What the stages compute, in terms of the songs. A second of a song is found in the
  leaf of its partition at the place that `CodeIn` computes (`CodeFound`), because
  those of earlier tracks and earlier seconds of its own track lie before it
  (`LeafPlace`). What `TrackCodes` and `Score` compute is defined by recursion. The
  induction theorems of the library cannot be used; instead the smallest place at
  which the loop would differ is shown not to exist (`LeastOf`, from the finite
  subsets of a finite set being well-founded: `SmallestSet`). `Ordered` is shown to
  list a finite set each element once and in order (`OrderedRight`), by counting
  what lies before each element; its first n are the n best (`FirstOfOrder`). Hence
  the hits of a query are the seconds it meets (`HitsAreSeconds`), a shortlist that
  was not cut leads the scoring to every offset at which a song is met
  (`ShortlistComplete`), and results made of right scores are right
  (`ResultsAreRight`).
* The progress (`ProgressHolds`) joins the two: an output is a result of its item
  (`Claims`), the first three stages are divided by strides (`Strided`), the last by
  the counter, each claimed item put out once unless its worker failed (`Counter`).
  When all workers have returned, every item is done, so that what the caller
  collects is what the second part speaks of; `Facts` carries it to the next stage.

`AnswerHolds` and `ContinuityHolds` are stated for worlds that are not damaged. Over a
damaged catalog a call may still find songs in the shards that are sound; that it
does so rightly is checked by TLC and not proved.

`SyncJobsProofs` proves the safety properties of `SyncJobs` for any selections and any
`World`. `FlagOwned` says that the flag has an owner unless `EarlyStop`, which is
precisely the defect of section 6; `RunningJobsEnd` and `FollowsSetting` hold with
early stops too. The last is not inductive: `Follows` adds what is still `Owed`, a
call that is about to schedule or cancel as the setting wants, or an event that is
still to be received, user switches not among them since they die with the process.

`NativeEngineProofs` proves `ServesWhatWasAsked` and `LeavesNoTrace` for any threads,
sets and number of calls. The invariant says who is where: a thread past the
entrance of a synchronized method holds the monitor (`Inside`), the mutex is held in
exactly three phases (`Guarded`), an initialization under way found none before it
(`NotYet`). With these the two sides agree at every moment (`Agree`), not only while
nobody is inside: `Install` finds the slot empty, although another thread could have
taken the mutex while the files were opened.

`ProbesProofs` is about three of the algorithms.

* The resampler: for any rate, length, target rate, filter and buffer, every output is
  made of the samples around its time (`WindowCorrect`) and the outputs end with the
  recording (`OutputsCorrect`). The argument: `base` and `due` locate the buffer, so
  that each cell that was filled holds the sample of its place; `Sizes` shows that the
  margin exceeds what the filter reaches and what a step can creep beyond a round, so
  that no tap leaves the buffer and the subtraction in `Shift` cannot underflow; the
  divisions are dealt with by lemmas on quotients.
* The selection (`SelectionHolds`): for every array with comparable distances, whatever
  their values and however many are equal, `nth_element` puts the element sought in
  its place and keeps all elements (`NthElementPlaces`); of every stream of different
  candidates the bounded buffer keeps as many as fit, none further than one it let go
  (`GatherKeeps`, `NearestKeeps`). What the exchanges of both partitions keep is
  `Crossing`: what is left of the left hand is low, what is right of the right hand is
  not, and a guard stops each hand inside the window. A round ends the search or
  leaves a smaller window with the place sought and its neighbours on the right
  sides; `Searching` bounds the window by the rounds that are left, so that n rounds,
  at which the model stops the loop, are enough. The buffer's `Keeps` says that
  whatever was let go is no nearer than anything kept. The proof assumes only
  `SelectionCases`: distances are integers below infinity, the place is one that the
  array has, the candidates differ.
* The memory of the recognitions (`SquelchHolds`): after any recognitions, with
  triggers and recordings at any times, also of an earlier boot or a clock that went
  back, exactly the recent ones are remembered, once each and in order; the DSP sleeps
  for 20 to 90 seconds, for longer than 55 only after ten misses within 12 minutes, and
  until 5 seconds after a track that ends soon; the previous match is the last one
  recorded, projected while it is not outdated. The stored history is shown to be a
  `Listing` of the events that are still recalled (`RecordIsGood`: inserting and
  dropping keep it so); the lemmas on `Subsequence` say what a filtered sequence is;
  the rest is arithmetic on the remaining seconds (`MatchSquelches`). The proof assumes
  `EventCases`: a match has an offset, times and offsets are integers.

The assumptions of all these are the named `ASSUME`s of the modules, which TLC
evaluates in their runs. Proved only, not checked by a run: the limit and the
recency index of the cache (`Limited`, `IndexAgrees`), `OutputsCorrect`, and
`ReadableIsSelection` on its own (the run checks the refinement it follows from).

Inductive invariants were model-checked before they were proved: those of
`CatalogStore` and `History` on the whole of their runs (246,846 and 1,129,566
states), that of `Search` on the worlds of its run taken query by query, complete for
all but the worlds with the queries `<<1, 1>>`, which were stopped after about
150,000 states without a violation.

Model-checked only:

* liveness (`SyncEnds`, `EveryCallReturns`, `CatchesUp` and the two of the recognition
  cycle): the prover has no rule for fairness;
* `AnswerIsRight` and `ContinuityIsRight` over damaged catalogs;
* the properties of `Algorithms` (`LookupsAgree`, `ValidatedIsReadable`, `Decodes`,
  `MatchesTransform`, `DistanceIsExact`, `ShapesFit`, `AsksForTheRightCatalog`): what
  the recursions and folds over bytes, bits, sums and pages compute for every input
  needs an induction over data, which none of the provers can do in general. The loops
  of `Search`, `NthElement` and `RecognitionState` are exceptions: each keeps an
  invariant from one round to the next, and the first round that would break it is
  shown not to exist;
* `CatchesUp` with early stops and `KeptAtMostRetention`, which are false (section 6).

## 6. What was found

`jobs_early_stop`: JobScheduler may stop a job, for instance because the
unmetered network is gone, after `onStartJob` returned and before the
service's executor has started the task. `onStopJob` then cancels the future,
whose runnable never runs; its finally block is the only place that clears
`SYNC_IN_PROGRESS`. The flag is static, so every later `onStartJob` of the
process returns false and the catalog is never downloaded until the process
dies. Clearing the flag in `onStopJob` when `cancel` returns true for a task that
has not started would close it.

`history_retention`: the README of the repository says that the history keeps at
most 30 days or 1,000 entries. Old rows are deleted only when another match is
recorded, and the list is not filtered by time, so that the activity shows
older rows for as long as nothing is recognized. Pruning in `newestFirst`, or a
condition in its query, would make it true.

Also seen while modelling, and described above rather than reported as
defects: the window after a deletion that was cut short; a shard name that is
published again with another size, whose old file goes before the new one is there,
so that a failed download costs the catalog (`OnlyDeletionLoses` names this case); a recognizer left
adrift by a failed write of `active.json`, which the next synchronization does
not repair if the selection is already active and complete; failed arms, which
nothing retries; a DSP that listens once more when the feature is switched off
after the process died. Further:

* A worker of a search that panics after an earlier one failed is not joined: its
  panic leaves the scope, is caught at the JNI border and poisons the recognizer's
  mutex. From then on every call fails until the process dies. A single panic is
  an error of one call.
* A shard whose R and T records disagree passes the validation, which decodes
  records one by one; a recognition that shortlists the track is an error.
* Of two offsets with one score the result is either, by the order of a hash map.
* Entries of the recognition history with elapsed times of an earlier boot are
  taken as recent when they fall into the window; the delay stays between 20 and
  90 seconds all the same.
* A recognition that was stopped may outlive its service: `shutdownNow` does not
  interrupt native code. With the executor of the next instance there are then two
  recorders, each of which reads the stored history and writes it back whole, and
  one entry may be lost. It changes a delay at most.
* The outer bounds of the delay, 15 and 180 seconds, never bite.
* In `CatalogManifestParser` a shard whose only country code is malformed makes the
  whole manifest unusable, and with it every country's update.

## 7. Plan

What the plan of this project set out to model and prove is done. What would come next:

1. `RecognitionState` as a state machine whose recorders read and write back in two
   steps, since two of them may overlap (section 6). Whatever they leave behind, the
   delay stays in its bounds: `SleepsWell` is proved for every history.
2. The answer of `Search` over damaged catalogs, as far as the shards that are sound
   determine it; the lookups of `Tables`, whose loops compare and skip.

## 8. Not modelled

* Rounding. TLC and the provers have no floating point: numbers are integers or
  elements of a finite field, and a claim about parity to the last bit cannot be
  made here. Elementwise functions (normalizations, ELU, sigmoid, the filter's and
  the windows' coefficients, the log-mel filter banks) are left out for the same
  reason; they have no control.
* `RecognitionGates`, `AudioCapture`, `AmbientIndication`: one framework call after
  another, without state. The part of `NowPlayingDetectionService` that calls them
  appears in `SoundTrigger` as an operation that ends.
* `LiveParityCapture`, the diagnostic entry points of `recognize.rs` and the reading
  of WAVE files, the tools and build files: debugging and build time.
* The syntax of JSON, URIs and preferences, and the layout of the activity.
* The Android framework (JobScheduler, SoundTriggerService, ActivityManager) appears
  only as far as the code relies on it; those definitions are marked external.
