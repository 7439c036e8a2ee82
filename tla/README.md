# Verification of pageindex

TLA+ models of pageindex's ingestion, from the upload request to the stores a query reads, the TLC
runs that check them and the theorems the TLA+ proof system proves about them. Source paths are
relative to `src/pageindex_mcp/` of the repository unless they say otherwise.

Every component is a module with CONSTANTS and their assumptions, VARIABLES, `Init`, one action per
operation, `Next`, `Spec` and its properties at the end. `MC<Module>` names the small instance, the
`.cfg` files give the constants their values, `<Module>Proofs` holds the theorems.

    tlc -workers 2 -config JobLifecycle.cfg MCJobLifecycle
    tlapm --threads 2 JobLifecycleProofs.tla

`PROJECT.json` lists components, runs, findings, hazards, theorems, and for every definition that
models code the lines it models. Operators whose comment begins with "Fault:" are plausible mistakes
in the code (a dropped guard, a wrong bound). They are in no specification; each shows that the
property it is paired with would catch the mistake.

Contents: the system; the modules; the runs; what is proved; what is only model-checked; findings;
what was read in the code and no run shows; the plan; what is not modelled.

## The system

A document arrives at the upload server, is staged in MinIO and queued in Redis (arq). A worker
takes the job, spawns a converter child that turns the file into a tree or a flat list of blocks,
and the result is persisted in MinIO, mirrored into a Postgres registry and cached in Redis. The MCP
server answers queries from those stores. Nothing is transactional across stores; each pair of
processes meets in Redis, MinIO or Postgres.

| Component | State | Operations | Meets | What is hard | What makes it correct |
|---|---|---|---|---|---|
| Upload server (`upload_app.py`) | staged original, job hash, queue entry | upload, status, delete | worker, reaper | three stores in sequence, a crash between any two | no original lost |
| Job status (`job_status.py`) | Redis hash `status`, `reason`, `effective_timeout_at` | compare-and-set | upload, worker, reaper, kill script | four concurrent writers, lost replies | DONE is final, success is recorded |
| Worker job (`worker/job.py`, `worker/errors.py`) | local file, phase, DLQ | attempt, reap | arq, child, all stores | crash, cancel, retry, timeout | every job comes to rest, one attempt works at a time |
| arq (external) | queue, in-progress key, tries | enqueue, deliver, retry, abort | worker | redelivery on lease expiry | |
| Child manager (`worker/subprocess_mgr.py`) | process group, handshake, budget | spawn, wait, kill | lock, job | cancellation at each await | killed by its deadline |
| Ingest lock (`storage/ingest_lock.py`) | Redis key with token and TTL | acquire, poll, release | two workers with one file | SET in a thread, late SET, expiry | dedup check and mark under one lock, no lock left |
| Memory admission (`memory_admission.py`) | short Redis lock | wait | pods of one node | check before use | admitted conversions fit together |
| Indexer (`client/indexer.py`, `client/recovery.py`) | extraction state, artifacts | convert, recover, dispatch, persist | converters, gates, hash cache | outage or licence, one try of each recovery, crash between writes | requeued in an outage, marked only when whole, garbled never served |
| Remote client (`client/remote.py`) | budget, deadline | wait for a backend, convert | infra controller, split | answers true when asked | a cold start is waited out |
| Split conversion (`client/split.py`) | queue, running, retry, live backends | pick, probe, dispatch, collect | docling services | awaits between pick and dispatch, copies, lost backends | each chunk collected once, termination |
| Docling service (`services/docling-service/app.py`) | slots, slice group, shared downloads, threads | convert, cancel, preempt, restart | split conversion, worker | cancellation at every await and a second one, a thread that hangs | no slot lost by a first cancellation, a whole document beside no slice, every hang noticed (not: no false alarm, see Findings) |
| PDF conversion (`converters/`) | page classes, chunk processes | classify, plan, convert, join | indexer | processes that die, hang or are late; page numbers of chunks | every page served, nothing left behind |
| Pictures (`converters/pictures.py`, `picture_plane.py`, `client/images.py`) | markers, picture list | re-read, recover, splice, enrich | conversion, indexer | matched by counting | a figure is its own, what was recovered is shown |
| Tables (`tables/`) | capture threads and processes, pod slots | capture, join, anchor | indexer | kills, pipes, deadlines, headings that are missing or tie | every page accounted for, every table shown once and under the right one of tied headings |
| Tree quality (`helpers/`) | none | split, gates, route, verdict | indexer | orders and thresholds | no text lost, what PASS promises, better is never worse |
| Hash cache (`storage/hash_cache.py`) | Redis hash, legacy MinIO blob | get, set, purge | indexer, erasure | read-modify-write of the blob | what is purged stays purged |
| Registry mirror (`worker/registry_mirror.py`, `registry/queries.py`) | Postgres row, retry key | upsert, park | worker, drain | two stores, degraded Postgres | the row catches up |
| Reconciliation (`registry_backfill/*`) | etag map, generation | drain, upsert, heal, delete | mirror, erasure | snapshots gone stale | row follows sidecar, nothing fresh deleted |
| Erasure (`storage/documents.py`, `storage/reconcile_etag.py`, `cache.py`) | every store | the manifest's steps | all writers | partial failure, keys found in what is deleted | no trace after an undisturbed erasure, every gap reported |
| Observability, config, CLI, query tools | | | | | see "Not modelled" |

## The modules

| Module | Models | Composed by |
|---|---|---|
| JobLifecycle | upload, job status, attempts, arq, reaper, kill script | |
| IngestLock | ingests of one file: lock, child, dedup | MCIndexPipeline EXTENDS it beside IndexPipeline |
| MemoryAdmission | pods that pass the gate | |
| Registry | one document in bucket, row, retry key and etag map | |
| HashCache, Erasure | dedup entries; the erasure cascade | Erasure EXTENDS HashCache |
| ReadinessGate, SplitConversion | wait for a backend; the split scheduler | RemoteConversion EXTENDS both |
| ChunkCollection | abstract: chunks collected one by one | SplitConversion refines it |
| DoclingService | one docling-service process | |
| ExtractionState, ConverterChain, RecoveryLadder | state and routes; chain of converters; recoveries | IndexPipeline EXTENDS them |
| PageClasses, ChunkBypass | what each page and each chunk needs | ChunkedConversion EXTENDS them |
| TableAnchoring | from tables to nodes of the tree | TableCapture EXTENDS it |
| PicturePlane | what becomes of one picture | PictureRecovery EXTENDS it |
| DocumentTree, LeafSplit, Verdict, FlatBlocks | signals, splitter, gates and verdict, flat documents | TreeQuality EXTENDS them |
| TableCapture, ChunkedConversion, TreeQuality, PictureRecovery | a PDF between its bytes and its verdict | MCPdfConversion EXTENDS the first three, as PdfConversionProofs does, and INSTANCEs the last |

### JobLifecycle

The job from the upload request to its end. Processes: the upload handler (`upload`), arq (`queue`,
`tries`, `lease`), up to `MaxTries` attempts per job (`pc`, `age`, `killAt`), any number of
overlapping reaper sweeps (`suspects`), and the kill script (`operator`). Stores: the job hash
(`status`, `reason`, `left`), the staged original (`staged`), the dead-letter marker (`dlq`), the
persisted document (`persisted`).

* An action is a handler up to its next await at which another process can matter. The transition
  table and the compare-and-set are `ValidTransitions` and `SetStatus`; every write can be refused
  by the table, fail before it is applied, or (for DONE) be applied and lose its reply.
* Time is a countdown. `left` is the time to `effective_timeout_at`, `lease` the rest of arq's
  in-progress key, `age` the time an attempt has lived. `Tick` moves all of them and is blocked
  where the code has a bound: an attempt is cancelled at the function timeout, a child killed at its
  effective timeout, a cancelled attempt settled within `CancelBudget`.
* arq is modelled from how the code uses it: only `Retry` and `CancelledError` requeue a job, any
  other exception finishes it; a job whose in-progress key runs out is delivered again while tries
  are left. The mark an abort leaves is kept open in `Drop` and `Deliver`, which allow both outcomes.
* `MaxWait` stands for the download, the admission wait and the ingest-lock wait together; the gate
  and the lock themselves are the next two modules.
* On a final attempt the purge of the staged file and arq's acknowledgement are one step. A crash or
  a cancellation of the last attempt outside its handlers leaves the staged file without a
  dead-letter record; `OriginalKeptUntilSettled` allows it, since the original is kept.
* Overlapping sweeps of the reaper are real: it runs at boot and every minute in each worker, reads
  the hash in one call and writes ERROR in another.

Bounds: one job (jobs share nothing but the tables), two tries (the last and one that is not), one
sweep in flight (its read and write straddle everything else), timeouts of a few ticks chosen so that
each order of deadline, lease and kill that the defaults allow occurs, one Redis fault. Fairness
(`FairSpec`): weak fairness of the steps an upload handler, a running worker, arq, the sweep and the
clock take on their own; none of crashes, cancellations, operator commands or faults. A worker that
runs schedules its coroutines, and cron runs the reaper each minute, which is all that is assumed.

Two preconditions are stated where they are needed: `operator[j] # "done"`, since the kill script
frees the job's queue entry while an attempt may be running, and `SettledWithinLease`, since an
attempt whose cancellation takes longer than arq's margin may be redelivered. `CapWithinJobTimeout`
guards the reaper's property: see "What was read in the code" for a raised cap.

### IngestLock

Several ingests of one file with one content. Each has a parent (`pc`), which takes the lock,
spawns the child, waits for it and releases; the child (`child`) checks the hash cache, converts,
saves and marks. `lock` and `ttl` are the Redis key, `cmd` the SET call that runs in a thread of
its own and may be applied after the waiting parent was cancelled.

* Cancellation can strike at the SET, the poll sleep, the callback, the wait and the release; each
  has the handler the code gives it (`SettleThenRelease`, `_cleanup_after_cancel`, the finally).
* A fault of Redis makes the acquisition fail open (`unlocked`) or the release fail (`broken`).
* Redis calls other than the acquiring SET, the spawn and the callback take no model time; the
  margin of the TTL (`Floor < Margin`) is what pays for them in the code.
* An orphaned child needs an awaiting callback, which the code has only when
  `MAX_EFFECTIVE_TIMEOUT` is raised above its default.

Bounds: two ingests (the lock is about pairs; a third only waits longer), an effective timeout and
margins of one to three ticks, one Redis fault. No fairness: its properties are safety. It is checked in
the run `index_pipeline`: `IngestInit`, `IngestNext` and `IngestSpec` are its own.

### MemoryAdmission

Pods that pass the gate before they convert. A reading of the free memory is a number or missing;
the lock can be held, acquired, or counted as acquired because Redis failed; memory is taken after
admission. Two pods, a node with room for one local conversion.

### Registry

One document in the stores that follow its ingest. `artifact`, `sidecar` (MinIO), `row` (Postgres),
`retry` and `etag` (Redis) are the stores; `at`, `pooled`, `dated`, `carry` and `draft` are the
locals of each caller of `_upsert_registry_row` (the ingest, the promotion sweeps and the cron);
`cron`, `seen`, `orphan`, `moved` and `meta` those of the reconcile pass; `erase` is where the
erasure cascade is. Nothing of it is under a lock.

* An action is one awaited call. `MirrorStep` is one call of the mirror: upsert, comparison with
  the sidecar, read, put, and parking where the code parks. `CronStep` is a pass: drain, listing,
  generation, etag comparison, load, enrichment, upsert, etag write, healing of the orphan, stale
  deletion, pruning. Each call that can fail has a step for the failure the code handles, and
  `CutOff` and `Dies` end a pass or a writer anywhere.
* A verdict is named by the writer that computed it and compared by `rank`, the
  `VERDICT_PRIORITY`; at equal rank the newer one wins, as in the upsert.
* A sidecar is its verdict and whether it is fat. Sidecars that agree in both have one etag here; in
  the store they may differ, and the pass then does more work than the model's, never less.
* `moved` says whether the generation has changed since the pass read it. Erasures of other
  documents change it too: `StoreEtag` may refuse for no reason of this document.
* The parked verdict does not expire: it lives 24 hours and a pass runs every 20 minutes.
* `fresh` is the age guard. A pass is cut off after 300 seconds, half the grace period, so a row
  stamped after the listing is still young at the stale deletion (`Age`). `SlowTables` allows the
  stamp to be old already when the document is saved.
* A sweep takes a document only when its ingest is over, since its candidates are rows an older
  version of the pipeline wrote. Every ingest draws a new document id, so a document is ingested once.

Bounds: one ingest and one sweep (two writers of the mirror beside the cron's own), two priorities
with ties (a third only adds orders of the same pairs), one failing call or death per behaviour
(`MaxFaults`), one erasure, `SlowTables` off. `AtRest` is a bound as well: the erasure and the manual
cleanup begin when no writer is in flight, and meet only the cron. Fairness (`FairSpec`) is weak
fairness of `CronStep`: arq runs the reconcile cron on its schedule and a pass that began goes on; no
fault, no writer and no erasure is assumed to happen, so the writers may stop anywhere for good.
`HealFails` and `EnrichFails` belong to `CronStep` for the case that is no fault: the artifact has
vanished.

### HashCache and Erasure

`HashCache` has the dedup entries: the Redis hash (`hashes`), the JSON blob it replaced (`blob`) and
the purge of a name from the blob under a lock (`purge`, `copy`, `lock`). `Erasure` EXTENDS it with
`delete_doc`: `at` walks the `Manifest`, `known` are the keys found so far (the filename and the
sha256 have to be read from stores that later steps delete), `reached` and `failed` are the steps,
`held` is what the stores have of the document. Beside the erasures run the ingest, writing store by
store, readers that load and then fill the cache, and the erasures of other documents, which meet
this one only in the blob. `calm` remembers that nothing has interfered with an erasure.

Bounds: one eraser, as often as it likes (a retry after an incomplete answer), one erasure of another
document, one reader, one failing call. Fairness: readers end and the TTL of a cache entry runs out.
Nothing else, not even that an erasure goes on, is assumed.

### ReadinessGate, SplitConversion, RemoteConversion

`ReadinessGate` counts polls: `waited`, `budget`, the remaining `deadline`, and the state and age the
infra controller publishes (outside the program: every read finds any of them). `SplitConversion` is
the scheduler, one coroutine: `phase` says at which await or step it is, `hand` what it picked before
the probe, `queue`, `retry`, `running`, `live`, `failures` and `kept` are its tables. Between two steps
conversions end, backends fail, a build rolls out, and the clock goes from "early" (time for a useful
call) through "late" to "over".
Attempts of the same child share the cache of finished chunks (`kept`). A document only reaches the
scheduler when the gate lets it (`RemoteConversion`).

`ChunkCollection` is what the comments of `split.py` promise: a chunk is collected once, stays
collected for every attempt that wants the same build, the document is merged only when no chunk is
missing, and each attempt ends. `SplitConversion` instantiates it as `Collection` with a refinement
mapping (`kept`, the wanted build, and `Outcome` from `phase`); TLC checks `Collection!FairSpec`,
termination included, and the proof covers `Collection!Spec`.

Bounds: two backends with a slot each, three chunks (one in flight on each backend and one waiting),
two attempts, two builds, one outage or rollout, the limits at 2. Fairness: the scheduler goes on and
a conversion ends (every request has a read timeout); nothing is assumed of the backends' answers.

### DoclingService

Requests are whole documents, slices of a split and images. `acq` is where a request is in the
admission (the semaphores serve in order: `convertQ`, `sliceQ`, `lockQ`), `held`, `active`,
`sliceHeld` and `taken` are the service's own counters, `pdf`, `users` and `file` the shared download,
`thread` the conversion, `wedge` the monitor. The code counts the slots of a forming group twice, and so
does the model: `grouped` is the local of the slice that forms it, which decides what goes back, `taken`
the global `_slice_group_taken`, which only the accounting reads. The except clause of
`_acquire_slice_slot` resets the global for any slice cancelled past its slice slot, one that merely waits
for the group lock included (`RollBack`): then the two differ until the group is complete or given up.

A request task may be cancelled at every await. The first cancellation is answered in a finally or an
except clause that awaits again (the acquire's task, the thread); a second one cuts that short:
`CutGivingUp` loses an acquire that was granted, with its slots; `CutStopping` gives the slot back under
a running thread. Nothing in `app.py` cancels a request task twice; a server that shuts down may. Where
the first answer has nothing to lose the second cancellation is left out: an acquire that is not granted
yet is cancelled already and rolls back by itself. A thread may hang; the monitor suspects a wedge,
confirms it on a second look and the service restarts.

Bounds: one whole document, two slices, an image, two slots, one hanging thread, one second
cancellation (`MaxCuts`). Two slices are a first and a last of the group, or one that forms it and one that
waits; the image takes a slot beside either kind. Fairness: `Progress`,
what the event loop does on its own; no thread is assumed to stop by itself.

### IndexPipeline

`index()` in the converter child. `conf` is the worker's setting (which converters, the licence of the
last one, the policy for an outage), `st` the `ExtractionState` with its text, tree, gate result,
route and first defect; `capture` is the table capture beside it. `ConverterChain` goes from the file
to the first validated tree, `RecoveryLadder` through the recoveries of a tree that failed (each method
once), `IndexPipeline` through the hash check, the dispatch and the writes, one by one. What
`validate_tree` finds in a text, and what a conversion or a retry yields, is any member of `Trees`.

Bounds: two calls for one file name with two contents, six settings of the worker, eight trees (clean,
garbled in two ways, empty, short, shallow, reversed, sparse), one retry of a transient failure. A call
may be killed or a write fail at any step. Contents are interchangeable (symmetry). No fairness.

### ChunkedConversion, with PageClasses and ChunkBypass

`PageClasses` classifies pages, carries the classes over the wire and cuts the document into chunks
(`Merge`, `_absorb_short_runs`); `ChunkBypass` says which models a chunk is converted with.
`ChunkedConversion` has a thread, a process, a file and a queue per chunk (`thread`, `child`, `files`,
`mail`), the caller that waits for them in order (`next`), cancellation, time limits and the death of
the service (`up`). A thread looks at its process in two steps, as the polling loop does.
`ConversionAssumption` says what a request is: its plan, page classes and list of table pages were made
from its document and its machine by the operators of `PageClasses` (or have another number of pages,
which the code refuses), and the sizes of chunks are in the order the code has them in.

Bounds: documents of up to fourteen pages on machines of several sizes, a thousand requests, for the
decisions; five of them, of one to three chunks, at once, in turn or in a single pass, for the
processes; one fault. Fairness: the
caller and the threads go on and time limits pass; a process need never end.

### TableCapture and TableAnchoring

A document's supervisor thread (`sup`, `slots`, `over`), its processes (`worker`, one per range of
pages), the result it returned, and the join (`join`, `got`) by the indexer, which may stop waiting,
drop the document or persist it with its tables (`kept`). What is in a pipe stays readable after a
kill. `TableAnchoring` then aligns headings with titles, finds the node of each table and inserts it.

A section spans whole pages, from its heading's to that of the next heading not below it, inclusive; the
deepest one that has a table's page takes the table. Only sections of one depth that share the page are told
apart by position (`LastAbove`: the last whose heading is found above the table). `TablesInPlace` asks for
that much: a table in a section open on its page, and under the last of the tied headings above it.
It does not ask what the code does not do: a table above the heading of the deepest section that begins
on its page is put under that heading.

Bounds: two documents (of two pages and one) on two slots, one crash, bad page, oversized process or
stuck thread; a few trees per document with missing and
repeated headings, and with two or three of one depth on a page, above, between and below its tables, not
found on it, or without the PDF. No fairness.

### PicturePlane and PictureRecovery

A request is a document with its landscape pages, thin text layers, pictures (size, icon, chart text)
and flags. The steps are those of the code: pages read again, source of the markdown, fallbacks, crop
and OCR of each picture, the chunks joined, markers replaced by figures, figures enriched. Every item
carries the picture it was made for (`of`), which no step reads: properties compare it with what the
code matched by counting. Assumed: every picture has a provenance.

Bounds: at most three pictures on two pages in two parts, one failure, one page read again.

### TreeQuality, with DocumentTree, LeafSplit, Verdict and FlatBlocks

A text is a sequence of fragments (lines, or parts that begin at a legal marker) with a kind, a length
and what is wrong with it. `LeafSplit` is `prepare_tree`, leaf by leaf; `Verdict` has the gates in
order, the primary defect, the route, promotions and caps; `FlatBlocks` the documents without a
hierarchy, with tables that go on in tables of their own joined row by row (`Stitch`). `TreeQuality` runs a document through all of them, and `ExtractionState` decides the route.

Bounds: sections of at most five lines, some twenty thousand documents, the thresholds of the code
scaled to them with their order kept. `VerdictAssumption` (the thresholds are numbers in that order) and
`CasesAreKnown` (what is known of a document has its type) are checked as assumptions.

## The runs

| Run | Expect | Question |
|---|---|---|
| `job_lifecycle` | pass | `OriginalKeptUntilSettled`, `DoneNotDeadLettered`, `SuccessRecorded`, `LiveNeverStale` (the reaper never sees a live attempt as stale), `AtMostOneAtWork`, and `ProcessingComesToRest`: a job seen processing ends at DONE or ERROR |
| `job_first_write` | violation | The retry of a crashed attempt is rejected by its own first write |
| `memory_admission` | violation | Two pods pass the check against the same memory |
| `registry` | pass | `StoredEtagIsCovered`: the pass never comes to skip a sidecar whose verdict is above the row's; `LiveRowKept`: no row of a document in the bucket is deleted except by its erasure; `RowCatchesUp`: after any failure or death the row gets the sidecar's verdict or a higher one |
| `erasure` | pass | `CalmPassErases`, `GapIsReported`, `BlobStaysPurged`, `CacheComesClean` (a late cache fill runs out) |
| `remote_conversion` | pass | `ColdStartWaitedOut`, `FailureIsEarned`, `NoWorkRepeated`, `ImplementsCollection` (the refinement) |
| `docling_service` | pass | `NoSlotLost`, `WholeConvertsAlone`, `SharedPdfKept`, `ComesToRest` |
| `docling_false_alarm` | violation | The service declares itself wedged while every slot has an owner |
| `index_pipeline` | pass | Ingests of one file: `ChildUnderLock`, `OneCopyPerFile` (a second copy has a cause), `NoLockLeftBehind`. Calls of `index()`: `OutageIsRequeued`, `HashNamesAWhole`, `RejectedIsTraced` |
| `index_garbled` | violation | A garbled tree is persisted |
| `pdf_conversion` | pass | Chunks: `EveryPageServed`, `ResultIsWhole`, `NothingLeftBehind`, `ReportKept`, `CallReturns`. Tables: `EveryPageAccounted`, `TablesInPlace`, `AlignmentIsBest`. Pictures: `FigureIsItsOwn`, `RecoveredIsShown`. Trees: `TextKept`, `PassIsClean`, `VerdictMonotone` |
| `figures_shifted` | violation | A landscape page that is read again shifts the figures behind it |

`pdf_conversion` checks four components, each while the others are over, and `index_pipeline` two: they
share no state in these models, and their product would only multiply the states. Deadlock is not checked where the system really stops:
every passing run but `registry`, whose cron never ends, has `CHECK_DEADLOCK FALSE`.

## What is proved

A theorem holds for every value of the constants that satisfies the named assumption of its module
(`TimingAssumption`, `RegistryAssumption`, ...), which TLC evaluates on the instances. Type
correctness is proved and not run, as are `DoneStays` and `ReleasedByHolder`.

`JobLifecycleProofs`:

* `TypeCorrect`: `Spec => []TypeOK`, by one lemma per group of actions.
* `DoneStays`: no step leaves DONE. Its heart is `EveryWriteChecked`: every step of every process
  either leaves the hash alone or is a move the table allows; beyond that it needs only types.
* `SuccessAlwaysRecorded`: an attempt past its success branch has left the job DONE. The invariant
  adds which statuses a job can have while an attempt is on the way to success, since the DONE write
  must be permitted from each of them (this is what the ERROR to DONE entry of the table is for).
* `OriginalAlwaysKept`: the inductive invariant ties each place of an attempt that purges the
  staged original to the reason for it (persisted, rejected, or the last try reported), and bounds
  the try that is running by `tries`.
* `OneAttemptAtWork`, `WorkedOnIsNotStale`, `DoneIsNoDeadLetter`, from one invariant about clocks.
  While no operator has released the key, the age of an attempt that lives and the rest of its lease
  add up to the whole lease (`LeaseInv`), so a lease that has run out means an attempt that is over;
  what the reaper's deadline has left and the attempt's age are together at least the default deadline
  (`DeadlineInv`), so a deadline that has passed means an attempt past its function timeout. A dead
  letter is written by the last try after its work, for a job in ERROR (`DeadLetterInv`).
  `EveryStepIsOfAKind` classifies the actions into five kinds of step (`StepKinds`) first, and the
  invariant is shown to survive each kind.

`IngestLockProofs`:

* `LockTypeCorrect`, `ReleasedByHolder`.
* `ChildRunsUnderLock`: the inductive invariant `UnderLock` has four parts: a SET
  just granted has the full TTL (`Fresh`), from then on the countdown has lost no more than the child's
  age (`Held`), that age is bounded by what is due next (`Clock`), and a child at work is tended
  (`Tended`). The arithmetic needs
  `Floor < Margin`: the budget beyond the longest child pays for the spawn and the kill.
* `LockLeftByFaultOnly` (`Cleared`: a pending SET belongs to a parent that will settle it) and
  `SecondCopyHasCause` (`CopyInv`: whoever saved is recorded, and two tended children are never at
  work together), both resting on `UnderLock`.

`IndexPipelineProofs`:

* `HashNamesWhole` (`HashInv`): a call in its writes is a suffix of the write list, and what stands
  before it has been written to a document of its content.
* `OutageRequeues` (`OutageInv`): an outage in the chain means that docling is the current converter,
  and nothing after the chain changes who extracted the text but an OCR retry, which is docling's.
* `RejectTraced` (`RejectInv`): a state on its way has the route its gates give it; from there only
  the reject rules end a call as rejected, and they quarantine what is garbled.

`DoclingServiceProofs`: `TypeCorrect`, `SlotsAccounted`, `MachineNotShared`, `DownloadKept`, from one
invariant `Inv`. Each queue is a line without repetitions of exactly the requests at its place of the
acquire (`Queues`); the counters are cardinalities of the sets of requests at those places
(`Counted`), a request that lost its acquire among them; one slice forms the group, `grouped` is what it
has taken, and no slice is in meanwhile (`Grouping`). So every slot taken has a taker, and `NoSlotLost` says
which takers can be over: those that a second cancellation cut off. The service's own count is not in the
invariant, since it may be wrong (`docling_false_alarm`); a download has one owner and its users are those who wait for it or have it
(`Sharing`). The proof showed that two guards of a CASE in the model overlapped, which TLC resolves
silently; they are disjoint now.

`RemoteConversionProofs`:

* `TypesHold`; `ColdStartIsWaitedOut`: what is left of the longest cold start fits what is left of the
  budget (`GateInv`), for all waits with `ColdStart + 1 + ProbeMax <= ReadyWait`.
* `WorkIsDoneOnce` and `FailureEarned`: a missing chunk is in one place, queued, waiting to be retried or
  running (`WorkInv`); a chunk is in hand exactly while its backend is probed (`HandInv`); a round
  begins only while a chunk is missing (`RoundInv`); every counted failure is the end of a run
  (`EndInv`).
* `CollectionImplemented`: `RemoteSpec => Collection!Spec`. Initial states map to initial states; a step
  that collects, starts, ends or fails an attempt maps to that step of `ChunkCollection`, every
  other one to a stutter. The fairness of `Collection!FairSpec` stays with TLC.
* The scheduler's lists are written with sets of positions instead of `SelectSeq`, which the provers
  cannot expand.

`ErasureProofs`:

* `ErasureTyped`; `PurgeIsFinal`: whoever is between the lock and the unlock of a purge holds the lock,
  and a copy about to be put is the blob as it is (`BlobInv`).
* `GapsAreReported`: every step an erasure has behind it was reached, failed visibly, was optional, or is
  the hash step without a filename (`StepsInv`), in which case an optional step was skipped for the same
  reason. `PurgeInv` ties the purge to the hash step.
* `CalmPassIsComplete`: an undisturbed pass has the filename and the sha256 or is still ahead of the step
  that deletes where they are read from (`CalmSteps`), and what it has passed is empty.

`RegistryProofs`:

* `TypeCorrect`, and `LiveRowSpared`: `~SlowTables => (Spec => LiveRowKept)`. The invariant `ListingInv`
  says that an artifact the pass's listing does not have was saved after it and is young, so the stale
  deletion is not at work on it; `BeforeInv` says that before the ingest nothing of the document is
  anywhere. The hypothesis is needed: the age guard trusts `processed_at` (see below).
* `StoredEtagsAreCovered`: `~SlowTables /\ (\A s, t \in Sweeps : s = t) => (Spec => []StoredEtagIsCovered)`,
  for any number of faults. `EtagInv` has four parts. `QuietInv` and `AloneInv`: nothing has an etag
  before the ingest, and until the ingest is over no verdict but its own is anywhere. `BackedInv`: what a
  call carries to the sidecar, and what the sidecar says, is held by the row, with one exception, the
  ingest's own verdict, which its child and a call without a pool write to the sidecar first.
  `PassingInv`: a pass that is about to store the etag of a sidecar with that verdict has seen to it that
  the row holds it, or that it has left the sidecar for good.
* The hypothesis on `Sweeps` is needed: with two overlapping sweeps and two faults TLC finds a behaviour
  of 32 steps in which the second sweep, whose comparison with the sidecar failed, puts its lower verdict
  between the first one's read and put; a pass lists before that put, loads after it, and stores an etag
  that the first one's put brings back. The sweep is a script of its own, normally started once.

`PdfConversionProofs`, tables: `PagesAccounted`. `RangesPartition` shows that `split_ranges` cuts any
number of pages into any number of ranges without a gap or an overlap; `OneRun`, that the failed runs
contain a failed page exactly once; `ProcessInv`, that what a process has sent is of its range and all of
it once it is through; `CollectAccounted`, that the pages blamed at the end are those of unfinished ranges
that were not sent, each for one reason; `JoinInv` carries the result to the join.

`PdfConversionProofs`, chunks:

* `PagesAreServed`: for every request the chunks tile the pages, within the plan's size, and have the
  models their pages need. `PageClassChunksTile` follows the code: runs of one class, short ones
  absorbed by a neighbour (`AbsorbTiles`), long ones split (`SplitTiles`); merging and bypassing take no
  model from a page that needs it. The functions recursive over the pages are reasoned about through their
  defining equation and the least position at which a claim would fail (`LeastOf`).
* `ConversionInvariant`: `ConversionInv` joins, for each chunk, what the place of its thread says of its
  process, queue, text and time (`ThreadInv`) and what the place of the caller says of the threads
  (`CallerInv`); every step of the caller, a thread, a process, the clock and the service keeps it.
  `ReportsAreKept`, `NothingIsLeftBehind` and `ResultsAreWhole` are its consequences: a thread leaves
  without its process's word only after the second look at queue and process; a caller gets past its
  join only when no thread is at work; it returns the texts in the order of the chunks, which tile.

`PdfConversionProofs`, trees:

* `PassesAreClean` (`VerdictInv`: nothing is judged before the end, and `PassIsClean` of what is judged),
  for any documents and any thresholds with `VerdictAssumption`. It does not say that nothing in a PASS is
  garbled: that holds of trees. A flat document keeps garbled blocks below the reject's share of the text, and
  garbled windows below theirs; one of pictures only passes by their descriptions, whatever its windows.
* `BetterIsJudgedNoWorse`: `TreeSpec => [](LeafWeighed => VerdictMonotone)`. `DueInv`: the verdict is the one
  due to the document as it is, so `VerdictGrows`, a lemma about `ComputeVerdict` with its promotions and
  caps, applies to the state. `LeafWeighed` says that the two lengths behind the share of the heaviest leaf
  are integers. It follows from the types, but texts are built with `SelectSeq`, whose results the provers
  cannot type; TLC compares these lengths in every state of the run, so it holds there.

## What is only model-checked

* Liveness, which the prover does not do under fairness: `ProcessingComesToRest`, `RowCatchesUp`,
  `CacheComesClean`, `ComesToRest`, `CallReturns`, the termination in `ImplementsCollection`.
* `TablesInPlace`, `AlignmentIsBest`: the best alignment is a dynamic program over two sequences, and the
  place of a table a fold over candidates sorted with CHOOSE. The library's induction theorems and the
  lemmas about folds take an operator as a parameter, so each such function would need an induction of its
  own through `LeastOf`.
* `TextKept`: the texts are built with `SelectSeq` and the folds behind `FlattenSeq`, which the provers do
  not expand.
* `FigureIsItsOwn`, `RecoveredIsShown`: they hold of the documents of their run and not of all
  (`figures_shifted` has one that breaks the first), so a theorem would need a hypothesis that restates them.

## Findings

`PROJECT.json` lists five disagreements between the code and its own comments, docs or tests, each with
the run that shows it: the first write of a retry (`job_first_write`); the admission lock, which neither
excludes a check without it nor covers the taking of memory (`memory_admission`); a garbled tree that is
persisted because the snapshot of the OCR retry has no `first_defect` (`index_garbled`); the figures
that a re-read landscape page shifts (`figures_shifted`); and a slice whose cancellation resets the counter
of another slice's group (`docling_false_alarm`): with more than one slot, the group's slots count as leaked
for as long as it waits, which may be a whole conversion, and after the grace of the monitor the service kills
what it has, though nothing was lost. `NoSlotLost` does not depend on that counter and holds.

## What was read in the code

Disagreements with a doc, a comment or a test that no run is spent on:

* `worker/job.py:242` against 661-663: with a conversion cap above `JOB_TIMEOUT` the reaper's deadline
  passes while the attempt works (the guard `CapWithinJobTimeout`).
* `upload_app.py:179` against 150-153: a failed cleanup leaves a PENDING entry nobody will run.
* `worker/subprocess_mgr.py:548` against 247-248: a cancellation in the handshake callback leaves the
  section that owns the child without killing it (modelled as an orphan).
* `registry_backfill/cleanup.py:88` against 53-58: `processed_at` is stamped before the wait for the table
  capture, so a new document can look old to the stale deletion (`SlowTables`).
* `client/split.py:633` against `agents/rfcs/052-…:261`: a merged document may mix two builds.
* `client/indexer.py:2865`, 2815 against `storage/verdict.py:96-100`, 278-286: a flat document is never
  found by the dedup check, so it is converted again.
* RFC-047 D8: the Surya density fallback (`indexer.py:2303-2415`, tests/test_ocr_fallback.py:777) can never
  fire; `compute_verdict` without a validation result yields no `suspect_density`.
* `cache.py:157` swallows the failed deletion `documents.py:307` counts on; a comment near
  `documents.py:893` is out of date.
* `client/indexer.py:3113` says every REJECT records a quarantine; FLAT without markdown does not.
  `_recover_landscape_reroute` cannot act (tests/test_inspector.py:1048 says it reroutes).
* `agents/designs/design-rfc020-run3-regression-remediation.md:388`: chart text is persisted three times in
  a flat PDF (tree splice, `splice_figure_markers`, `_enrich_image_blocks`); `_spliced_into_markdown` is
  read nowhere.

Stores and locks: the drain deletes a retry key that may hold a newer verdict by then, and parking
replaces a parked verdict by a lower one; no step of the erasure removes the retry key, so a replayed
verdict brings a row back; healing an orphan saves only the columns the upsert returns; the retry of an
erasure whose hash or verdict step failed may not find the key any more (`documents.py:717`);
`hash_cache_migrate.py:99` beside an erasure resurrects its entry.

Docling: a second cancellation in `_admit_unless_cancelled` loses the slot of an acquire that was granted
(`CutGivingUp`), until the monitor restarts the service; a hanging image conversion is not detected. In `docling_conv.py`, a chunk's child applies
`MAX_DOCLING_PAGES` to itself, so on a node with one CPU and much memory a single pass over more than 150
pages re-enters the chunked route as a daemon and fails; a process that ends exactly at its limit is
reported as "died without a result" and fails the document; the service dying while a child starts leaves
an orphan (modelled); after a chunk failed, running ones go on to their own limit; the record of a chunk
that timed out claims models it did not use; `relevel_joined_headings` leaves headings unplaced.

Indexing: a failed OCR retry clears `bidi_renorm_applied`, so `rtl_repair` may correct twice; text of the
vision model leaves the garble flag stale; a reverted retry leaves `full_page` unset, so up to three
full-page OCR passes run; the legacy policy still requeues an outage in a recovery conversion; the first
document of a name may be of an older content; `source_selection` is never used.

Quality: a flat document of 100 blocks can never PASS and one of 99 can; an ordinal split leaves an
arbitrarily large preamble in a parent the leaf ratio does not count; children of splits and segments have
no `line_num`, so the order check is blind to them; `_clamp_pass` looks at the primary defect only;
`_try_cat_a` is never reached from the indexer; a heading after a blank gives a child with an empty title,
a blank-line split an empty last child; a reversed document routed flat can PASS (`gates.py:140-144` says
it is capped), and so can a garbled one below the threshold; picture-only documents without chart text
fail `zero_content` before the verdict for them is reached.

Tables and pictures: `anchor.py` 474-508 keeps the greedy walk for garbled pages; `assign_nodes` takes the
first of tied candidates when no heading is found above the table, where its docstring (338-342) says the
last, and puts a table under the deepest heading of its page even from above it; `result.tables` is sorted by the table id as a string. Temporary files stay when
a write fails (`pictures.py` 605-607, 835-838); a failed `save_figure` leaves crops under an id no document
has; a Surya winner replaces only the first picture list; a region above `SKIP_PAGE_COVERAGE` with a text
layer of its own loses text docling did not export; the page of a landscape entry counts from 0.

## Plan

1. Done: every component above with its runs, and proofs of 29 of the 40 properties the passing runs check; of the
   others six are liveness and five are named above.
2. Next, proofs: the types of trees and texts, which would discharge `LeafWeighed`; `AlignmentIsBest`, one
   induction over the rows of the alignment; `StoredEtagIsCovered` without `~SlowTables`.
3. Later: an abstract register of verdicts for Registry, saying which verdicts of a writer that ended well
   are kept; two sweeps as a run of their own.

## Not modelled

Text, layout, OCR and model answers are data the control does not branch on except through what the
modules above take as input (defects, sizes, what a page yields); `PROJECT.json` names, per component, what
is left out. `_normalize_pdf_page_rotation`, the enrichment ratio of images and the flat garble gate are
left out of PictureRecovery, the failure of anchoring as a step out of TableCapture, the one-off migration
of the hash cache, start-up and health endpoints, and the start-up backfill, whose upserts a pass repeats.
Observability and metrics are write-only. Configuration and authentication keep no state. The MCP query
tools only read. The command-line clients call the operations above one at a time. The Surya service is a
lock around a model.
