# rars: specifications, checks and proofs

`rars` reads, writes and repairs RAR archives. It is a Rust library
(`crates/rars`) with a command line (`crates/rars-cli`), Python and WebAssembly
bindings, and a JavaScript package that runs the WebAssembly build in a worker
(`npm-src`). Most of its code transforms bytes; what is hard to test is around
it: memory and disk quotas shared by threads, batches that fail half-way, a
decoder thread that feeds a writer on demand, files that may only appear when
they are verified, and a message protocol with a worker that may be aborted.
These modules specify that part. They are written from the source; each
definition that models code is mapped to its lines in `PROJECT.json` ("map").

## How to run

    tlc -workers 2 -config WorkspaceLedger.cfg MCWorkspaceLedger
    tlapm WorkspaceLedgerProofs.tla

`PROJECT.json` lists every run with its module, its configuration and the
properties it checks, and for each property a mutant: a definition of the model
changed the way a plausible bug would change the code (the definitions with a
`mistake` or `mutant` comment), under which the run must report the property
violated.

## Inventory

Paths are below `crates/rars/src` unless they say otherwise.

| Component | State | Operations | Hard behaviour | What makes it correct |
|---|---|---|---|---|
| Workspace ledger (`codec/workspace/ledger.rs`) | bytes in use of one limit; per reservation its capacity, use, started and retired flags | reserve, start, clone, retire; charge, resize, drop | reservations, handles and buffers of several threads drop in any order | bytes in use are exactly what is held; a worker cannot take a sibling's share |
| Windowed extraction (`codec/workspace/coordinator.rs`) | the batch's slots, their reservations and results | admit, dispatch, join, publish | hints are unverified; a member fails after siblings succeeded | in-order publication, none of a failed batch, all memory returned |
| Rewrite pipeline (`rewrite_staging.rs`, `rewrite_staging/pipeline.rs`) | demanded index, ready leases, staged bytes, the decoder's error, cancellation | open, read, close, release; stage, wait, publish; stop and join | two waits on one condition variable, cancellation without notification, panics | no hang, no lost or double refund, no file deleted under a reader |
| Writers over rewritten sources (`rar15_40/write.rs`, `rar50/write/engine.rs`, `rar50/write/compress.rs`) | window of inputs between first read and release | prepare, emit, release | the window and the staging quota depend on each other | a quota that holds the largest member suffices |
| Compression batches (`rar50/write/compress.rs`, `rar50/write/plan.rs`) | wave, permit, job slots, stop flag | plan waves, acquire, run jobs, scan errors, release | several writer calls share one memory budget; jobs fail while siblings run | no deadlock, permits exact, the cause reported and not its consequence |
| Memory budget, spools, storage budget (`streaming.rs`, `streaming/*`, `temp_file.rs`) | bytes in use; files with position, length and charge | acquire, release; create, write, park, read, share, drop | short writes, failed removals, names already taken, two ledgers at once | the quota bounds what is on disk and in memory |
| Read control, output and parse limits (`read_control.rs`, `output_limit.rs`, `parse_budget.rs`, `extraction_control.rs`) | countdown, bytes delivered, callback decisions | check, charge, run | errors that wrap or hide each other | a limit cannot be exceeded nor misreported |
| Readers (`rar13.rs`, `rar15_40.rs`, `rar50.rs` and their `extract`), volume sets (`volume_extract.rs`, `member_read.rs`) | decoder state across solid members; a pending split member | parse, extract, test, read a member | split members across volumes, parallel and solid paths | members are whole, decoded with the history they were coded with, delivered in order on every path |
| Solid writing (`rar13/write.rs`, `rar15_40/write.rs`, `rar50/write/compress.rs`, `write_plan.rs`) | the encoder, and whether the solid run has a member | code, store instead, rebuild the encoder, flag | empty, linked, stored and directory members between solid ones | readers go on where the writer went on, and start afresh where it did |
| Members from their sources (`write_stream.rs`, `rar50/write/engine.rs`, the legacy writers) | lengths and checksums taken from a source that is read again later; the open volume | measure, checksum, encrypt, cut, copy | sources that change between two reads; cuts at the last byte | what was written verifies, or the call fails |
| Writers' layout (`rar50/write/layout.rs`, `headers.rs`, `framing.rs`) | the two offsets of the main header | repeat until they settle | a header whose length depends on offsets that depend on its length | blocks are where the header says |
| Builder and plans (`builder.rs`, `write_plan.rs`) | none between calls | plan, validate, pick a writer | none | see *not modelled* |
| Codecs (`codec/*`), cryptography (`crypto/*`), recovery (`recovery/*`) | windows, models, trees | decode, encode, repair | numeric edges | round trips; see *not modelled* |
| CLI extraction (`crates/rars-cli/src/main.rs`, `output.rs`) | staging directory, outputs, published paths and identities | stage, verify, publish, keep on failure | aliases, other programs, file systems without rename or link | only verified files appear; `--overwrite=never` replaces nothing |
| Publication of archives (`pending_archive.rs`, `builder.rs`, `lib.rs`, CLI `main.rs`, `npm-src/node-worker.cjs`) | temporary file, destination | create, write, rename, remove | several calls to one destination, failures and kills anywhere | an archive is replaced whole or not at all |
| CLI archive commands (`crates/rars-cli/src`, the rest) | none of interest | add, rewrite, repair, list, test | input plans | see *not modelled* |
| Worker client and engine (`npm-src/client.js`, `worker-engine.js`) | queue, active request, worker, idle timer | request, abort, answer, progress, crash | late messages, callbacks that re-enter, races with timers | every request settles once, with its own outcome |
| JavaScript API and glue, Python and WebAssembly bindings | none of interest | conversions | none | see *not modelled* |

The components interact through a few objects. A reader with a workspace limit
owns a *ledger*; `extract_windowed` reserves from it for workers that run in a
parallel region. A writer call has *resources* (a memory budget, a storage
budget, a temporary directory) that several calls may share. A rewrite runs a
*decoder thread* (a reader) and the caller's thread (a writer); they share the
*delivery*. The CLI gets *callbacks* from the reader, one per member, and the
JavaScript client exchanges *messages* with one worker at a time.

## Modules

| Module | Models | Builds on |
|---|---|---|
| `Totals` | the sum of a bounded function, without recursion over data | |
| `Quota` | abstract: holders take and return bytes within a limit | `Totals` |
| `InOrderDelivery` | abstract: members are delivered in order; success means all of them | |
| `WorkspaceLedger` | `codec/workspace/ledger.rs` | `Totals`; implements `Quota` |
| `ExtractWindowed` | `codec/workspace/coordinator.rs` with `parallel::for_each_mut` | extends `WorkspaceLedger`; implements `InOrderDelivery` |
| `ParallelPrefix` | the batches of `rar50/extract.rs` and `rar15_40.rs` on `parallel::map_prefix` | |
| `MemberExtraction` | sequential extraction of archives and volume sets: `rar13.rs`, `rar15_40.rs`, `rar50/extract.rs`, with `extraction_control.rs`, `output_limit.rs`, `read_control.rs` | |
| `Extraction` | a call that extracts, on one of the three paths | extends the three above |
| `RewritePipeline` | `rewrite_staging.rs` (scoped call) and `rewrite_staging/pipeline.rs` | implements `Quota` |
| `RewriteWriter` | the legacy and RAR5 writers as the pipeline's consumer | extends `RewritePipeline` |
| `CompressBatch` | `rar50/write/compress.rs` with the memory budget of `streaming.rs` | `Totals`; implements `Quota` |
| `SpoolStorage` | the spools and the storage budget of `streaming.rs`, with `temp_file.rs` | `Totals`; implements `Quota` |
| `CapacityStorage` | memory charged in two ledgers: `CapacityCharge`, `streaming/*` | `Totals`; each ledger implements `Quota` |
| `SolidChain` | a solid archive, from its writer to its readers | |
| `SourceWriting` | members from changing sources into an archive or a volume set | |
| `ArchiveLayout` | `rar50/write/layout.rs` with the lengths of main header records | |
| `WorkerClient` | `npm-src/client.js` and the message handler of `worker-engine.js` | |
| `ExtractionOutput` | `ExtractOutputState` of the CLI with `output.rs` | |
| `ArchivePublication` | `pending_archive.rs`, `builder.rs`, `lib.rs`, CLI `main.rs`, `npm-src/node-worker.cjs` | |
| `TotalsProofs`, `WorkspaceLedgerProofs`, `CompressBatchProofs`, `WorkerClientProofs` | the theorems about the module they are named for | that module |
| `RewriteProofs` | the theorems about a rewrite call and its writers | `RewriteWriter` |
| `ExtractionProofs` | the theorems about the three paths of a call | `Extraction`, `WorkspaceLedgerProofs` |
| `WriterStorageProofs` | the theorems about memory, spools, solid chains, members from changing sources and the main header | `CapacityStorage`, `SpoolStorage`, `SolidChain`, `SourceWriting`, `ArchiveLayout` |
| `ExtractionOutputProofs` | the theorems about the CLI's output and the publication of archives | `ExtractionOutput`, `ArchivePublication` |
| `MC...` | constants for TLC | |

`MCWriterStorage` and `MCOutput` put parts into one run that share no state: a
variable that never changes says which part runs, and the others stay in one
initial state. `Extraction` does the same for the three paths of a call.

### WorkspaceLedger

`used` is the ledger's mutex-protected count; `phase`, `capacity`, `scopeUsed`
and `handles` are a reservation's `Usage` and its clones; `owner` and `bytes` a
`Charge`. Every operation of the code runs under one or two locks without a
wait in between, so it is one action: `Reserve`, `Start`, `CloneHandle`,
`Retire` (the drop of a `Reservation`), `DropHandle`, `NewCharge`, the grow and
shrink halves of `resize`, `DropCharge`. `FreeIf` is `Usage::drop`, which runs
in whichever action drops the last owner.

### ExtractWindowed

The coordinator's loop is a program counter (`fill`, admission, dispatch, join,
publish); a slot is a scope of the ledger and a worker's output a charge of it.
Every hint is chosen from a set when the run starts, and a worker allocates up
to `MaxNeed` whatever its hint said. A worker that is dispatched may see the
stop flag before or after a sibling sets it. A panic is raised again at the join,
as rayon's parallel loop does. The limit error a worker gets from its
scope is one of the errors of `Errors`.

### ParallelPrefix, MemberExtraction and Extraction

`ParallelPrefix` has the calling thread (`phaseOf`, `lot`, `given`) and one
decoder per member of the batch. A batch takes members while they fit into what
is left of the buffer limit (`Joins`, `TakeIntoLot`); the decoders finish in any
order; the results up to the first failure are given to the caller in order.

`MemberExtraction` is the loop over entries of the three families, and of the
entries of a volume set, as one sequence. `stage` is the place inside one
member: selection, admission to the limits, the caller's output, decoding, the
writes to the sink, the end of the member and the question to the error
handler. `fate`, `made`, `seen` and `accepted` record of each entry what became
of it, which parts it was assembled from, which members its decoder had seen
and how many bytes its sink took. Damage, a failing sink, a failing callback, a
cancellation and a limit may come at every step, several of them in one member;
`trouble` is what there was, and `RunResult` what `OutputBudget::run` makes of
it. The rules that differ between families (which members count as solid, when a
decoder is kept, copied or started, what a split directory does) are in the
operators that `PROJECT.json` maps to each reader.

`Extraction` chooses the path as `extract_to_parallel_buffered` does.

### RewritePipeline and RewriteWriter

The decoder thread (`decoder`, `current`), the caller (`caller`) and readers
(`reader`, `target`) share `requested`, `ready`, `published`, `used`,
the files, and three flags: the delivery's cancellation, its parent (the
caller's token) and the failure recorded at the end. A reader that sleeps on
the condition variable leaves it only when an action that calls `notify_all`
wakes it, whereas the decoder's wait has a timeout, so its guard is looked at
in every state. `Close` separates the two effects of the last lease: the file
is removed and the bytes are refunded. `RewriteWriter` replaces the free
readers by the writer's input windows: an input is prepared (opened, read,
closed), released early when its packed form is kept, emitted (opened again
when it is stored) and released.

### CompressBatch

Each writer call plans its waves from the members' workspaces, checks that the
wave can ever fit, waits for its permit, dispatches jobs, joins them, scans the
results in order and releases the permit. The cancellation latch `latch` is
what `WorkTracker` remembers after the callback first asked to cancel.
A call that waits for its permit looks again every 25 ms
(`streaming.rs:735`). The model takes this for granted, since the guard of the
waiting action is looked at in every state: no property here would notice a wait
that trusts notifications alone, or one that misses a cancellation.

### SpoolStorage and CapacityStorage

`SpoolStorage` has the files by name (`disk`), the storage budget (`reserved`)
and per spool its cursor, length, charge and handle. A write is three steps, as
in `write_with`: reserve what it could reach (`ReserveWrite`), write, keep what
was written (`FinishWrite`, `ShrinkTo`). `Park` drops the handle, and the next
use opens the file again at the cursor (`Reopened`). `IntoSource` makes it a
shared payload with sources and readers; the last of them removes the file, and
`debt` is what stays charged when it cannot be removed. Names come from one
sequence; an earlier process may have left files of the same names, and a
cleaner (`Sweep`) may remove any file.

`CapacityStorage` has the steps of one growth: admitted in the execution ledger,
admitted or refused by the class, rolled back, the replacement allocated while
the old array exists, the old one freed, the charges shrunk. Owners interleave at
every step. `ledgers` says which of the two a writer has.

### SolidChain

The writer codes one member after the other (`WriteSolidMember`); a history is
the sequence of members whose data an encoder or decoder holds. A member is
compressed, stored because it did not shrink (`FallsBack`, which in RAR 2.0 and
later rebuilds the encoder) or stored as a link or directory, and its header
says whether it continues the chain. Then a reader of the family passes over
the headers with its own rules: our readers (`PassesOver`, `GoesOn`, `Base`),
or 7-Zip as the comment at `rar15_40/write.rs:626` describes it, which counts
files instead. A filter named under forced PPMd is left out.

Links are members like others. The RAR 1.3 writer codes them as files; the
legacy writer stores them and rebuilds its encoder for every target
(`rar15_40/write.rs:1371`), RAR 1.5 among them, whose headers have no solid bit,
so that the reader goes on with its decoder: finding 3. `ChainsUnbroken` states
what the comment at `rar15_40/write.rs:2291` says and fails in `solid_links`;
`ChainsAgree` excepts, in a RAR 1.5 archive, the members behind a link that
stands behind data (`BehindLink`), and nothing else.

### SourceWriting and ArchiveLayout

`SourceWriting` reads members byte by byte while another program may change the
source between any two reads (`Revise`). The RAR5 writer asks all lengths, then
takes all checksums, encrypts what it will cut, and then writes
(`Measure`, `EndIntegrity`, `Prepare`, `EndEncrypt`, `Cut`): a member is cut
where a volume is full, a fragment that is not the last has the checksum of its
own bytes, which is read once more before the header goes out (`EndChecksum`),
and the copy is compared with both (`Verified`). The legacy writers go through
one member after the other, hold what they code or cut, and copy only what they
store. `kept` is what the writer holds of a member, `entries` are the headers
written with their payloads. Several RAR5 members are coded at once in the
program; since no step of one depends on another, the model takes them in turn.

`ArchiveLayout` has two actions, for a turn of `resolve_layout`'s loop: the
offsets fit in the largest integer of the code (`ResolvePass`), or `checked_add`
fails and the writer gives up (`Overflow`). Its operators give the lengths of the
locator, the extra area and the main header, encrypted or not, as functions of
the offsets.

### WorkerClient

`client` is one record so that the helper functions of `client.js`, which call
each other and user callbacks, are operators on it. `outbox` and `inbox` are
the message channels of each worker; a worker that was stopped keeps what it
had already sent. A progress callback may throw, abort any request that listens
to a signal, or do both. A post may throw, or abort its own request while the
payload is read (`StartAfter`, `client.js:94`): `abortTask` then runs the rest of
the queue within the post. Another request aborted there ends as if it had been
aborted just before or after, which the model has.

### ExtractionOutput

`dest` is the file system: who made the entry at each file (`0` another
program, `m` a member) and whether it is whole. `step` is the place inside one
pass of `publish_verified`. `Fold` maps names to files, so that two names may
denote one file. A path whose last component is a symbolic link is refused whenever it
is checked (`CrossesLink`, `filename.rs:104`): before a member is staged and before
it is published, so that a link this extraction has published is not replaced
by a later member that aliases it, although it has no identity. Others may
create files and links at any time (`CreateForeign`), also after the last check.
The library's side is `CallOpen`, `Verify`, `FailBefore` and
`FailWriting`: callbacks come in order, and a member is verified before the
next callback.

### ArchivePublication

A call has one part or several; `callKind` says how it publishes: a temporary
file made with `create_new` and renamed (library and CLI), the Node worker's
temporary file and rename, all parts at once, or the CLI's volumes, written in
place one after the other. `progressOf` is how far a part is, `answer` what the
caller was told. Every step may fail, after which the part removes its temporary
file, and a process may be stopped anywhere (`StopCall`).

The Node worker's temporary name is made of the destination, the process and
the millisecond, and is opened without `create_new`. The model gives every part
its own name: two calls of one process to one destination in one millisecond, who
would share the file, are left out, and so are two in-place sets that write the
same file.

## Runs

| Run | Question | Properties |
|---|---|---|
| `ledger` | does the ledger count exactly what is outstanding, in every order of drops? | `Conservation`, `ScopesAreSettled`, `ScopeIsolation`, `ImplementsQuota` |
| `extract` | is extraction whole, in order, within its limits and honest about failures, on each of its paths? | windowed: `AdmissionIsSound`, `DrainedAtEnd`, `ImplementsDelivery`; batches: `PrefixIsDelivered`; members: `HistoryIsChain`, `MembersAreWhole`, `OutputIsBounded`, `BlameIsReal`; the parallel paths: `EveryCallReturns` |
| `pipeline` | does a rewrite call end with nothing leaked, whoever stops first? | `Accounted`, `OpenReadersKeepTheirFile`, `EndIsClean`, `EverybodyProceeds` |
| `rewrite` | do the legacy and the RAR5 writer's windows and the staging quota fit together? | `LegacyWindowsFit`, `OnlyTheDecoderFails`, `RewriteEnds` |
| `compress` | can calls that share a budget always finish, and do they report the cause? | `JobsFitInMemory`, `PermitsAreExact`, `OutcomesAreHonest`, `CallsReturn` |
| `storage` | do a writer's resources count what exists, and does what it writes hold together? | spools: `SpoolsAreExact`, `FilesKept`; memory: `MemoryIsAdmitted`; solid archives: `ChainsAgree`; changing sources and volumes: `WrittenSetsVerify`; the main header: `LayoutSettles` |
| `client` | does every request settle, once, with its own outcome? | `ClientIsConsistent`, `OutcomesAreOwn`, `QueuedAbortDoesNotInterrupt`, `EveryRequestSettles` |
| `output` | do only verified members and whole archives appear? | `PublishedIsVerified`, `NothingByHalves`, `VerifiedAreKept`, `NeverReplaces`, `MembersAreKept`; archives: `ArchivesAreAtomic` |
| `rewrite_wave`, `compress_errors`, `solid_links`, `output_twice` | the findings below | one each, violated |

Some of these are conjunctions of named parts, each with its own comment in its
module: `ScopesAreSettled` (`RetiredIsExact`, `NoOrphanScope`), `EndIsClean`
(`OkMeansStaged`, `NothingLeftBehind`), `EverybodyProceeds` (`AlwaysReturns`,
`OpensAreAnswered`), `OutcomesAreHonest` (`AllJobsCompleted`,
`OnlyTheCallerCancels`), `SpoolsAreExact` (`StorageAccounted`,
`CursorIsExact`), `ClientIsConsistent` (`NoRequestLost`,
`OneOperationPerWorker`, `TimerGuardsIdleWorker`) and `NothingByHalves`
(`AlwaysReplacesWhole`, `SuccessIsComplete`).

`BlameIsReal` has one exception, which is the code's: a cancellation that nobody
has looked at replaces another error when an error handler is to be asked,
because `finish_member` looks at the token before it asks
(`extraction_control.rs:57`).

### What the runs found

1. `rewrite_wave`: a RAR5 wave is not bounded by `max_preparation_window`
   (only the legacy writer asks for it, `rar15_40/write.rs:662`). With two
   compressible members and a quota that holds the larger one, the wave opens
   both and the decoder fails with `RewriteStagingLimitExceeded`, in some
   schedules only. `rewrite_staging/pipeline.rs:177` says such windows fit.
2. `compress_errors`: `rar50/write/compress.rs:121` says that scheduling does
   not choose which error is reported. With two members that always fail it
   does: the one that fails first makes the other be skipped.
3. `solid_links`: behind a link the writer of a solid RAR 1.5 archive starts
   its encoder afresh (`rar15_40/write.rs:1371`), and no reader of that family
   does, because the header cannot say so. The comment at
   `rar15_40/write.rs:2291` gives this as the reason why a member that does not
   shrink is not stored there. In a file, a link and a file, the third member
   is coded against nothing and decoded against the first. `add_unix_symlink`
   refuses the format; `add_bytes` and `add_source` take a mode with a file type
   (`builder.rs:319`), by which `builder.rs:1625` marks the member as a link.
4. `output_twice`: the member staged last is recognised by its name. When the
   failing entry has the same name and fails before its output is asked for,
   the verified first member is discarded.

The passing runs leave out what finding 4 concerns, a repeated name whose second
entry fails early, and `ChainsAgree` excepts what finding 3 concerns.

### Bounds, and why they are enough

- `ledger`: two scopes and three charges (two of one scope, or one of each and
  a global one), limit 5, a control block of 1, one cloned handle per scope. A
  third scope would repeat the relation of the first two; five bytes let a
  scope be partly used, full and refused. Scopes and charges are symmetric.
- `extract`, windowed: three members in batches of at most two, so that a full batch, a
  last short one and a batch cut by memory all occur; hints 0, 1, 2, 6 and 8
  against a limit of 9 give an empty hint, two that share, one that fits alone
  and one that is refused; a worker may need less or more than its share.
- `extract`, batches (`MCTasks`): four members with sizes that fill a batch,
  share one, need no memory, or fit none (buffer limit 2, batches of at most
  two), and every choice of the damaged ones.
- `extract`, members (`MCJobs`): every archive of three entries of each family
  from directories, links, stored, overlong, empty, packed, solid, split and
  oversized entries, with and without the archive's solid flag, without
  callbacks and with all of them; and every volume set of three entries in which
  some entry is split, in every order of whole, first, middle and last parts of
  two names. Three entries let a member fail between two others of its chain and
  a split member have all three kinds of parts. Sizes are 0 to 2 bytes against
  limits of 2 and 3, the buffered limit is 1. A limit that is not configured is
  `NoLimit`, 9, more than an archive of three entries can come to. A split entry of a RAR 1.3 set is a
  file whatever its attributes say (`rar13.rs:1341`), so that split directories of
  that family are generated in archives only; `MHD_SOLID` is the same in all volumes of a set.
- `pipeline`: four members, two of them selected, one a dependency and one to
  be skipped; quota 2 with payloads that fit one at a time but not together,
  and with one that is larger than the quota; two readers that open twice
  between them (`MaxOpens`), so that both wait, or one opens a source again.
- `rewrite`, `rewrite_wave`: three selected members in windows of at most two;
  sizes 2, 2, 1 (windows of one under quota 3), 1, 1, 1 (a window of two) and
  1, 0, 4 (refused: the last can never be staged); quota 3, and 2 for the wave.
- `compress`: two calls of three members with two threads and limit 3; the
  plans mix whole members, fallback members and one that can never fit.
- `storage`, spools: two spools, three names of which any may be taken at the
  start, two attempts per creation, a budget of 2 and writes of up to two bytes,
  so that an overwrite, a short write, a refusal and a debt meet; two sources or
  readers share a payload, so that sources are cloned and the last of several
  holders removes the file. Spools are symmetric.
- `storage`, memory (`MCWants`): three owners of two classes that grow by
  doubling, by blocks or at once, in a ledger of 8 and classes of 6, so that
  the class may refuse what the ledger admitted.
- `storage`, solid archives (`MCSolidJobs`): every sequence of four members per
  family, from directories, links, empty files and files of several lengths; four, because a member may be stored between two that
  are coded and the next be the first to notice.
- `storage`, sources (`MCWriteJobs`, `MCRevisions`): RAR5 archives and sets of
  two members, stored, packed, encrypted or empty, and legacy ones; sources of
  up to three bytes that change twice (`MaxRevisions`), to something shorter,
  longer or different and back; volumes of two payload bytes, so that members
  end before, at and after a cut; cipher blocks of two.
- `storage`, layout (`MCLayouts`): bodies within 36 bytes below the lengths at
  which an offset gets its second, third and fourth byte, with metadata records
  and quick-open blocks that reach the boundaries of the extra area and of the
  second offset. A quick-open block of 16255 bytes lets the first offset cross
  128 and the second 16384 in different passes, so that all five passes of the
  comment occur; `MaxOffset` is small enough for an overflow in the first pass and
  in a later one. The code's tests take the offsets to ten bytes, which are
  beyond TLC's integers; the theorem has them.
- `solid_links` (`MCLinkedJobs`): every sequence of three files and links.
- `client`: three requests (one active, one queued, one more that arrives), at
  most one crash of the runtime.
- `output`: archives of up to three members over the names `a` and `A`, which
  denote one file, and `b`, of which either may be a directory or a link; each file
  may be there before, as a file, a directory or a link, and another program
  creates one file or link more (`MaxForeign`). Two
  calls that publish archives of one part or two to two destinations, with two
  temporary names; calls, destinations and names are symmetric.

### Fairness

Liveness is only claimed under weak fairness of steps the code itself runs: the
coordinator and every worker that was dispatched, the thread that takes batches
and their decoders (`ExtractionSpec`); the decoder
thread, the caller and readers that have something to do (`PipelineSpec`,
`RewriteSpec`, there with the writer); writer calls and their jobs
(`BatchSpec`); delivery of messages and events, the timer, and the worker that
serves the active request (`FairSpec`). Threads that are runnable run, and the
decoder's timed wait looks again. Nothing is assumed of the environment: tokens
need not be cancelled, callbacks need not abort, workers need not crash, and a
worker that was stopped need not act. In `PipelineSpec` the consumer is assumed
to stop opening sources eventually (it has `MaxOpens` opens), as a writer does.
Sequential extraction, the writer's resources and the publication of archives
claim no liveness: each of their steps either goes on or ends the call.
`CHECK_DEADLOCK FALSE` appears where the system really may stop: the client
when all requests have settled, the CLI's extraction and the publications when
the program has ended, and the writer's parts when a set is written, an offset
has settled or no spool is left to create. The other runs check for deadlock, with
an explicit final step.

## Proofs

TLAPS proves, for every value of the constants that satisfies the named
assumptions, what follows. A theorem of a run's property says of every instance
what the run shows of one; the inductive invariants were checked with TLC before
they were proved.

### Accounts

- `LedgerCorrect`, `ScopesSettle` (assumption `LedgerAssumption`: finite sets of
  scopes and charges, natural limit and control block): `LedgerTypeOK`,
  `Conservation`, `ScopeConservation` and `ScopesAreSettled` (`RetiredIsExact`
  and `NoOrphanScope`). The inductive invariant `LedgerInv` is these with
  `CommitmentFits`: the capacity and control block of a live scope are within
  the limit. Conservation alone is not inductive: a retired scope gives a
  charge's bytes back to the ledger, and only `RetiredIsExact` says that the
  capacity it still holds is what its charges hold; `NoOrphanScope` is needed
  because the last drop decides who returns the control block.
- `WorkersAreIsolated`: the action property `ScopeIsolation`, from the same
  invariant.
- `LedgerImplementsQuota`: the ledger refines `Quota` with `held <- Held`, what
  each scope (capacity and control block) and each global charge holds.
- `CapacityCorrect` (`CapacityAssumption`): `MemoryIsAdmitted` of memory charged
  in two ledgers. `CapacityInv` says of each owner, at each step of a growth,
  what it is charged in each ledger: what it keeps, the peak with both arrays,
  or what is retained after; the peak covers the old array until it is freed.
- `SpoolsCorrect`, `SharedFilesAreKept` (`SpoolAssumption`): `SpoolsAreExact`
  and `FilesKept`. That the budget counts exactly what files answer for needs
  that no two spools have one name, that the file of a live spool is its own
  and not longer than its charge, and that a name not yet drawn has no file of
  this process (`SpoolInv`). Every step is shown to change what one name
  answers for, and the counter by as much.
- `SpoolsImplementQuota`: the storage budget refines `Quota` with what each name
  answers for, a file that could not be removed included: a reservation is one
  acquisition that fits, what a short write leaves over and a removal are
  releases.
- `CapacityImplementsQuotas`: so does the execution ledger, and so does the
  ledger of every class, each for the owners that it charges. A refusal by the
  class after the ledger has admitted is a release in the ledger and a stutter
  in the class.

### Extraction

`ExtractionSpec` takes one of three paths; `ExtractionProofs` has an invariant
for each.

- Windowed (`ExtractAssumption`, `LedgerAssumption`): `ExtractionInvariant`
  proves `ExtractInv`, and from it come `AdmissionCorrect`
  (`AdmissionIsSound`), `ExtractionDrains` (`DrainedAtEnd`) and
  `ExtractionDelivers` (the refinement `ImplementsDelivery`). `ExtractInv`
  contains the ledger's invariant, since the coordinator's steps are the
  ledger's: what a worker's scope and output are in the ledger at each stage of
  the worker (`WorkersInv`), that the buffer of slots outlives them
  (`SlotsInv`), where publication stands (`ProgressInv`), that what admission
  has added up is the sum of the hints and still free (`AdmissionInv`), and
  that a slot without a result always stands beside a failed one
  (`ResultsInv`). Without the last the publication of a stopped batch could
  meet an empty slot. `AdmissionInv` carries the reservations still to be made
  (`Promised`) through the loop that makes them: each takes its term from the
  sum and from the ledger.
- Batches (`TasksAssumption`): `PrefixCorrect` (`PrefixIsDelivered`). The
  invariant `PrefixInv` says which members the batch consists of, what a
  worker's verdict means, and that what is retained and what may still join
  are within the memory of a batch.
- Members (`JobsAssumption`): `MemberInvariant`, and from it `BudgetCorrect`
  (`OutputIsBounded`), `BlameCorrect` (`BlameIsReal`), `MembersCorrect`
  (`MembersAreWhole`) and `HistoryCorrect` (`HistoryIsChain`). `MemberInv` has
  a part for each, which lean on each other: an entry the loop has not come to
  is untouched; `spent` is the sum of what sinks accepted; `trouble` is only
  what happened to the current member; the parts that wait for a continuation
  are a run of entries that ends before the current one; every entry passed is
  accounted for or waits; and in an archive with solid members every coded
  member the loop is past has been decoded, so that the decoder's history is
  the coded members since the last fresh start. The last is where a selection
  or a handler could go wrong: it needs that a handler is never asked in such
  an archive.
- `JobsAssumption` says of redirections in volume sets that they are not
  split: they have no payload, so no writer splits them. Of RAR 1.3 sets it says
  that no split entry is a directory, because the reader takes it for a file.

### Writers and rewriting

- `BatchCorrect`, `JobsFit`, `OutcomesStayHonest` (`BatchAssumption`: at least
  one member and thread, workspaces between one and a largest one):
  `BatchTypeOK` and `PermitsAreExact`, `JobsFitInMemory`, `OutcomesAreHonest` of
  the writer calls that share a budget. The inductive invariant `BatchInv` says
  of each call (`WriterInv`) that only its wave has queued or running jobs, that
  it holds exactly what the wave reserved while it runs and nothing between
  waves, and that every stop, cancellation or skipped job has a cause that is
  still there when the results are collected: a failed sibling, the caller's
  latched request or a panic. Without the last part a skipped slot could meet
  `expect("all jobs completed")`. The lemmas below it show that a wave exists,
  and that what it reserves covers its jobs, a fallback member's blocks
  included.
- `BatchImplementsQuota`: the shared budget refines `Quota` with
  `held <- permit`.
- `PipelineCorrect`, `ReadersKeepTheirFile` (`PipelineAssumption`: a finite set
  of readers, at least one selected member): `PipelineTypeOK` and `Accounted`,
  `OpenReadersKeepTheirFile` of a rewrite call. `Accounted` is not inductive:
  that a refund is exact needs that whoever drops a lease is its only holder
  and that the lease has left the map (`LeaseInv`), that only published
  members have leases and that the decoder is past all of them (`DecoderInv`:
  or a refund could hit the member being staged), and that a file is whole
  while its lease is in the map or read and gone before it is refunded
  (`FileInv`). `PipelineInv` is these with the exact count (`Counted`); each
  step is shown to keep it and to change the charge of at most one member.
- `CallsEndClean`: `EndIsClean`, with a second invariant `EndInv` on top of
  `PipelineInv`: the members behind the decoder are published or pending
  (`StagedInv`), the decoder that returns leaves no file without a lease
  (`OnDisk`), and how far the guard has come says what is left in the map
  (`GuardInv`). Behind a panic of the caller the guard clears the map before the
  decoder is joined; one member more may be published after that, because
  the decoder has read the token before, and its next look ends it.
- `PipelineImplementsQuota`: staging refines `Quota` with `held <- Charged`;
  it follows from the step lemma of `PipelineInv`.
- `WindowsFit` (`LegacyWindowsFit`) and `FailuresAreTheDecoders`
  (`OnlyTheDecoderFails`) of both writers, for any archive and number of
  threads (`WriterAssumption`, besides `PipelineAssumption`: the readers are
  the threads, and there are enough opens for two of each input). `RewriteInv`
  adds to the invariants of the call what the decoder was asked for and told
  (`RequestInv`, `AnswerInv`), how far each input is (`ProgressInv`), which
  sources were asked for (`AskedInv`: none behind the wave), that a source
  keeps its lease until its input is emitted (`SourceInv`), that a reader works
  for an input or is dropping the lease of one (`OwnerInv`), and that an open
  which was refused had a reason (`OpenInv`). For `LegacyWindowsFit`: while
  the decoder writes a member of the window, whatever is charged belongs to the
  window too; a window of members of the largest size fits the quota, and the
  member being written is not complete. A wave may move on while the last lease
  of the one before is still being dropped; but a release keeps the mutex until
  its bytes are refunded, and the decoder goes on only when an open, which takes
  the mutex, has asked for a source of the new wave (`WaveUnasked`).
- `WritersAreConsumers`: a step of a writer is a step of the pipeline or none,
  so what is proved of a call by its steps holds of these consumers.
- `ChainsCorrect` (`SolidAssumption`): `ChainsAgree` for every sequence of
  members, links among them, with the exception it states (`BehindLink`). `SolidInv` says that each header written carries the history it was
  coded against and the flag that says so, and that a reader at a member holds
  exactly that history whenever it matters: a RAR 2.0 decoder may hold
  something else where a stored member ended the run.
- `WrittenSetsVerifyHolds` (`WritingAssumption`: at least one member; the legacy
  writers encrypt none here and cut one only): `WrittenSetsVerify`, for any
  sources, number and order of changes to them, and length of volumes.
  `WritingInvariant` says that what is known of a member was read in one pass
  and that what the writer holds of it is that, coded and padded (`Knowledge`);
  that what is written of the member at hand is a prefix of its payload
  (`Position`), although each fragment was read by itself from a source that may
  have changed; that every part written has a place in its member's payload,
  the next one where it ends (`PartsOK`); and that it has a place in its volume
  (`VolumesOK`). A member that is copied is the hard case: its payload is what
  its checksum was made of, and a part agrees with that only once the member's
  last part is verified, so before that the invariant speaks of what was
  emitted (`Written`) and at the last part moves over to the payload. The
  places are functions that exist, not state of the program. What
  a reader joins, and how much a volume holds, are recursive functions over the
  parts; they are shown to exist (`JoinExists`, `SumExists`) and to have the value
  stated at every part by taking the least part where they had not.
- `LayoutSettlesHolds` (`LayoutAssumption`: lengths of what is in memory are
  within the largest offset; `WidthAssumption`: an integer of `n` bytes is below
  `128^n`, and every offset has a width; `SettledAssumption`: the comment's
  bound is five or more): `LayoutSettles`, for all lengths up to the largest
  offset. A header is longer when an offset is wider and never shorter, so the
  offsets grow from pass to pass; from the first pass on they grow by less than
  the distance between two lengths at which an offset gets a byte, so each gets
  one byte more at most; and a pass that widens neither leaves both where they
  are. `LayoutInvariant` counts the bytes they got (`Crossed`), at least one for
  every pass but the first and the last two.
- `LeastLayoutHolds`: the offsets the loop settles on are the least that are
  exact, and it fails with an overflow only when no offsets of the code's integers
  are. No run states this: it quantifies over all offsets.

### What appears in the file system

- `OutputCorrect` (`ArchivesAssumption`): `OutputTypeOK`, `PublishedIsVerified`
  and `AlwaysReplacesWhole` of the CLI's extraction. The inductive invariant
  `OutputInv` adds `RecordedIsVerified`, what is counted as staged before the
  pass is verified, and `StepsAreDue`, the pass only works on a member that is
  staged and verified when the step it is at can change the destination.
- `NeverReplacesFiles`: `NeverReplaces`; under `OutputInv` every action keeps an
  existing file with `--overwrite=never`, and what it completes is its own copy.
- `OutputIsComplete` (`NothingByHalves`) and `MembersStay` (`MembersAreKept`), for
  every archive, folding of names and creation by other programs, and
  `OutputIsSalvaged` (`VerifiedAreKept`), for archives whose names differ
  (`NamesDiffer`): the archives of `output_twice` break that hypothesis, and the
  property. `PlacesInv` says that every published member stands at its
  destination (`PlacedStand`) and either has its identity recorded or is a link,
  so that a later alias is refused by one check or the other.
- `PublicationCorrect` (`PublicationAssumption`; `TempNamesAssumption`: the
  Node worker's temporary names, which end in `.tmp`, are none of the library's): `ArchivesAreAtomic`. `PublicationInv` says that a part that has a
  temporary file made it, that no two parts have one name, and that a file,
  under a temporary name or at a destination, leads back to a part of its call
  that is as far as the file says.

### The client

`ClientCorrect` (`ClientIsConsistent`), `OutcomesCorrect` (`OutcomesAreOwn`) and
`AbortsDoNotInterrupt` (`QueuedAbortDoesNotInterrupt`), for any number of
requests and crashes (`RequestsAssumption`). Who is aborted while it is posted
has no request before it that waits (`InTurn`), which tells it from one that is
aborted in the queue. The handlers call each other and
user callbacks that may abort requests, so a handler is a relation between client
records; the lemmas follow the operators from inside out and show that a
client goes from rest to rest, or to having posted one task. `ClientInv` says at
rest: the queue is in the order of requests, what is unsettled is active,
queued or not made, no more workers were spawned than requests left the queue
(`Coherent`), a queued task is on no worker (`Unposted`), the timer runs when a
worker has nothing (`Timed`), the worker works on the active task and nothing
else (`Occupied`); and a worker's messages are about tasks it was given, the
answer last (`MailOK`). Without the last a late answer of an earlier worker could
settle a request that a new worker has.

### Sums

`TotalsProofs` has the facts about sums that these rest on: a sum over a finite
set changes by the change at one element, is at least any of its terms and any
two, is zero only when all are, grows with its terms, and can be shared among
scopes. `Totals` defines
a sum as the size of the set of pairs (element, unit), since what a recursive
sum computes cannot be proved by induction with the provers at hand. The
quantities summed are bounded, which the models use to say so: what is larger than
a limit counts as one more than the limit.

### Only model-checked

- Liveness: `EveryCallReturns`, `EverybodyProceeds`, `RewriteEnds`,
  `CallsReturn`, `EveryRequestSettles`. The provers do not do `ENABLED` and
  fairness.

The model checker confirms on small instances what is proved of the runs'
properties.

## What is not modelled

Codecs, cryptography, checksums and Reed-Solomon arithmetic are pure functions
of large data with published test vectors and round-trip tests; a small
instance of them would show little. They are most of the library's lines, beside
its own tests. Parsing (with `parse_budget.rs`), most of header encoding, names,
times, options, prompts, listings and progress bars are conversions without a
state that anything else depends on. Not modelled yet: the unscoped staging
call, the writer's execution-ledger variant of the batches, members read at an
offset (`member_read.rs`), and the countdown between two looks of the read
control, which in the models may look at every step.

In what is modelled: memory that fails to allocate outside the budgets, a
poisoned mutex and blocked I/O are left out; the client cannot observe a worker
that exits without an error event, so no property speaks of it (a request would
then stay pending); the CLI's extraction model leaves out parent directories,
the validation of names, hard link targets and modification times, and a crash of the
whole program. A volume set written in place may be left half new
(`main.rs:2240`): the model has the steps, and `ArchivesAreAtomic` exempts it.

## Plan

The order is by how much depends on the behaviour and how hard it is to test.

1. Done: the ledger and its quota, windowed extraction, the rewrite pipeline
   and its writers, compression batches, the worker client, the CLI's output.
2. Done: spools and the storage budget, memory in two ledgers; the sequential
   and the batched extraction with limits, selection, callbacks and split
   members; the publication of archives; solid chains; members from changing
   sources, volumes cut from them, and the main header's offsets.
3. Left to model: the batches under an execution ledger, the placement of
   recovery blocks, and pure algorithms against a reference definition
   (canonical Huffman tables, the history window's copy).
4. Proved: every safety property of the passing runs, invariants, action
   properties and refinements (one of the CLI's output for archives whose names
   differ); five refinements of `Quota` and one of `InOrderDelivery`; see *Proofs*.
5. Left to prove: with a prover for fairness, that the calls end.
