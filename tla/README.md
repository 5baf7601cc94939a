# Formal models of IOR

IOR runs as a set of MPI ranks.  Every rank executes the same test, moves its
share of the data through an I/O backend, and meets the other ranks in MPI
collectives.  What makes it hard to test is that each rank decides by itself
which collectives it calls, when its stonewall clock cuts its loops, which
files it opens, truncates and removes, and that one backend (AIO) returns from
a transfer before the transfer has happened.  The same holds of mdtest and
md-workbench, which come with it.  The modules here model these parts in TLA+,
TLC checks them on small instances, and TLAPS proves the safety properties of the
AIO backend, of IOR's buffer above it, of a test, of its transfer loop and of the
options of a script for all sizes.

Source paths below are relative to `src/environment/task/src/`.

## Inventory

| Component | State it keeps | Operations | Hard behaviour | What makes it correct |
|---|---|---|---|---|
| AIO backend, `aiori-aio.c` | array `iocbs` and `iocbs_pos`, `in_flight`, `pending_bytes`; the kernel's context | initialize, finalize, open/create, `aio_Xfer`, fsync, sync, close | the kernel completes in any order and any batch, short and failed completions, signals, a wait without timeout, buffers owned by the caller | the counters agree with the kernel, no wait for what cannot come, a flush that returns tells the truth |
| Test driver, `ior.c` (`TestIoSys`) | per rank: repetition, `rankOffset`, `testFileName`, `errorFound`; the files | write, write check, read, removal, per repetition | ranks drift apart between collectives, move over each other's files (-C, -Z), remove files under -k, -K, -E | collectives line up, nobody misses a file, no false alarms, files kept or removed as asked |
| Transfer loop, `ior.c` (`WriteOrRead`) | `i`, `j`, `pairCnt`, `hitStonewall`, `pairs_accessed` | transfers, stonewall, wear-out, prefill | a clock per rank cuts two nested loops anywhere | no transfer skipped or repeated, equal work with -l, reads stay inside what was written |
| MPI (library) | what each rank has called | Barrier, Bcast, Reduce, Allreduce | matching by order of call only | used as the standard demands |
| POSIX and memory-mapped backends, `aiori-POSIX.c`, `aiori-MMAP.c` | file descriptor, mapping, range lock | create, open, xfer with retries, fsync, close, delete, size | short transfers, retries, early returns | each byte in its place, bytes reported are bytes moved |
| MPI-IO backend, `aiori-MPIIO.c` | file handle, views, types | the same, collective or not | byte accounting, retries, position kept in a view | the same; the collectives line up |
| HDF5 and NetCDF, `aiori-HDF5.c`, `aiori-NCMPI.c` | data set or variable, row, counters in static variables | create, open, xfer, close | the place of a transfer follows from how many came before; collective creation | a rank reads back its own cells |
| S3 multipart, `aiori-S3-4c.c` | upload id, etags, part number | create, xfer, close, gather, complete | parts of all ranks become one object when rank 0 completes it | part numbers and etags of all ranks agree with what was sent |
| Other storage, `aiori-DFS.c`, `-IME`, `-RADOS`, `-CEPHFS`, `-HDFS`, `-Gfarm`, `-CHFS`, `-FINCHFS`, `-PMDK`, `-S3-libs3`, `-DUMMY` | client handles, DAOS pool and container | create, open, xfer, close, delete, size | every rank truncates, storage moves less or fails, handles that others still use | nobody truncates what another wrote; the container goes away last |
| md-workbench, `md-workbench.c` | per rank a window of objects in its own and other ranks' directories | precreate, benchmark, cleanup, position file | ranks work on each other's objects in a moving window; stonewall; restart from a stored position | each object touched exists; the window is whole |
| mdtest, `mdtest.c` | item trees, names and shifts of each rank, `items`, `items_done` | create, stat, rename, read, remove phases of directories, files, tree; tests over task counts | stonewall and continuation to the maximum; shifts of ranks; phases in runs of their own; status file | each phase finds the items it names, each is removed |
| Options and scripts, `option.c`, `parse_options.c` | queue of tests, one structure of options per backend and test | command line, directives, RUN | state carried, or shared, from one RUN to the next | each RUN is one test with the options given so far |
| Output, `ior-output.c` | `indent`, `needNextToken` | sections, arrays, key-value pairs | calls in many orders from parser and ranks | the document nests |
| Utilities, `utilities.c` | node map, patterns, stonewall status file | `QueryNodeMapping`, `GetNumTasksOnNode0`, status file | collectives with early returns | every rank leaves them with the same answer |
| Registry, `aiori.c` | table of backends, options of each | look-up, initialise and finalise all | which tests share options | a test gets the options of its backend |

The hazards this code has, each at its line, are in `PROJECT.json`.

## What is modelled

### AioPromise, Aio: the AIO backend

`AioPromise` is the abstract specification: a backend accepts transfers, they
land later in any order, a flush returns only when everything accepted before
has landed, and the only other way out is to fail the run.

`Aio` is `aiori-aio.c` against a Linux AIO context.  One process calls the
backend: `aio_Xfer` (with `aio_XferFull`, `ProcessSome`, `HandleEvent` and
`ProcessSomeReturns` when it has to reap first), `complete_all(kind)` for
fsync, sync and close (with `CompleteAll`, `HandleEvent`,
`CompleteAllReturns`), `aio_initialize`, `aio_finalize`, `aio_Open`.  The
kernel's steps (`KernelComplete`, `KernelFail`) interleave with every one of
them.  `pc` names the points between which the kernel may act: before
`io_getevents`, and in the loop over the events.  `iocbs_pos`, `in_flight` and
`pending_bytes` are the code's variables; `outstanding`, `completed`, `result`
and `secondary` are the kernel's.  `ERR` and `ERRF` end in `MPI_Abort`, which
is `pc = "aborted"`.  Requests are numbered in the order of `aio_Xfer`; the
array is emptied as a whole, so it holds the last `iocbs_pos` of them.

Faults are constants: a refused `io_setup` or `io_submit`, a short or negative
completion, a nonzero `res2`, and a signal that interrupts `io_getevents`.

### AioBuffer: IOR's buffer above the backend

`WriteOrReadSingle` owns one buffer.  The module composes (EXTENDS) `Aio` with
the loop that fills the buffer, hands it to `aio_Xfer`, and with -Y calls
fsync, and then with the write check.  The kernel moves the bytes the buffer
holds *when it executes the request*.

### Mpi: collectives

External.  The k-th collective call of a rank meets the k-th call of the
others.  `calls` records what each rank has called; `Ready` says when a rank
may leave its last call (nobody leaves a Barrier or Allreduce before all have
come; a Bcast waits for rank 0 only; a Reduce holds only rank 0).  A call that
meets another operation never returns (`Arrived`), so that a property such as
`Finishes` or `Ends` also says that the ranks call the same collectives in the
same order; `CollectivesMatch` says it directly.  Collective calls of MPI-IO,
HDF5 and PnetCDF (open, close, set view, collective transfers) and the
creation of communicators are collectives of this module too.

### TestIoSys: a test

One action per stretch of `TestIoSys` between two collectives or file
accesses, for each rank.  `rankOffset`, `target` (`testFileName`),
`errorFound`, `errors` are per rank; `exists`, `opened` and `block` are the
file system.  A block holds the repetition that wrote it, or nothing, or data
that the file system stored wrong (`MaxCorruptions`).  `RemoveFile`,
`GetTestFileName`, `CountErrors`, `CheckFileSize`, `ReduceIterResults` appear
as operators or actions of those names.  The transfer loop is one step here.
POSIX semantics: creating a file that exists opens it, a removed file that is
still open loses its writes for later readers.

### StoneWall: the transfer loop

`WriteOrRead` in a write and then a read phase, per rank: `Segment` and
`Transfer` are the two loops, the clock is free to pass after any transfer
(`Hit`), `Agree` is the broadcast of collective I/O, `AnotherPass` the do-while
of `minTimeDuration`, `LastPass`, `Reduced` and `Rest` the wear-out of -l.
`NextPhase` hands `pairs_accessed` over as `stoneWallingWearOutIterations`.
`offsets[r]` may differ between ranks, as with -z on a shared file.

### MdWorkbench: runs of md-workbench

A behaviour is a sequence of runs of the program (`plan.runs`), each with some
of -1 (precreate), -2 (benchmark) and -3 (cleanup) and with `--read-only` or
not; the objects and the status file stay in between.  Data set `n` of rank `q`
is a FIFO: rank `q + Offset * (n + 1)` takes the oldest object of it (`Stat`,
`Read`, `Remove` are steps of their own), rank `q - Offset * (n + 1)` adds the
newest (`Create`, then `Write`; between the two the object exists but is not
complete).  `RoundEnd` or `StoneWall` ends a round, `WearOut` is the Allreduce
of -W inside the loop, `RoundsDone` the same Allreduce for ranks that were not
stopped, `Agreed` the end of `run_benchmark` with the advance of
`current_index`.  `return_position` and `store_position` are the status file.
An iteration with -T (adaptive waiting) is eight of the model's iterations.

-w without -W lets the ranks make "process-specific progress", as the program
warns; `Careful` takes it out of the properties on objects (not out of those on
collectives and on the end).  There the loop is also left before the finished
round is counted.  `StartItem` is a constant; with a value above 0
`NothingMissed` fails, because `run_precreate` creates only the objects from
there to `precreate - 1`.

### Mdtest: tests of mdtest

A behaviour is a sequence of runs of the program (`plan.runs`), each a set of
phases (-C, -T, -E, -U, -r), as mdtest's own tests use them; `dirs` and `files` are
what the file system keeps in between, together with the status file of -x.
Within a run there are several tests, over `first` to `last` tasks with a
`stride`, each on a communicator of its own (`CommCreate`, `NextTasks`), and
several iterations of each.

A step of a rank is its work between two collectives: `MakeTestdirs`,
`MakeTree`, `Names` (the shift of ranks by `nstride`), `phase_prepare` and
`unique_dir_access`, then per phase `create_items` (or `collective_create` by
rank 0), `mdtest_stat`, `mdtest_read`, `rename_dir_test`, `remove_items`,
`AfterTest`, at the end `RemoveTree`, `RemoveTestdirs`, `IterationEnd`,
`summarize_results`.  `mdtest_iteration` and `main` are the order of these
steps.  The stonewall of -W may cut the creation of items after any number of
them on any rank; `updateStoneWallIterations`, `ReduceSum` and
`ContinueAfterStonewall` bring all ranks to the largest number, which
`AskStatus` and `ReadStoneWallingIterations` hand on to a later run.

Items are pairs of the rank that names them and a number, in a directory of a
tree of `branch_factor` and `depth`.  `Covered` leaves out a few mixtures that
make later phases fail (see *What is not modelled*).

### Backends: transfers through fourteen backends

A job creates a file, or one per rank, writes `Length` units at the offset of
the rank, checks the size, reads back and removes.  The module is the
`create`, `write`, `fsync`, `close`, `open`, `read`, `CloseRead`,
`GetFileSize`, `Delete` of POSIX, MMAP, MPIIO, IME, CHFS, FINCHFS, GFARM, HDFS,
RADOS, CEPHFS, DFS, S3 (libs3), PMDK and DUMMY: what they have in common (the loop
with at most `MAX_RETRY` retries, `singleXferAttempt`, the places where they
give up) is one operator with a case per backend where they differ (who
creates, who truncates, which offset is used, who asks for the size and who is
told).  `LateCreate` is what is left to do in MPIIO, HDFS and POSIX once a
first collective (an open, or the barrier behind rank 0's creation) is over.
`finalize`, `cont_close`, `cont_destroy`, `pool_disconnect` are the end of DFS.
In DFS rank 0 opens for all and hands its handles on in two Bcasts
(`HandleDistribute`), and it may fail before each of them.

Storage is free: it may move fewer units than it was asked for (`job.short`),
or fail (`job.fails`); a file of an earlier run may be there
(`job.leftover`).  DAOS may fail to find a file (`job.lost`, in `DFS_Create`, `open` and
`DFS_GetFileSize`) or to make a handle for others (`job.unshared`), which is where rank 0
returns before a Bcast.  `-O dryRun=1`, -Y, -g, stripes of Lustre, collective
MPI-IO are options of a job.

### Layout: backends that choose the place

In HDF5, NetCDF, the file view of MPI-IO, its strided datatype, and in the
multipart uploads of S3 the place of a transfer is computed from state that
one transfer leaves for the next, in the handle or in static variables.
Positions are counted in transfers.  `create`, `write`, `close`, `open`, `read`, `CloseRead` and
`RemoveFile` of these; `Gather` and `Complete` are the end of an upload, in
which rank 0 gets the etags of all ranks and asks the server for the object.
-D (`deadline`) may cut the writing of a rank, -C reads the block of another,
and a second repetition meets what the first has left.

### Driver: a script and its tests

The parser (`Comment`, `ParseLine`, `Run`, `ReadConfigScript`) reads a script
and makes a queue of tests.  A RUN line appends a test that starts like the one
before it.  The options of a backend are structures kept by their number
(`queue.structs`), because two tests may share one.  Then each
rank of MPI_COMM_WORLD goes through the queue (`ior_main`): `GetNumNodes` and
`QueryNodeMapping`, in which the ranks find out how many nodes there are, how
many tasks are on the first, and whether they lie there in blocks;
`test_initialize`, `TestIoSys` on a communicator of `numTasks` ranks (or not at
all for the others), and `test_finalize`, with the barriers in between.
The document is the sequence of tokens that `ior-output.c` prints: opening and
closing brackets, names, values, and the commas that `PrintNextToken` adds
according to `needNextToken`.  `ShowFileSystemSize` brings commas of its own.  What
somebody prints on standard output beside that is the token `Line`: `initialize` of AIO
does on every rank (`Talkative`), rank 0 for a backend without `statfs` (`NoStatfs`), and
with -v the number of those who take part.  The inside of a test is the work of the modules
above and is one step here.

## Runs

| Run | Instance | Shows |
|---|---|---|
| `aio` | max-pending 8, granularity 5, 9 requests of 2 bytes, one fault of any of setup, submit, short, negative | the four safety properties of the backend, the refinement of `AioPromise`, and that calls return |
| `aio_fsync_per_write` | max-pending 8, granularity 8, 9 writes and the check of them, -Y | the file holds what was handed over |
| `test` | 3 ranks, 2 repetitions, one corruption, all of `Usable` | no rank misses a file, a check finds errors only where there are some, removals respect open files and -K, nothing is left, the test ends |
| `stonewall` | 2 ranks, 2 segments of 2 offsets (or 2 and 1), every cut of the clocks | no transfer lost or repeated; equal work; reads stay inside; the ranks' collectives match |
| `workbench` | 3 ranks, 2 objects precreated, 1 or 2 rounds, iterations and data sets; all phases in one run, one run per phase, or two runs | nobody misses an object; each data set is exactly the window between its reader and its writer; runs can be resumed and leave nothing behind; every run ends |
| `mdtest` | 3 ranks, 14 command lines of `MCMdtest!Usual` | each phase finds the items it names; after a stonewall all ranks have the same number of them; nothing is left; all runs end |
| `backends` | 3 ranks, 3 units each, 1 retry, the 14 backends as `MCBackends!Usual` mixes them | every byte in its place and read back; sizes agree; a run is given up only for a reason; nobody truncates another's data; the DAOS container outlives its use; all ranks come to the end |
| `layout` | 3 ranks, 1 to 3 segments and transfers, `MCLayout!Usual` | every rank reads back what the rank it reads from has written; S3 parts are those announced; all ranks come to the end |
| `driver` | 3 ranks, POSIX and RADOS (without `statfs`), 3 placements on nodes; all scripts of up to two lines from seven kinds, scripts of several RUNs with each of these between them, two longer ones | a test has the options written before its RUN; ranks agree on nodes and tasks per node; the document of quiet tests on POSIX is well-formed and tells of each test; the program ends |
| `aio_buffer_reuse` | 6 writes, no -Y | **violated**: the buffer is refilled before the kernel reads it |
| `stonewall_prefill` | --random-prefill, -D | **violated**: a barrier that not all ranks call |
| `driver_options` | an option of a backend before and after a RUN | **violated**: the second value reaches the first test |

**Bounds.**  max-pending cannot be below 8 (`aio_check_params`).  With
granularity 5 the context has less room than two batches, the array and the
kernel can each be empty while the other is full, and a ninth request makes
`aio_Xfer` reap with requests left in the array; this is the case in which
`process_some` could wait for ever.  A transfer of 2 bytes has a short count
between 0 and the whole.  Three ranks let a rank remove, read and stat files
of two different others; a shift of 2 tasks makes `(2 * shift) % N` and
`shift % N` differ; the second repetition meets what the first has left.  In
`StoneWall` two segments of two offsets contain every relation of the cut to
the ends of both loops, and `MaxPairs` 5 is one more than a pass, so that a
minimum time begins a second pass.  In `MdWorkbench` with three ranks the
reader, the writer and the owner of a data set are different; two objects and
two rounds let a reader reach the first object its writer has added, and the
second iteration starts from a position that is not 0; with two data sets the
roles of the other two ranks are exchanged.  `MaxRequests`, `MaxFaults`,
`MaxCorruptions` and `MaxPairs` are bounds of the models, not of the code.

In `Mdtest` three ranks make the rank that creates, the one that stats and the
one that reads different under `nstride`; a tree of three directories has a
root, and two leaves; the plans are each of the options by itself and the
mixtures of those that change the same names.  In `Backends` a transfer of 3
units with one retry has each of full, short, then full, and short again; a
neighbour on both sides shows a write at a wrong offset.  `Layout` has two or
three of each of the things that are counted (ranks, segments, transfers,
repetitions).  In `Driver` two RUNs are what an option can leak between, three
ranks on two nodes of unlike size tell the placements apart, and a test of one
rank leaves two ranks out.  `Length`, `MAX_RETRY` (10000 in the code) and the
lines of scripts are bounds of the models.

**Fairness.**  `Aio`: the kernel executes what was submitted (`WF(Kernel)`),
and the process keeps running inside a call (`WF(InCall)`); nothing forces the
caller to make another call.  In all other modules each rank is a process of
its own that keeps running (`WF(Step(r))`, `WF(RankNext(r))`).  In
`MdWorkbench` and `Mdtest` also `WF(NextRun)`: the user starts the next run;
in `Mdtest` `WF(CommCreate)`, the library's part of that collective; in `Driver`
`WF(ParserNext)`.  In `StoneWall` also `SF(LastPass(r))`: a rank that evaluates
the do-while condition again and again finds in the end that the minimum time
has passed, because the clock advances.

TLC checks for deadlock in every run.

Every property of a passing run has a mutant (the `M_` operators next to the
definition they would replace): a plausible slip in the code that makes TLC
find the property violated.

## Known deviations

Three runs show disagreements of the code with its documents.  The following
were seen in the same way, by giving TLC other constants, and are not kept as
runs.  The sets named are in the MC modules.

| What | How to see it |
|---|---|
| A signal during `io_getevents`: -EINTR is subtracted from `in_flight` and `aio_Xfer` goes on (`src/instruction.md:77`) | `Aio`, `Faults = {"signal"}`: `WaitsAreMet` |
| A nonzero `res2` is not looked at | `Aio`, `Faults = {"secondary"}`: `FlushVouches` |
| -Z -Z is not a permutation: two ranks read one file, and another is not read | `TestIoSys`, `Tests <- Shuffled`: `ReadPermutation` |
| -K does not keep a file with errors over the next repetition, which removes it first | `TestIoSys`, `keepFileWithError`, two repetitions: `ErrorFilesSurvive` |
| -T ends a repetition within its phases | `TestIoSys`, `TimeLimit = TRUE`: `TestsAreWhole` |
| `minTimeDuration` above -D with -l repeats transfers and reaches segment -1 | `StoneWall`, `LongMinimum`: `InOrder` |
| A status file without a number: rank 0 returns without the broadcast the others wait in | `Mdtest`, `BadStatus`: `Ends` |
| -W with several iterations: the number of items differs | `Mdtest`, `Repeated`: `SameNumber` |
| -W also cuts the creation of directories, after which nobody agrees on their number | `Mdtest`, `WithDirectories`: `NothingMissed` |
| mdtest -l below the number of processes: those without a test wait for ever | `Mdtest`, `FewerTasks`: `Ends` |
| HDF5 -R opens and closes data sets by `firstReadCheck`, which comes uninitialised from malloc and is toggled at each call, although there is one call per read check | `Layout`, `Checked`: `ReadBack` |
| IME, CEPHFS, S3 on a shared file: every rank truncates; only the barrier of -g saves what another has written | `Backends`, `AllTruncate`: `NothingTruncated` |
| MMAP with a file per process: `aiori-MMAP.c:139` gives each file the size of all of them (`ior.c:893`), and the sizes of the files add up to N times the data | `Backends`, a job with api MMAP and `filePerProc`: `SizeIsRight` |
| CEPHFS with a file per process: `CEPHFS_GetFileSize` (`aiori-CEPHFS.c:336`) adds up the sizes that `CheckFileSize` adds up again, and the sum is N times too large | `Backends`, a job with api CEPHFS and `filePerProc`: `SizeIsRight` |
| MPIIO counts `sizeof` a handle per integer: where a handle is not as large as an integer (Open MPI), full transfers look partial and half of one looks full | `Backends`, a job with `bytes = 2`: `GivesUpForAReason`, `ReadBack` |
| After a short transfer IME and DFS (reading) go on at the same offset, GFARM asks for the whole length again; S3 reports a failed one as whole | `Backends`, such a job with `short` or `fails`: `ReadBack` |
| DFS, a shared file: rank 0 that cannot look the file up returns from `DFS_GetFileSize` (`aiori-DFS.c:888`) before the Bcast the others wait in | `Backends`, `LookupLost`: `Finishes` |
| DFS: rank 0 that cannot make a handle for the others leaves `HandleDistribute` (`aiori-DFS.c:273`) before one or both Bcasts; nobody asks for its result in `DFS_Init` | `Backends`, `HandleLost`: `Finishes` |
| AIO, with `summaryFormat=JSON`: each rank prints a number on standard output (`aiori-aio.c:87`), beside or inside the one document that `src/instruction.md:107-112` asks for | `Driver`, `Apis` and `Talkative` {"AIO"}, `Scripts <- Single`: `OneDocument` |
| -v, with `summaryFormat=JSON`: `PrintShortSummary` (`ior-output.c:708`) closes the array that `PrintRepeatEnd` has closed, and "Participating tasks" (`ior.c:1166`) is a plain line in the document | `Driver`, `Scripts <- SingleVerbose`: `OneDocument` |
| A backend without `statfs`, with `summaryFormat=JSON`: a warning is a plain line in the document (`utilities.c:844`) | `Driver`, `NoStatfs = Apis`, `Scripts <- Single`: `OneDocument` |
| md-workbench --start-item above 0: precreation starts there, and objects are missing | `MdWorkbench`, `StartItem = 1`: `NothingMissed` |

## What is proved

Eight modules hold proofs.  A theorem about a component is for every value of its
constants that satisfies the `ASSUME` of the module and the hypotheses the theorem
states; without each of these hypotheses TLC finds one of the properties violated, or a
test that hangs, as said below.  The inductive invariants were given to TLC, on small instances, before
they were proved.

| Module | Theorem | Property | Hypotheses |
|---|---|---|---|
| `AioProofs` | `Invariance`, `TypeCorrect` | (the invariant, types) | `Gentle` |
| | `NoOverWait`, `NoEagain`, `InFlightIsExact`, `FlushIsHonest` | `WaitsAreMet`, `ContextNeverFull`, `InFlightExact`, `FlushVouches` | `Gentle` |
| | `KeepsPromise` | `PromiseKept` (refinement) | `Gentle` |
| | `FileIsIntact` (`AioBuffer`) | `FileIntact` | `WriteAndCheck`, -Y |
| | `LoopKeepsPromise` (`AioBuffer`) | `PromiseKept`, for the composition | `Gentle` |
| `TestIoSysProofs` | `TestInvariant` | (the invariant) | `WholeTests` |
| | `NoRankAborts`, `ErrorsAreOfTheFiles` | `NeverAborts`, `ErrorsAreReal` | `WholeTests` |
| | `OpenFilesStay`, `ErrorFilesStay` | `NoRemovalWhileOpen`, `ErrorFilesKept` (actions) | `WholeTests` |
| | `NothingIsLeft` | `NothingLeft` | `WholeTests`, `InTurns` |
| `StoneWallProofs` | `StoneWallInvariant` | (the invariant) | `UsualTests` |
| | `StoneWallCollectivesMatch`, `TransfersInOrder`, `WearOutIsEqual` | `CollectivesMatch`, `InOrder`, `EqualWork` | `UsualTests` |
| | `ReadPhaseFindsData` | `ReadsWritten` | `UsualTests`, `SafeShift` |
| `BackendsProofs` | `BackendsInvariant` | (the invariant) | `DaosAnswers` |
| | `ContainerGoesLast` | `ContainerOutlivesUse` | `DaosAnswers` |
| | `NobodyTruncates` | `NothingTruncated` (action) | `DaosAnswers`, `TruncatersWait` |
| | `WhatIsReadWasWritten` | `ReadBack` | `DaosAnswers`, `TruncatersWait`, `HandlesAreIntegers`, `StorageSuits` |
| | `GivesUpOnlyForAReason` | `GivesUpForAReason` | `DaosAnswers`, `TruncatersWait`, `HandlesAreIntegers` |
| | `EveryRankKnowsTheSize` | `SizeIsRight` | `DaosAnswers`, `TruncatersWait`, `HandlesAreIntegers`, `StorageSuits`, `FilesAddUp` |
| `LayoutProofs` | `LayoutInvariant` | (the invariant) | `SensibleJobs` |
| | `TransfersAreReadBack` | `ReadBack` | `SensibleJobs` |
| | `StopsForAReason` | `GivesUpForAReason` | `SensibleJobs` |
| `MdWorkbenchProofs` | `WorkbenchInvariant` | (the invariant, with `Careful`) | `Usable` |
| | `NothingIsMissed`, `DataSetsAreWindows` | `NothingMissed`, `Window` | `Usable` |
| | `NextRunFindsTheSet`, `CleanupIsComplete` | `Resumable`, `CleanedUp` | `Usable` |
| `DriverProofs` | `OptionsAreAsWritten` | `OptionsAsWritten` | |
| | `RanksAgreeOnNodes` | `NodesAgree` | |

`MpiProofs` has the lemmas about collectives and ranks that `TestIoSysProofs`,
`StoneWallProofs`, `BackendsProofs`, `LayoutProofs`, `MdWorkbenchProofs` and
`DriverProofs` share: what a call adds, what the return from one means, that an
Allreduce gives the largest value or the sum, that a rotation of the ranks reaches all of
them.  What a fold over the ranks adds up is proved by unfolding it to a function on
sets of ranks, and by taking a smallest set for which the claim fails.
In each module there is a lemma per operator, and one per action or group of actions
and part of the invariant.

### The AIO backend

For every `MaxPending >= 8`, `Granularity` in `1..MaxPending`, `Length > 0` and any
number of requests, under `Gentle`: the kernel neither interrupts `io_getevents` nor
reports `res2`.  Both halves are needed: the first two rows of *Known deviations* are
what happens without.  `WaitsAreMet` and `FlushVouches` are not inductive.  `IInv`
adds to them

- *Custody*: the array holds the last requests, the kernel and `events[]` the
  ones before that are not accounted for, without overlap;
- *Places*: what `in_flight` and the array can be at each point of the code;
- *Rhythm*: if the context has less room than `2 * Granularity - 1`, the
  kernel holds nothing or exactly one batch.  This is why `process_some`, which
  counts requests still in the array as in flight, never waits for more than
  were submitted: `in_flight = MaxPending` with fewer than `Granularity` in the
  array leaves at least one in the kernel, hence a whole batch;
- *Ledger*: `pending_bytes` is at least the bytes of the requests not yet
  handled, with equality only if all handled ones landed.  This is why short
  and failed completions, summed with full ones, never cancel out;
- *Results*: no completion reports more than the request's length.  This is the
  kernel's contract; a kernel that reported more could cancel a short completion.

`AioBuffer` extends `Aio`, and `LoopUsesBackend` shows that the loop takes only steps
of `Aio`, so all of this holds above it.  `LoopInv` adds that with -Y at most one
transfer has not landed, and the buffer still holds its pattern.  Run
`aio_buffer_reuse` is what happens without -Y.  `WriteAndCheck` only says what the module
models: no more checks than writes, and a kernel without faults, those being the subject
of `Aio`.

### A test

Nothing but collectives orders the ranks, so the invariant `TestInv` is about what a
rank can know of the others.

- *CallInv*: the calls of a rank in its present repetition are a function of its place
  (`Due`), and it has made `Base` calls in the repetitions before.
- *RepInv*: two ranks are in the same repetition, from the same `Base`, or one has
  still to leave the last barrier of the one before.  `Met` says, place by place, how
  many calls a rank knows that all have made; a call that only rank 0 waits in (Bcast,
  Reduce) adds nothing to it.  From this `AllThere`: who goes on from a barrier has
  everybody behind that call of the same repetition.
- *AgreeInv*: ranks that have the results of the same checks have the same
  `errorFound`, and who has one result less is just about to get it.  This is why all
  ranks decide alike between removal and -K, hence call the same collectives.  *BadInv*:
  a rank that checked a wrong block knows it.
- *FileInv*, *BlockInv*: from its creation to the first removal of the repetition
  (`Intact`) a file is there, with the contents of this repetition unless the file
  system got it wrong.  *GoneInv*: what a rank has removed is not there again.
- *PlaceInv*, *TargetInv*, *ErrorInv*: phases, offsets, names and errors of one rank.

`NoRankAborts`, `OpenFilesStay` and `ErrorsAreOfTheFiles` then follow from where the
barriers are; `NothingIsLeft` and `ErrorFilesStay` also need that the offset of -C,
modulo the number of ranks, leads to every rank (`RotationReachesAll`).

`WholeTests` leaves out -T, with which every rank follows its own clock and may leave
out a phase that others do not: with `TimeLimit = TRUE` TLC finds `NeverAborts`,
`ErrorsAreReal`, `NoRemovalWhileOpen` and `ErrorFilesKept` violated.  It also leaves
out tests that do not write, have several repetitions and no -k: the first repetition
removes their input.  `InTurns` leaves out -Z -Z with a file per process, where two
ranks read and remove the same file and another stays.

### The transfer loop

`SWInv` has for one rank

- *LoopInv*: how `i` and `j` relate to the number of transfers at each place of the
  nested loops, in particular after a cut (`CutShort`) and where `LastPass` and `Rest`
  take the loops up; *HistoryInv*: the transfers so far are `Pair(1)`, `Pair(2)`, ...;
- *WorkInv*: how much is to be done: what `pairs_accessed` and `iterations` bound;
- *CallsInv*, *GridInv*: which calls the rank has made in this phase, one Bcast per
  collective transfer and then `Closing`;

and for all of them *PhasesInv* (the same phase from the same `Base`, or one has still
to leave the barrier in between), *VotesInv* (with collective transfers rank 0 voted
"no" before each transfer, and a rank stops at what it said last, so that by
`LongestWins` no two ranks stop after unlike numbers), *ReductionInv* (what an Allreduce
of -l has given) and *RecordInv* (all take the same number to the read phase).

`UsualTests` leaves out --random-prefill (run `stonewall_prefill`: its barrier is not
called by a rank without an offset), collective transfers of ranks with unlike numbers
of offsets, which call unlike numbers of Bcasts, and a `minTimeDuration` above the
deadline, which makes `InOrder` fail with -l (*Known deviations*).  `SafeShift` says when
-C is safe for the read phase: the ranks have the same number of offsets and have
done the same work (-l, or collective transfers).

### The backends

Each backend has collectives of its own in opening, transferring, sizing and closing.
`CallInv` says that all the same the calls a rank has made and those it has ahead
are a function of its place and the command line (`Due`), that it is in a place its
backend leads to (`Reachable`), and what the last of them is where it matters
(`Awaited`).  A rank that goes on from a barrier therefore knows how many calls all
have made, and one that goes on from a Bcast knows it of rank 0.

- `ContainerGoesLast`: the call before `daos_cont_destroy` is a barrier, and who has
  called it is past `daos_cont_close` (`AllHaveClosed`).
- `NobodyTruncates`: `FileInv` adds that, where something has been written in a file,
  those who truncate it are past that (`Settled`): the rank itself for a file of its
  own, rank 0 behind its barrier (HDFS) or Bcast (MPIIO), all ranks behind the barrier of
  -g (IME, CEPHFS, S3: the hypothesis `TruncatersWait`; without it the property fails, see
  *Known deviations*).  A rank that writes knows this (`WritingKnows`) and nobody
  begins again (`SettledStays`).  What MMAP extends is never shorter than what was
  written (`BoundKeeps`), and a transfer that is retried stays within its part
  (`MovedKeeps`).
- `WhatIsReadWasWritten`: `DataInv` adds what is where.  The units a rank has written
  (`Amount`) are at their place in its file until one has been removed (`PartInv`):
  creating does not wipe them out, and the parts of two ranks in one file do not meet
  (`PartsApart`).  A transfer goes on where it has come to, in the file and in the buffer
  (`GoesOnWhere`, from `ProgressInv`), and `xfer` reports a whole one only if it was
  (`AnswerMeans`, by backend).  Who opens to read knows that all have written, and
  nobody removes before all have read (`OpenKnown`, `RemoveKnown`, from the barriers),
  so what the rank reads is there (`ReaderHasData`, `GotInv`).
- `GivesUpOnlyForAReason`: the places where the code gives up, one by one.  The file that
  is made with O_EXCL or by PMDK is not there (`FreshInv`), the one that a rank opens
  after rank 0 is (`LateCreateSucceeds`), and a storage that moves all is never taken for
  one that does not (`MoveSucceeds`).

- `EveryRankKnowsTheSize`: no file is longer than what the ranks put there (`BoundInv`,
  once remains of an earlier test have been removed), and when a rank asks all have
  written and closed, so a file ends where the last part ends (`FilesAreFull`).  What a
  rank has told the others, and by which call, is a function of the calls it has made
  (`Least`, `Tells`): CEPHFS adds up in a call of its own before that of
  `CheckFileSize`, and MPIIO and DFS ask rank 0 alone on a shared file.  What is added up
  or compared is then the same from every rank (`SumOfEquals`).

The hypotheses are about the command line and the storage: that DAOS fails no rank alone
(`DaosAnswers`: handles can be shared, and only a file of a rank's own may be lost), as rank
0 leaves calls out then that the others make, and `Due` is no longer what a rank has
called; -g for the three backends
in which every rank truncates (`TruncatersWait`), MPI handles as large as an integer
(`HandlesAreIntegers`), and for `ReadBack` no short transfers with IME, DFS and GFARM,
which do not ask for the rest where it is, and no failures with S3, which reports them
as whole transfers (`StorageSuits`).  `SizeIsRight` also asks that a file per process
is neither of MMAP nor of CEPHFS (`FilesAddUp`, *Known deviations*).  The jobs of run `backends` satisfy them.  Each is
needed: without it TLC finds the property violated, or with `DaosAnswers` the invariant
and `Finishes`.

### The layouts

Six ways to compute where a transfer goes, each from what the transfers before it have
left behind.  The proof has three parts.

- *When.*  `CountInv` says that the collectives a rank has made follow from the
  repetition, its place and the number of its transfers (`Due`, and `AllXferCalls` for
  what the transfers of each library add).  `LastInv` says what the last of them is
  between the phases, and `MetInv` what all ranks have called when one is in some place.
  So while one reads, all are in its repetition and have closed what they wrote
  (`AllHaveClosed`), and nobody opens a new one before.
- *Where.*  `Cells` gives the cells of a file that a transfer goes to by its number alone,
  without the handle: a row and a column in HDF5 and NetCDF, an offset in a view, the
  same block of each segment in a strided datatype.  `HDF5Inv` and `NCMPIInv` say what the handle
  remembers, from which the code finds the same cell, and no two transfers of the ranks
  that share a file have a cell in common (`CellsApart`).  Then `DataInv`: what a rank
  has stored is there, until the repetition of who removes it is over.
- *Uploads.*  `PartInv` and `EtagInv`: the parts that the server has of a rank, and the
  etags in its buffer, are those of its transfers in this repetition.  `TellInv`: what
  each has told rank 0 of them.  The list that rank 0 asks for, segmented or strided, is
  then in the order of the part numbers and has each part once (`OrderedIs`), and part
  `k` is the transfer at offset `k` (`PartIsOffset`).

`SensibleJobs` leaves out what does not work, and each of its conditions is needed:
without it TLC finds one of the two properties violated, or the test hangs.  HDF5 with -R
finds no data set; NetCDF with -C reads its own row, and with -R but without -c fails in
the second repetition; -R checks segments that the strided datatype only pretends to read,
in a file of one's own it writes over other segments, and with -C its ranks do not call
the same collectives; EMC on a shared object needs the barriers of -g.  With a deadline
nothing is read, and nothing is excluded.  The jobs of run `layout` satisfy it.

### md-workbench

Within an iteration nothing orders the ranks, and an object of data set `n` of rank `q`
is created by one rank and removed by another, neither of which need be `q`.  The proof
is about one `Offset`, data set and owner at a time:

- *One reader, one writer.*  The rotations of the ranks by `Offset * (n + 1)` and back are
  inverse (`Remainder`, `ThereAndBack`, `OneReaderOneWriter`), so the set is a FIFO from
  `Bottom`, what its reader has taken, to `Top`, what its writer has put there.
  *Storage* says that it is exactly that, and that the only objects not written in full
  are those whose writer is between `Create` and `Write`.
- *Nobody overtakes.*  A rank looks for the object `f` after the one it started from, with
  `f < num <= precreate` (`PlanType`; the program warns otherwise).  It is there, whatever its writer has done
  in this iteration, if all that was put there in the iterations before is: if reader and
  writer count from the same index.  *Together*: two ranks that have completed equally
  many iterations have the same position, and otherwise one is at the end of the
  iteration the other is still in (`Follows`), with the position that the other will
  reach.  *BegunTogether*: who has begun a round has left the barrier of the iteration,
  so everybody is in it or at its end (`AllIn`).  From these, `OldIsThere`: what a rank
  looks for is in the window and is not being written.
- *Equally many rounds.*  With -w each rank may be stopped in another round.  *Outvoted*:
  who knows the result of the Allreduce of -W does that many rounds, whether it was
  stopped (`WearOut`) or has finished and joins from `RoundsDone`; its own vote was no
  larger (*Votes*), and results of one call are equal (`OneResult`).  `f == total_num` in
  the middle of the wear-out never happens, as `WearOut`'s comment says.
- *Local*: the calls a rank has made are a function of its place and of the iterations it
  has completed (`Due`, `CallsBefore`).  This is what makes the k-th call of one rank the
  k-th of the other, although a phase ends with one reduction or with two.
- *CreatedTogether*, *Stored*: the benchmark and the cleanup begin when every rank has
  created its sets, and the stored position changes only when all have read it.

In the end all windows are full (`WindowsAreFull`): from one position to `precreate`
objects further.  This is what a later run reads from the status file, and what
`run_cleanup` removes by number.  `NextRunKeeps` takes the invariant from one run to the
next, so the theorems are about sequences of runs of any length.

`Careful`, in the properties themselves, asks for -W with -w: without it the program
warns of process-specific progress.  `Usable` asks for runs that make sense one after
another: the working set is created by the first run and after each one that has removed
it, and not where it already is.  TLC finds `Window` violated if a first run has only
-2, or a run has -2 after one with -3, and `NothingMissed` if two runs create the set.
It also leaves out --start-item (*Known deviations*).

### Options

`ParserInv` says that while a script is read the last test and the last structures of
each backend are what the script has said so far, although an append copies some of
them and shares others, and that the finished tests are those at their RUN lines.  The
options of the earlier tests' backends are not as written (run `driver_options`).

### The nodes

Before the first test every rank takes part in five collectives about the nodes and in
three for each test, and rank 0 says in the last of these what rank 1 has told it.
`NodesInv` numbers them: where a rank is says how many it has made (`Due`), and what it
has passed in the 2nd, the 4th and the last two of each test is what it should be
(`Fits`).  What an Allreduce adds up is then one for the first rank of each node, and
these are as many as the nodes (`NodesHaveFirsts`), or the number of rank 0 and zeros
(`SumOfOne`).  Rank 0 leaves the Gather when rank 1 has called it (`Rank1HasSaid`), and
nobody leaves the Bcast before rank 0 has (`Rank0HasSaid`).  No hypothesis.

### Only model-checked

- Liveness: `CallsReturn`, `Finishes`, `Ends`.  Fairness and ENABLED are out of the
  reach of the prover.
- `OutputComplete` of `Driver`: the document is put together by the recursive `FlattenSeq`,
  and the prover can say nothing of what a recursive operator computes.
- The properties of `Mdtest`.  They are about trees whose size is a power of the
  branching factor and whose paths are a recursive function, so that nearly every step
  of a proof would be an induction over the tree.

## What is not modelled

- The hints, timers and result arithmetic of the driver, the order of random
  offsets, the data of the prefill; `maxTimeDuration` together with the
  properties of run `test`.
- `ior_run`, the entry point for programs that link IOR; the CSV and plain
  output, and statistics.
- What else is printed on standard output beside the JSON document: warnings of a test,
  the lines of -v after the first and of the wear-out; the escaping of strings, and
  `summaryFile`, with which the document goes elsewhere.
- -D with -C but without -l: the ranks write different amounts and a rank reads
  the block of another, so unwritten data is read; the run gives -C only with
  -l.
- `aio.granularity` 0, which `aio_check_params` accepts: the first transfer
  writes past the array.
- The times, statistics, data patterns and waiting of md-workbench and mdtest,
  and md-workbench's array of results, which is sized for seven benchmark runs
  per iteration although -T does eight; a benchmark that is killed.
- mdtest's -B, whose validation always fails; -u with -N below depth 0; -R and
  -W with several loops; -c with -u or -W; -S with -X.  Names do not match in
  these, so that nothing is left to check.
- HDF5 -D without -c and with several segments, which hangs; -z with objects
  per process on S3, where the offset is ignored.
- Directories, options and connections of storage clients; the S3_plus flavour;
  range locks and hints of parallel file systems; GPU transfers.
- Memory patterns, units, hints and clocks of `utilities.c`.
- Build files, scripts and tests have no state.

Read with the models beside them, a few places are worth knowing although no
property is about them.  `ior_main` never resets `totalErrorCount`, and the exit status is that count
modulo 256 (`ior.c:249`).  `DistributeHints` gives `putenv` an array on its
stack (`ior.c:540`).  POSIX, IME, Gfarm, CHFS and FINCHFS return NULL from create in a
dry run, at which `TestIoSys` fails (`ior.c:1259`).  The shared writes of HDFS ignore
the offset.  `MPIIO_Fsync` is collective and would hang if ranks wrote unlike
numbers of transfers.  `useStridedDatatype` tells its own transfers by the rank, not by the one it
stands for (`aiori-MPIIO.c:471`), and a test with -C hangs.  A row of NetCDF ignores
`rankOffset`, so that -C reads the rank's own data.

## Plan

1. Proofs: the names and numbers of `Mdtest`, whose ranks meet in barriers like those of
   `MdWorkbench`.
2. Memory patterns of `utilities.c` against a reference definition; the ranges
   that `POSIX_Xfer` locks, and leaves locked at its early returns.
3. `ior_run`, and directory operations of the backends that mdtest uses.
