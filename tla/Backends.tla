------------------------------ MODULE Backends ------------------------------
(***************************************************************************)
(* The backends that address a file by offset (aiori-*.c), under the part   *)
(* of a test that uses them: remove what is left, create, write, close,     *)
(* check the size, read what another rank has written, remove.  Each rank   *)
(* makes one transfer of Length units; the storage may move fewer or fail.  *)
(* What differs between the backends is who creates and who truncates, how  *)
(* the ranks wait for each other, and what a transfer does when it is short. *)
(***************************************************************************)
EXTENDS Mpi, FiniteSets, FiniteSetsExt, Functions

CONSTANTS
    Jobs,        \* what the command lines and the storage may be
    Length,      \* units in a transfer
    MAX_RETRY    \* 10000 in the code

Apis == {"POSIX", "MPIIO", "HDFS", "IME", "DFS", "GFARM", "CHFS", "FINCHFS",
         "CEPHFS", "MMAP", "PMDK", "DUMMY", "RADOS", "S3"}

\* striping: Lustre options are given.  bytes: sizeof(MPI_BYTE) in integers.
\* The rest is the storage: short, it may move less than it is asked to;
\* fails, a transfer may fail; leftover, files of an earlier run are there.
\* Of DAOS: lost, it may fail to look a file up or to open it; unshared, it may
\* fail to make a handle for the other ranks.
JobType == [api : Apis, filePerProc : BOOLEAN, collective : BOOLEAN,
            singleXferAttempt : BOOLEAN, fsyncPerWrite : BOOLEAN,
            intraTestBarriers : BOOLEAN, dryRun : BOOLEAN, striping : BOOLEAN,
            destroy : BOOLEAN, bytes : {1, 2},
            short : BOOLEAN, fails : BOOLEAN, leftover : BOOLEAN,
            lost : BOOLEAN, unshared : BOOLEAN]

ASSUME BackendsAssumption ==
    /\ Jobs \subseteq JobType
    /\ Length \in Nat \ {0}
    /\ MAX_RETRY \in Nat

VARIABLES
    job,
    at,        \* where each rank is
    ahead,     \* collectives a rank has to make before it goes on
    files,     \* the files that exist: what is in each unit
    moved, xferRetries,   \* of the transfer a rank is in
    got,       \* what the rank has read into its buffer
    size,      \* the file size a rank has been told
    dfs,       \* what a rank has open of DAOS
    destroyed, \* is the container of DAOS removed
    stopped    \* has somebody called MPI_Abort or exit

transfer == <<moved, xferRetries, got>>
daos == <<dfs, destroyed>>
vars == <<job, at, calls, ahead, files, transfer, size, daos, stopped>>

\* The others write, read and remove in a dry run as well.
NullInDryRun == {"POSIX", "IME", "GFARM", "CHFS", "FINCHFS"}
Dry == job.dryRun /\ job.api \in NullInDryRun \cup {"MMAP", "MPIIO"}

FileOf(r) == IF job.filePerProc THEN r ELSE 0

\* Where the transfer of rank r starts in its file.
offset(r) == IF job.filePerProc THEN 0 ELSE r * Length

expectedAggFileSize == N * Length

\* Reading, a rank takes the place of the next one (reorderTasks).
Pretend(r) == (r + 1) % N

\* What unit k of the buffer holds that rank r writes from; there is
\* something else behind the buffer.
Hole == 0
Beyond == -1
Data(r, k) == IF k < Length THEN 1 + r * Length + k ELSE Beyond

EmptyFile == [u \in {} |-> Hole]
OldFile == [u \in 0..(expectedAggFileSize - 1) |-> Beyond]
Exists(f) == f \in DOMAIN files
FileSize(f) == IF Exists(f) THEN Cardinality(DOMAIN files[f]) ELSE 0

With(f, content) == [g \in DOMAIN files \cup {f} |-> IF g = f THEN content ELSE files[g]]
Made(f) == IF Exists(f) THEN files ELSE With(f, EmptyFile)
Truncated(f) == With(f, EmptyFile)
Without(f) == Restrict(files, DOMAIN files \ {f})

\* Units first..(first + n - 1) of the file set to what follows unit k of the
\* buffer of r; the file may have been removed under its writer.
Stored(f, first, n, r, k) ==
    LET new == first..(first + n - 1)
        old == DOMAIN files[f]
        end == Max(new \cup old)
    IN IF n <= 0 \/ ~Exists(f) THEN files
       ELSE With(f, [u \in 0..end |->
                        IF u \in new THEN Data(r, k + u - first)
                        ELSE IF u \in old THEN files[f][u] ELSE Hole])

Init ==
    /\ job \in Jobs
    /\ at = [r \in Ranks |-> "initialize"]
    /\ calls = NoCalls
    /\ ahead = [r \in Ranks |-> << >>]
    /\ files = [f \in IF job.leftover THEN {FileOf(r) : r \in Ranks} ELSE {} |-> OldFile]
    /\ moved = [r \in Ranks |-> 0]
    /\ xferRetries = [r \in Ranks |-> 0]
    /\ got = [r \in Ranks |-> [k \in 0..(Length - 1) |-> Hole]]
    /\ size = [r \in Ranks |-> 0]
    /\ dfs = [r \in Ranks |-> "none"]
    /\ destroyed = FALSE
    /\ stopped = FALSE
-----------------------------------------------------------------------------
At(r, place) == ~stopped /\ at[r] = place /\ ahead[r] = << >> /\ Ready(r)

Go(r, place) == at' = [at EXCEPT ![r] = place]

\* Go on to a place after some collectives.
GoAfter(r, ops, place) == Go(r, place) /\ ahead' = [ahead EXCEPT ![r] = ops] /\ UNCHANGED calls

ERR == stopped' = TRUE /\ UNCHANGED <<at, ahead, calls>>

\* The collectives of a communicator: nobody is in the one of MPI_COMM_SELF.
OnTestComm(ops) == IF job.filePerProc THEN << >> ELSE ops

Collective(r) ==
    /\ ~stopped /\ ahead[r] # << >> /\ Ready(r)
    /\ Call(r, Head(ahead[r]))
    /\ ahead' = [ahead EXCEPT ![r] = Tail(@)]
    /\ UNCHANGED <<job, at, files, transfer, size, daos, stopped>>
-----------------------------------------------------------------------------
(* DAOS: rank 0 connects, which works or ends the program, and hands its     *)
(* handles to the others, who can use what they get.                       *)

\* The size of the handle and the handle.  Rank 0 goes on without the rest when
\* it cannot make them.
HandleDistribute(r) ==
    {SubSeq(<<"Bcast", "Bcast">>, 1, k) : k \in IF r = 0 /\ job.unshared THEN 0..2 ELSE {2}}

\* Nobody asks whether that has worked.
DFS_Init(r) ==
    /\ \E pool, cont, mount \in HandleDistribute(r) :
          GoAfter(r, pool \o cont \o mount, "remove_old")
    /\ dfs' = [dfs EXCEPT ![r] = "container"]

initialize(r) ==
    /\ At(r, "initialize")
    /\ \/ job.api = "DFS" /\ DFS_Init(r)
       \/ job.api # "DFS" /\ GoAfter(r, << >>, "remove_old") /\ UNCHANGED dfs
    /\ UNCHANGED <<job, files, transfer, size, destroyed, stopped>>

\* A barrier, the namespace is unmounted, two more barriers around that.
DFS_Finalize(r) == GoAfter(r, <<"Barrier", "Barrier", "Barrier">>, "cont_close")

\* Mutant: the barrier after daos_cont_close is left out.
M_cont_close(r) ==
    /\ At(r, "cont_close")
    /\ dfs' = [dfs EXCEPT ![r] = "pool"]
    /\ GoAfter(r, << >>, "destroy")
    /\ UNCHANGED <<job, files, transfer, size, destroyed, stopped>>

cont_close(r) ==
    /\ At(r, "cont_close")
    /\ dfs' = [dfs EXCEPT ![r] = "pool"]
    /\ GoAfter(r, <<"Barrier">>, "destroy")
    /\ UNCHANGED <<job, files, transfer, size, destroyed, stopped>>

cont_destroy(r) ==
    /\ At(r, "destroy")
    /\ destroyed' = (destroyed \/ (job.destroy /\ r = 0))
    /\ GoAfter(r, IF job.destroy THEN <<"Bcast">> ELSE << >>, "disconnect")
    /\ UNCHANGED <<job, files, transfer, size, dfs, stopped>>

pool_disconnect(r) ==
    /\ At(r, "disconnect")
    /\ dfs' = [dfs EXCEPT ![r] = "disconnected"]
    /\ GoAfter(r, <<"Barrier">>, "done")
    /\ UNCHANGED <<job, files, transfer, size, destroyed, stopped>>
-----------------------------------------------------------------------------
(* Creating the file: IOR_WRONLY | IOR_CREAT | IOR_TRUNC.                  *)

\* Mutant: no barrier between removing and creating.
M_RemoveOld(r) ==
    /\ At(r, "remove_old")
    /\ files' = IF (job.filePerProc \/ r = 0) /\ ~Dry THEN Without(FileOf(r)) ELSE files
    /\ GoAfter(r, << >>, "create")
    /\ UNCHANGED <<job, transfer, size, daos, stopped>>

\* Without useExistingTestFile.
RemoveOld(r) ==
    /\ At(r, "remove_old")
    /\ files' = IF (job.filePerProc \/ r = 0) /\ ~Dry THEN Without(FileOf(r)) ELSE files
    /\ GoAfter(r, <<"Barrier">>, "create")
    /\ UNCHANGED <<job, transfer, size, daos, stopped>>

\* Only with -g are there barriers between opening, writing and closing.
AfterCreate == IF job.intraTestBarriers THEN <<"Barrier">> ELSE << >>

Created(r, newFiles) == files' = newFiles /\ GoAfter(r, AfterCreate, "write") /\ UNCHANGED stopped

\* The others have to wait for rank 0, which calls ops when it is done.
CreatedFirst(r, newFiles, ops) ==
    files' = newFiles /\ GoAfter(r, ops \o AfterCreate, "write") /\ UNCHANGED stopped

CreateLater(r, ops) == GoAfter(r, ops, "late_create") /\ UNCHANGED <<files, stopped>>

CannotCreate == ERR /\ UNCHANGED files

\* O_CREAT; with Lustre options O_EXCL, in a shared file by rank 0 alone.
POSIX_Create(r) ==
    \/ ~job.striping /\ Created(r, Made(FileOf(r)))
    \/ /\ job.striping /\ (job.filePerProc \/ r = 0)
       /\ IF Exists(FileOf(r)) THEN CannotCreate
          ELSE CreatedFirst(r, Made(FileOf(r)), OnTestComm(<<"Barrier">>))
    \/ job.striping /\ ~job.filePerProc /\ r # 0 /\ CreateLater(r, <<"Barrier">>)

\* POSIX_Create, then ftruncate to the size of all files together.
MMAP_Create(r) ==
    IF Dry THEN CannotCreate
    ELSE Created(r, With(FileOf(r),
                [u \in 0..(expectedAggFileSize - 1) |->
                    IF Exists(FileOf(r)) /\ u \in DOMAIN files[FileOf(r)]
                    THEN files[FileOf(r)][u] ELSE Hole]))

\* MPI_File_open and MPI_File_set_size are collective.
MPIIO_Open(r) ==
    IF Dry THEN Created(r, files)
    ELSE IF job.filePerProc THEN Created(r, Truncated(r))
    ELSE /\ files' = Made(0)
         /\ GoAfter(r, <<"Allreduce">>, "late_create") /\ UNCHANGED stopped

\* Mutant: all ranks truncate and nobody waits.
M_HDFS_Create_Or_Open(r) == Created(r, Truncated(FileOf(r)))

\* Rank 0 truncates before the others have the file open.
HDFS_Create_Or_Open(r) ==
    IF job.filePerProc THEN Created(r, Truncated(r))
    ELSE IF r = 0 THEN CreatedFirst(r, Truncated(0), <<"Barrier">>)
    ELSE CreateLater(r, <<"Barrier">>)

IME_Open(r) == Created(r, Truncated(FileOf(r)))
CEPHFS_Open(r) == Created(r, Truncated(FileOf(r)))

\* An empty object over what is there.
S3_Create(r) == Created(r, Truncated(FileOf(r)))

Gfarm_create(r) == Created(r, Made(FileOf(r)))
CHFS_create(r) == Created(r, Made(FileOf(r)))
FINCHFS_create(r) == Created(r, Made(FileOf(r)))

\* LIBRADOS_CREATE_IDEMPOTENT
RADOS_Create_Or_Open(r) == Created(r, Made(FileOf(r)))

share_file_handle(r) == {OnTestComm(ops) : ops \in HandleDistribute(r)}

\* Only who opens the file itself can fail to find it.
LookupFails(r) == job.lost /\ (job.filePerProc \/ r = 0)

DFS_Create(r) ==
    \/ \E ops \in share_file_handle(r) :
          CreatedFirst(r, IF job.filePerProc \/ r = 0 THEN Made(FileOf(r)) ELSE files, ops)
    \/ LookupFails(r) /\ CannotCreate

PMDK_Create(r) ==
    IF ~job.filePerProc \/ Exists(r) THEN CannotCreate
    ELSE Created(r, With(r, [u \in 0..(Length - 1) |-> Hole]))

DUMMY_Create(r) == Created(r, files)

\* TestIoSys gives up when it gets NULL.
create(r) ==
    /\ At(r, "create")
    /\ IF Dry /\ job.api \in NullInDryRun THEN CannotCreate
       ELSE \/ job.api = "POSIX" /\ POSIX_Create(r)
            \/ job.api = "MMAP" /\ MMAP_Create(r)
            \/ job.api = "MPIIO" /\ MPIIO_Open(r)
            \/ job.api = "HDFS" /\ HDFS_Create_Or_Open(r)
            \/ job.api = "IME" /\ IME_Open(r)
            \/ job.api = "CEPHFS" /\ CEPHFS_Open(r)
            \/ job.api = "S3" /\ S3_Create(r)
            \/ job.api = "GFARM" /\ Gfarm_create(r)
            \/ job.api = "CHFS" /\ CHFS_create(r)
            \/ job.api = "FINCHFS" /\ FINCHFS_create(r)
            \/ job.api = "RADOS" /\ RADOS_Create_Or_Open(r)
            \/ job.api = "DFS" /\ DFS_Create(r)
            \/ job.api = "PMDK" /\ PMDK_Create(r)
            \/ job.api = "DUMMY" /\ DUMMY_Create(r)
    /\ UNCHANGED <<job, transfer, size, daos>>

\* What is left to do after the first collective.
LateCreate(r) ==
    /\ At(r, "late_create")
    /\ \/ job.api = "MPIIO" /\ CreatedFirst(r, IF r = 0 THEN Truncated(0) ELSE files, <<"Bcast">>)
       \/ job.api = "HDFS" /\ Created(r, Made(0))
       \/ /\ job.api = "POSIX"
          /\ IF Exists(0) THEN Created(r, files) ELSE CannotCreate
    /\ UNCHANGED <<job, transfer, size, daos>>
-----------------------------------------------------------------------------
(* Transfers.  An xfer is the answer to a storage that has moved n of the   *)
(* left units it was asked for, -1 if that failed: it asks "again", reports *)
(* the "whole" transfer, or the rank will "stop".                           *)

TooMany(retries) == retries > MAX_RETRY \/ job.singleXferAttempt

Retry(n, left, retries) ==
    IF n = left THEN "whole" ELSE IF TooMany(retries) THEN "stop" ELSE "again"

AllOrStop(n, left) == IF n = left THEN "whole" ELSE "stop"

\* Reading nothing is the end of the file; writing nothing is tried again,
\* and the assertion after a failed write ends the program.
POSIX_Xfer(access, n, left, retries) ==
    IF n < 0 \/ (n = 0 /\ access = "read") THEN "stop" ELSE Retry(n, left, retries)

HDFS_Xfer(access, n, left, retries) ==
    IF n < 0 \/ (n = 0 /\ access = "read") THEN "stop" ELSE Retry(n, left, retries)

IME_Xfer(access, n, left, retries) ==
    IF n < 0 \/ (n = 0 /\ access = "read") THEN "stop" ELSE Retry(n, left, retries)

DFS_Xfer(access, n, left, retries) ==
    IF access = "write" THEN AllOrStop(n, left)
    ELSE IF n <= 0 THEN "stop" ELSE Retry(n, left, retries)

\* Asks for the whole length each time and may move more than is left.
Gfarm_xfer(n, left) == IF n <= 0 THEN "stop" ELSE IF n >= left THEN "whole" ELSE "again"

\* The elements moved are integers, multiplied with sizeof(MPI_BYTE).
MPIIO_Xfer(n, retries) ==
    IF n < 0 THEN "stop"
    ELSE IF n * job.bytes = Length THEN "whole"
    ELSE IF job.collective \/ TooMany(retries) THEN "stop" ELSE "again"

\* Returns what one call has moved, which WriteOrReadSingle compares.
CHFS_xfer(n, left) == AllOrStop(n, left)
FINCHFS_xfer(n, left) == AllOrStop(n, left)
CEPHFS_Xfer(n, left) == AllOrStop(n, left)
RADOS_Xfer(n, left) == AllOrStop(n, left)

\* An error is only a warning.
S3_Xfer == "whole"

\* Memory is copied, the storage has no say.
MMAP_Xfer == "whole"
PMDK_Xfer == "whole"
DUMMY_Xfer == "whole"

Answer(access, n, left, retries) ==
    CASE job.api = "POSIX" -> POSIX_Xfer(access, n, left, retries)
      [] job.api = "HDFS" -> HDFS_Xfer(access, n, left, retries)
      [] job.api = "IME" -> IME_Xfer(access, n, left, retries)
      [] job.api = "DFS" -> DFS_Xfer(access, n, left, retries)
      [] job.api = "GFARM" -> Gfarm_xfer(n, left)
      [] job.api = "MPIIO" -> MPIIO_Xfer(n, retries)
      [] job.api = "CHFS" -> CHFS_xfer(n, left)
      [] job.api = "FINCHFS" -> FINCHFS_xfer(n, left)
      [] job.api = "CEPHFS" -> CEPHFS_Xfer(n, left)
      [] job.api = "RADOS" -> RADOS_Xfer(n, left)
      [] job.api = "S3" -> S3_Xfer
      [] job.api = "MMAP" -> MMAP_Xfer
      [] job.api = "PMDK" -> PMDK_Xfer
      [] job.api = "DUMMY" -> DUMMY_Xfer

\* What is asked for: MPI-IO starts again, Gfarm never asks for less.
Asked(r) == IF job.api \in {"MPIIO", "GFARM"} THEN Length ELSE Length - moved[r]

\* Mutant: the offset of a retry is that of the transfer.
M_Where(r, access) == 0

\* Where: IME writes and reads, DFS reads at the same offset again.
Where(r, access) ==
    IF job.api \in {"IME", "MPIIO"} \/ (job.api = "DFS" /\ access = "read") THEN 0 ELSE moved[r]

\* The stream of HDFS knows no offset when it writes.
FirstUnit(r, access) ==
    Where(r, access) + IF access = "read" THEN offset(Pretend(r))
                       ELSE IF job.api = "HDFS" THEN 0 ELSE offset(r)

\* What the storage may answer.
Results(r, access) ==
    LET there == IF access = "write" THEN Asked(r)
                 ELSE Min({Asked(r), Max({0, FileSize(FileOf(Pretend(r))) - FirstUnit(r, access)})})
    IN CASE job.api = "DUMMY" -> {0}
         [] job.api \in {"MMAP", "PMDK"} -> {there}
         [] OTHER -> (IF job.short /\ job.api \notin {"S3", "RADOS"} THEN 0..there ELSE {there})
                     \cup (IF job.fails THEN {-1} ELSE {})

\* Calls of a collective transfer or of MPI_File_sync, MPI_File_close on a
\* shared file.
Together == IF job.api = "MPIIO" /\ ~job.filePerProc /\ ~Dry THEN <<"Allreduce">> ELSE << >>
TransferTogether == IF job.collective THEN Together ELSE << >>

\* One call of the storage and what the backend makes of it.
Move(r, access, next) ==
    \E n \in Results(r, access) :
        LET left == Length - moved[r]
            first == FirstUnit(r, access)
            from == IF job.api = "MPIIO" THEN 0 ELSE moved[r]
            answer == Answer(access, n, left, xferRetries[r])
            source == files[FileOf(Pretend(r))]
        IN /\ files' = IF access = "write" THEN Stored(FileOf(r), first, n, r, from) ELSE files
           /\ got' = IF access = "write" THEN got
                     ELSE [got EXCEPT ![r] = [k \in DOMAIN @ |->
                              IF k \in from..(from + n - 1) THEN source[first + k - from] ELSE @[k]]]
           /\ \/ /\ answer = "again"
                 /\ moved' = [moved EXCEPT ![r] = IF job.api = "MPIIO" THEN 0 ELSE @ + n]
                 /\ xferRetries' = [xferRetries EXCEPT ![r] = @ + 1]
                 /\ UNCHANGED <<at, ahead, calls, stopped>>
              \/ /\ answer = "whole"
                 /\ moved' = [moved EXCEPT ![r] = 0]
                 /\ xferRetries' = [xferRetries EXCEPT ![r] = 0]
                 /\ GoAfter(r, TransferTogether, next) /\ UNCHANGED stopped
              \/ answer = "stop" /\ ERR /\ UNCHANGED <<moved, xferRetries>>

AfterTransfer == IF job.intraTestBarriers THEN <<"Barrier">> ELSE << >>

\* WriteOrReadSingle; a file is written through the stream of its handle.
write(r) ==
    /\ At(r, "write")
    /\ LET next == IF job.fsyncPerWrite THEN "sync" ELSE "close"
       IN IF Dry THEN GoAfter(r, << >>, next) /\ UNCHANGED <<files, transfer, stopped>>
          ELSE Move(r, "write", next)
    /\ UNCHANGED <<job, size, daos>>

fsync(r) ==
    /\ At(r, "sync")
    /\ GoAfter(r, Together, "close")
    /\ UNCHANGED <<job, files, transfer, size, daos, stopped>>

close(r) ==
    /\ At(r, "close")
    /\ GoAfter(r, AfterTransfer \o Together \o <<"Barrier">>, "size")
    /\ UNCHANGED <<job, files, transfer, size, daos, stopped>>
-----------------------------------------------------------------------------
(* The size of the file, and what CheckFileSize makes of it.               *)

\* Mutant: the Bcast is in the branch of rank 0.
M_MPIIO_GetFileSize(r) ==
    /\ size' = [size EXCEPT ![r] = IF Dry THEN 0 ELSE FileSize(FileOf(r))]
    /\ GoAfter(r, IF Dry \/ r # 0 THEN << >> ELSE OnTestComm(<<"Bcast">>), "check_size")

\* Rank 0 asks for the size of a shared file and tells the others.
MPIIO_GetFileSize(r) ==
    /\ size' = [size EXCEPT ![r] = IF Dry THEN 0 ELSE FileSize(FileOf(r))]
    /\ GoAfter(r, IF Dry THEN << >> ELSE OnTestComm(<<"Bcast">>), "check_size")

\* Who cannot look the file up returns before the Bcast.
DFS_GetFileSize(r) ==
    \/ /\ size' = [size EXCEPT ![r] = FileSize(FileOf(r))]
       /\ GoAfter(r, OnTestComm(<<"Bcast">>), "check_size")
    \/ /\ LookupFails(r)
       /\ size' = [size EXCEPT ![r] = -1]
       /\ GoAfter(r, << >>, "check_size")

ToldByRank0 == job.api \in {"MPIIO", "DFS"} /\ ~job.filePerProc

\* Adds up or compares what CheckFileSize will add up or compare again.
CEPHFS_GetFileSize(r) ==
    /\ size' = [size EXCEPT ![r] = FileSize(FileOf(r))]
    /\ Send(r, "Allreduce", FileSize(FileOf(r)))
    /\ Go(r, "reduce_size") /\ UNCHANGED ahead

Values(r) == [s \in Ranks |-> Sent(s, r)]
Total(r) == FoldFunction(LAMBDA a, b : a + b, 0, Values(r))
\* Mutant: files of their own are compared like a shared one.
M_Reduced(r) == Min(Range(Values(r)))

Reduced(r) == IF job.filePerProc THEN Total(r) ELSE Min(Range(Values(r)))

CEPHFS_ReduceSize(r) ==
    /\ At(r, "reduce_size")
    /\ size' = [size EXCEPT ![r] = Reduced(r)]
    /\ GoAfter(r, OnTestComm(<<"Allreduce">>), "check_size")
    /\ UNCHANGED <<job, files, transfer, daos, stopped>>

\* The object of offset 0 has the name of the file.
S3_GetFileSize(r) == size' = [size EXCEPT ![r] = Min({Length, FileSize(FileOf(r))})]
DUMMY_GetFileSize(r) == size' = [size EXCEPT ![r] = 0]
StatSize(r) == size' = [size EXCEPT ![r] = FileSize(FileOf(r))]

GetFileSize(r) ==
    /\ At(r, "size")
    /\ \/ job.api = "MPIIO" /\ MPIIO_GetFileSize(r)
       \/ job.api = "DFS" /\ DFS_GetFileSize(r)
       \/ job.api = "CEPHFS" /\ CEPHFS_GetFileSize(r)
       \/ job.api = "S3" /\ S3_GetFileSize(r) /\ GoAfter(r, << >>, "check_size")
       \/ job.api = "DUMMY" /\ DUMMY_GetFileSize(r) /\ GoAfter(r, << >>, "check_size")
       \/ /\ job.api \notin {"MPIIO", "DFS", "CEPHFS", "S3", "DUMMY"}
          /\ StatSize(r) /\ GoAfter(r, << >>, "check_size")
    /\ UNCHANGED <<job, files, transfer, daos, stopped>>

CheckFileSize(r) ==
    /\ At(r, "check_size")
    /\ Send(r, "Allreduce", IF ToldByRank0 THEN size[0] ELSE size[r])
    /\ Go(r, "checked")
    /\ UNCHANGED <<job, ahead, files, transfer, size, daos, stopped>>

\* A second Allreduce for a shared file, one for the data moved, and the
\* barrier before the data is checked.
AggregateSize(r) ==
    /\ At(r, "checked")
    /\ size' = [size EXCEPT ![r] = Reduced(r)]
    /\ GoAfter(r, OnTestComm(<<"Allreduce">>) \o <<"Allreduce", "Barrier">>, "open")
    /\ UNCHANGED <<job, files, transfer, daos, stopped>>
-----------------------------------------------------------------------------
(* Reading back what the next rank has written (checkWrite).               *)

\* Without IOR_CREAT nobody waits for anybody but in the collective calls.
OpenCalls(r) ==
    IF job.api = "MPIIO" THEN {Together} ELSE IF job.api = "DFS" THEN share_file_handle(r) ELSE {<< >>}

open(r) ==
    /\ At(r, "open")
    /\ \/ IF Exists(FileOf(Pretend(r))) \/ Dry \/ job.api \in {"RADOS", "DUMMY"}
          THEN (\E ops \in OpenCalls(r) : GoAfter(r, ops, "read")) /\ UNCHANGED stopped
          ELSE ERR
       \/ job.api = "DFS" /\ LookupFails(r) /\ ERR
    /\ UNCHANGED <<job, files, transfer, size, daos>>

read(r) ==
    /\ At(r, "read")
    /\ IF Dry THEN GoAfter(r, << >>, "close_read") /\ UNCHANGED <<files, transfer, stopped>>
       ELSE Move(r, "read", "close_read")
    /\ UNCHANGED <<job, size, daos>>

CloseRead(r) ==
    /\ At(r, "close_read")
    /\ GoAfter(r, Together \o <<"Barrier">>, "remove")
    /\ UNCHANGED <<job, files, transfer, size, daos, stopped>>

\* The file the rank has read, a shared one by rank 0.
Delete(r) ==
    /\ At(r, "remove")
    /\ files' = IF Dry \/ job.api = "DUMMY" THEN files
               ELSE IF job.filePerProc THEN Without(Pretend(r))
               ELSE IF r = 0 THEN Without(0) ELSE files
    /\ GoAfter(r, <<"Barrier">>, IF job.api = "DFS" THEN "finalize" ELSE "done")
    /\ UNCHANGED <<job, transfer, size, daos, stopped>>

finalize(r) ==
    /\ At(r, "finalize")
    /\ DFS_Finalize(r)
    /\ UNCHANGED <<job, files, transfer, size, daos, stopped>>

Terminated == stopped \/ \A r \in Ranks : at[r] = "done" /\ ahead[r] = << >> /\ Ready(r)
Terminating == Terminated /\ UNCHANGED vars

RankNext(r) ==
    \/ Collective(r) \/ initialize(r) \/ RemoveOld(r) \/ create(r) \/ LateCreate(r)
    \/ write(r) \/ fsync(r) \/ close(r)
    \/ GetFileSize(r) \/ CEPHFS_ReduceSize(r) \/ CheckFileSize(r) \/ AggregateSize(r)
    \/ open(r) \/ read(r) \/ CloseRead(r) \/ Delete(r)
    \/ finalize(r) \/ cont_close(r) \/ cont_destroy(r) \/ pool_disconnect(r)

Next == (\E r \in Ranks : RankNext(r)) \/ Terminating

Spec == Init /\ [][Next]_vars
FairSpec == Spec /\ \A r \in Ranks : WF_vars(RankNext(r))
-----------------------------------------------------------------------------
\* A storage that does everything at once: then no call of IOR should fail.
Reliable == ~job.short /\ ~job.fails /\ ~job.lost

\* The streams of several ranks start at the beginning of a shared file.
Streamed == job.api = "HDFS" /\ ~job.filePerProc

\* What a rank reads back, once it is done, is what the other rank has
\* written, byte by byte and at its place, however the storage has split the
\* transfers: xfer reports a whole transfer only if it was one.
ReadBack ==
    \A r \in Ranks :
        at[r] \in {"close_read", "remove", "finalize", "cont_close", "destroy", "disconnect", "done"}
            => Dry \/ job.api = "DUMMY" \/ Streamed \/ \A k \in 0..(Length - 1) : got[r][k] = Data(Pretend(r), k)

\* No step wipes out what a rank has written, but for the removal of the
\* file: a rank that creates late does not truncate the data of the others.
NothingTruncated ==
    [][\A f \in DOMAIN files \cap DOMAIN files' :
          \A u \in DOMAIN files[f] :
              files[f][u] > 0 => u \in DOMAIN files'[f] /\ files'[f][u] # Hole]_vars

\* When CheckFileSize is done, every rank has the same size and it is that of
\* all data, if the file is found.
SizeIsRight ==
    \A r \in Ranks :
        /\ at[r] \in {"open", "read", "close_read", "remove"}
        /\ ~Dry /\ job.api \notin {"DUMMY", "S3"} /\ ~Streamed /\ ~job.lost
        => size[r] = expectedAggFileSize

\* PMDK takes no shared file, and a dry run ends where a file is created.
Refused ==
    \/ job.api = "PMDK" /\ ~job.filePerProc
    \/ Dry /\ job.api # "MPIIO"

\* Nobody gives up if the storage does its work, whatever order the ranks run
\* in: no file is missing, and none is there already.
GivesUpForAReason == stopped => ~Reliable \/ Streamed \/ Refused

\* The container of DAOS is not removed under a rank that has it open.
ContainerOutlivesUse == destroyed => \A r \in Ranks : dfs[r] # "container"

\* Retries have an end, and no rank waits in a collective for ever.
Finishes == <>Terminated
=============================================================================
