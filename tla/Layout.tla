------------------------------- MODULE Layout -------------------------------
(***************************************************************************)
(* The backends that do not address a file by its plain offset: HDF5 (a     *)
(* data set per segment), NCMPI (a row per block), MPI-IO with file views,  *)
(* the S3 multi-part upload and the byte ranges of EMC.  Each has to put    *)
(* the transfers of all segments where a rank that takes the place of       *)
(* another one finds them again.  The loop over segments and transfers is   *)
(* the one of WriteOrRead in ior.c; positions are counted in transfers.     *)
(***************************************************************************)
EXTENDS Mpi, FiniteSets, Functions

CONSTANT Jobs

Apis == {"HDF5", "NCMPI", "VIEW", "STRIDED", "S3", "EMC"}

\* segments: segmentCount.  transfers: transfers in a block.  rankOffset: how
\* far the rank is away whose place a rank takes when it reads.  readCheck:
\* the access is READCHECK, not READ.  deadline: -D, in a job that only
\* writes.  big: a segment is a multiple of 4 GiB.
JobType == [api : Apis, filePerProc : BOOLEAN, collective : BOOLEAN,
            segments : Nat \ {0}, transfers : Nat \ {0}, rankOffset : Ranks,
            readCheck : BOOLEAN, deadline : BOOLEAN, big : BOOLEAN,
            intraTestBarriers : BOOLEAN, repetitions : Nat \ {0}]

\* What ValidateTests and the backends let pass.
ValidateTests(j) == j.api = "NCMPI" => ~j.filePerProc
S3_check_params(j) ==
    j.api \in {"S3", "EMC"} /\ ~j.filePerProc /\ j.segments # 1 => j.transfers = 1

ASSUME LayoutAssumption ==
    Jobs \subseteq {j \in JobType : ValidateTests(j) /\ S3_check_params(j)}

VARIABLES
    job,
    at, ahead,      \* where each rank is; collectives it makes before it goes on
    rep, n,         \* the repetition; transfers of it that are done
    files,          \* the files that exist: which transfer is in which cell
    h,              \* what a rank remembers between transfers
    uploads, etags, \* parts the server has; what a rank will have to name
    wrong,          \* has a rank read something else than it had to
    stopped         \* has somebody called MPI_Abort or exit

loop == <<rep, n>>
parts == <<uploads, etags>>
vars == <<job, at, calls, ahead, loop, files, h, parts, wrong, stopped>>

S == job.segments
T == job.transfers
FileOf(r) == IF job.filePerProc THEN r ELSE 0

\* The ranks that share a file, and the transfers of theirs in a segment.
tasksPerFile == IF job.filePerProc THEN 1 ELSE N
segmentSize == tasksPerFile * T

Pretend(r, access) == IF access = "WRITE" THEN r ELSE (r + job.rankOffset) % N
ReadAccess == IF job.readCheck THEN "READCHECK" ELSE "READ"

\* Where the block of a rank starts in a segment.
segmentPosition(r, access) == IF job.filePerProc THEN 0 ELSE Pretend(r, access) * T

\* The offset of the next transfer, and what WriteOrRead puts there.
Offset(r, access) == (n[r] \div T) * segmentSize + segmentPosition(r, access) + (n[r] % T)
Pattern(r, access) == <<Pretend(r, access), Offset(r, access)>>

\* newlyOpened, firstReadCheck, startDataSet as in the code; suffix: the data
\* set that is open; defined, indep: the state of a NetCDF file.
NoHandle == [newlyOpened |-> FALSE, firstReadCheck |-> FALSE, startDataSet |-> FALSE,
             suffix |-> 0, defined |-> FALSE, indep |-> FALSE]

Nothing == << >>
Exists(f) == f \in DOMAIN files
With(f, content) == [g \in DOMAIN files \cup {f} |-> IF g = f THEN content ELSE files[g]]
Has(f, cell) == Exists(f) /\ cell \in DOMAIN files[f]
Put(f, cells, token) ==
    With(f, [c \in cells \cup DOMAIN files[f] |-> IF c \in cells THEN token ELSE files[f][c]])

Init ==
    /\ job \in Jobs
    /\ at = [r \in Ranks |-> IF job.api \in {"S3", "EMC"} THEN "s3_connect" ELSE "create"]
    /\ calls = NoCalls
    /\ ahead = [r \in Ranks |-> << >>]
    /\ rep = [r \in Ranks |-> 1] /\ n = [r \in Ranks |-> 0]
    /\ files = Nothing
    /\ h = [r \in Ranks |-> NoHandle]
    /\ uploads = [f \in Ranks |-> {}]
    /\ etags = [r \in Ranks |-> << >>]
    /\ wrong = [r \in Ranks |-> FALSE]
    /\ stopped = FALSE
-----------------------------------------------------------------------------
At(r, place) == ~stopped /\ at[r] = place /\ ahead[r] = << >> /\ Ready(r)

Go(r, place) == at' = [at EXCEPT ![r] = place]

\* Go on to a place after some collectives.
GoAfter(r, ops, place) ==
    Go(r, place) /\ ahead' = [ahead EXCEPT ![r] = ops] /\ UNCHANGED <<calls, stopped>>

ERR == stopped' = TRUE /\ UNCHANGED <<at, ahead, calls>>

\* Files of their own are opened on MPI_COMM_SELF.
OnTestComm(ops) == IF job.filePerProc THEN << >> ELSE ops
Transfer == IF job.collective THEN OnTestComm(<<"Transfer">>) ELSE << >>

Collective(r) ==
    /\ ~stopped /\ ahead[r] # << >> /\ Ready(r)
    /\ Call(r, Head(ahead[r]))
    /\ ahead' = [ahead EXCEPT ![r] = Tail(@)]
    /\ UNCHANGED <<job, at, loop, files, h, parts, wrong, stopped>>

\* Done once: rank 0 makes sure that the bucket is there.
s3_connect(r) ==
    /\ At(r, "s3_connect")
    /\ GoAfter(r, <<"Barrier">>, "create")
    /\ UNCHANGED <<job, loop, files, h, parts, wrong>>
-----------------------------------------------------------------------------
(* Creating and opening.                                                   *)

Barriers == IF job.intraTestBarriers THEN <<"Barrier">> ELSE << >>

Empty(r) == files' = With(FileOf(r), Nothing)

\* The handle comes from malloc: firstReadCheck is what was in the memory.
HDF5_Open(r, place) ==
    /\ \E garbage \in BOOLEAN :
          h' = [h EXCEPT ![r] = [NoHandle EXCEPT !.newlyOpened = TRUE,
                                                 !.suffix = h[r].suffix,
                                                 !.firstReadCheck = garbage]]
    /\ GoAfter(r, OnTestComm(<<"Open">>) \o Barriers, place)

\* The toggles are in the options: they outlive the file.
NCMPI_Open(r, place) ==
    /\ h' = [h EXCEPT ![r].defined = (place = "read"), ![r].indep = FALSE]
    /\ GoAfter(r, <<"Open">> \o Barriers, place)

MPIIO_Open(r, place) ==
    /\ GoAfter(r, OnTestComm(IF job.api = "VIEW" THEN <<"Open", "SetView">> ELSE <<"Open">>)
                  \o Barriers, place)
    /\ UNCHANGED h

HDF5_Create(r) == HDF5_Open(r, "write") /\ Empty(r) /\ UNCHANGED uploads
NCMPI_Create(r) == NCMPI_Open(r, "write") /\ Empty(r) /\ UNCHANGED uploads
MPIIO_Create(r) == MPIIO_Open(r, "write") /\ Empty(r) /\ UNCHANGED uploads

\* Who writes the object alone, or is rank 0, empties it and gets an UploadId;
\* the others are told.
S3_Create(r) ==
    /\ IF job.filePerProc \/ r = 0
       THEN Empty(r) /\ uploads' = [uploads EXCEPT ![FileOf(r)] = {}]
       ELSE UNCHANGED <<files, uploads>>
    /\ GoAfter(r, OnTestComm(<<"Bcast">>) \o Barriers, "write")
    /\ UNCHANGED h

EMC_Create(r) == Empty(r) /\ GoAfter(r, Barriers, "write") /\ UNCHANGED <<h, uploads>>

create(r) ==
    /\ At(r, "create")
    /\ \/ job.api = "HDF5" /\ HDF5_Create(r)
       \/ job.api = "NCMPI" /\ NCMPI_Create(r)
       \/ job.api \in {"VIEW", "STRIDED"} /\ MPIIO_Create(r)
       \/ job.api = "S3" /\ S3_Create(r)
       \/ job.api = "EMC" /\ EMC_Create(r)
    /\ UNCHANGED <<job, loop, etags, wrong>>

\* Without IOR_WRONLY and IOR_RDWR the S3 backends do nothing.
S3_Open(r) == GoAfter(r, Barriers, "read") /\ UNCHANGED h

open(r) ==
    /\ At(r, "open")
    /\ \/ job.api = "HDF5" /\ HDF5_Open(r, "read")
       \/ job.api = "NCMPI" /\ NCMPI_Open(r, "read")
       \/ job.api \in {"VIEW", "STRIDED"} /\ MPIIO_Open(r, "read")
       \/ job.api \in {"S3", "EMC"} /\ S3_Open(r)
    /\ n' = [n EXCEPT ![r] = 0]
    /\ UNCHANGED <<job, rep, files, parts, wrong>>
-----------------------------------------------------------------------------
(* One transfer of WriteOrRead.                                            *)

\* The loop ends with the last transfer, or when the time is over.
After(r, access, next) ==
    IF n[r] + 1 = S * T THEN {next}
    ELSE {IF access = "WRITE" THEN "write" ELSE "read"} \cup (IF job.deadline THEN {next} ELSE {})

\* The transfer is in some cells: written there, or read and compared.  The
\* check of a transfer that was only pretended finds what was in the buffer.
Access(r, access, cells, ops, next) ==
    LET f == FileOf(Pretend(r, access))
    IN IF access # "WRITE" /\ \E c \in cells : ~Has(f, c)
       THEN ERR /\ UNCHANGED <<n, files, wrong>>
       ELSE /\ files' = IF access = "WRITE" THEN Put(f, cells, Pattern(r, access)) ELSE files
            /\ wrong' = [wrong EXCEPT ![r] =
                  \/ @
                  \/ access = "READCHECK" /\ cells = {}
                  \/ access # "WRITE" /\ \E c \in cells : files[f][c] # Pattern(r, access)]
            /\ n' = [n EXCEPT ![r] = @ + 1]
            /\ \E place \in After(r, access, next) : GoAfter(r, ops, place)

XferFails == ERR /\ UNCHANGED <<n, files, wrong, h>>

Toggled(r, access) == h[r].firstReadCheck # (access = "READCHECK")

\* A new data set where a segment starts, but not on the second pass.
StartsDataSet(r, access) ==
    /\ (Offset(r, access) - segmentPosition(r, access)) % segmentSize = 0
    /\ access = "READCHECK" => Toggled(r, access)

\* The first data set of a file has suffix 0.
SetupDataSet(r, access) ==
    IF ~StartsDataSet(r, access) THEN h[r].suffix
    ELSE IF h[r].newlyOpened THEN 0 ELSE h[r].suffix + 1

\* Mutant: rank 0 creates the data set for all.
M_SetupCalls(r, access) ==
    IF access = "WRITE" /\ StartsDataSet(r, access) /\ r = 0 THEN OnTestComm(<<"Define">>) ELSE << >>

\* H5Dcreate is collective, H5Dopen is not.
SetupCalls(r, access) ==
    IF access = "WRITE" /\ StartsDataSet(r, access) THEN OnTestComm(<<"Define">>) ELSE << >>

SeekOffset(r, access) == Offset(r, access) % segmentSize

\* A handle that has no data set yet is not one.
HDF5_Xfer(r, access, next) ==
    IF h[r].newlyOpened /\ ~StartsDataSet(r, access) THEN XferFails
    ELSE /\ Access(r, access, {<<SetupDataSet(r, access), SeekOffset(r, access)>>},
                   SetupCalls(r, access) \o Transfer, next)
         /\ h' = [h EXCEPT ![r].newlyOpened = FALSE,
                           ![r].firstReadCheck = Toggled(r, access),
                           ![r].suffix = SetupDataSet(r, access)]

\* (int)(offset - segmentPosition) == 0
AtStart(r, access) ==
    LET distance == Offset(r, access) - segmentPosition(r, access)
    IN distance = 0 \/ (job.big /\ distance % segmentSize = 0)

\* Mutant: the rows of a segment are not counted for each task.
M_Row(r, access) == <<Offset(r, access) \div segmentSize + r, Offset(r, access) % T>>

\* segments_times_np, number_of_transfers: the row is the rank's own.
Row(r, access) == <<((Offset(r, access) \div segmentSize) * N) + r, Offset(r, access) % T>>

\* Dimensions can be defined once.  The calls that are not collective need
\* the independent data mode.
NCMPI_Xfer(r, access, next) ==
    LET start == h[r].startDataSet \/ AtStart(r, access)
        first == IF AtStart(r, access) THEN Toggled(r, access) ELSE h[r].firstReadCheck
        begins == start /\ (access = "READCHECK" => first)
        defines == begins /\ access = "WRITE"
        independent == begins /\ ~job.collective
        indep == h[r].indep \/ independent
    IN IF (defines /\ h[r].defined) \/ indep = job.collective THEN XferFails
       ELSE /\ Access(r, access, {Row(r, access)},
                      (IF defines THEN <<"Define">> ELSE << >>)
                      \o (IF independent THEN <<"Independent">> ELSE << >>)
                      \o Transfer, next)
            /\ h' = [h EXCEPT ![r].startDataSet = start /\ ~begins,
                              ![r].firstReadCheck = first,
                              ![r].defined = @ \/ defines,
                              ![r].indep = indep]

\* The file view of a rank is its blocks of all segments, one after another.
SeekView(r, access) ==
    IF job.filePerProc THEN Offset(r, access)
    ELSE T * (Offset(r, access) \div segmentSize)
         + (Offset(r, access) % segmentSize) - segmentPosition(r, access)

InView(r, access, position) ==
    <<0, (position \div T) * segmentSize + segmentPosition(r, access) + (position % T)>>

MPIIO_Xfer(r, access, next) ==
    /\ Access(r, access, {InView(r, access, SeekView(r, access))}, Transfer, next)
    /\ UNCHANGED h

\* The first transfers move those of the other segments as well, which are
\* then only pretended.
MPIIO_XferStrided(r, access, next) ==
    /\ IF Offset(r, access) >= (r + 1) * T
       THEN Access(r, access, {}, << >>, next)
       ELSE Access(r, access, {<<0, Offset(r, access) + s * segmentSize>> : s \in 0..(S - 1)},
                   OnTestComm(<<"SetView">>) \o Transfer, next)
    /\ UNCHANGED h

\* Where this part belongs in the object; the parts of a rank count from 0.
part_number(r) ==
    LET mine == Len(etags[r])
    IN IF job.filePerProc THEN mine
       ELSE IF S = 1 THEN r * T + mine   \* segmented
       ELSE mine * N + r                 \* strided

\* The hash of a part stands for what is in it.
S3_Put(r, next) ==
    LET etag == Pattern(r, "WRITE")
    IN /\ uploads' = [uploads EXCEPT ![FileOf(r)] = @ \cup {<<part_number(r), etag>>}]
       /\ etags' = [etags EXCEPT ![r] = Append(@, etag)]
       /\ n' = [n EXCEPT ![r] = @ + 1]
       /\ \E place \in After(r, "WRITE", next) : GoAfter(r, << >>, place)
       /\ UNCHANGED <<files, h, wrong>>

\* Byte ranges of a shared object, appends to one's own.
EMC_Put(r, next) ==
    /\ Access(r, "WRITE",
              {<<0, IF job.filePerProc THEN Cardinality(DOMAIN files[r]) ELSE Offset(r, "WRITE")>>},
              << >>, next)
    /\ UNCHANGED h

S3_Get(r, access, next) ==
    Access(r, access, {<<0, Offset(r, access)>>}, << >>, next) /\ UNCHANGED h

Xfer(r, access, next) ==
    \/ job.api = "HDF5" /\ HDF5_Xfer(r, access, next)
    \/ job.api = "NCMPI" /\ NCMPI_Xfer(r, access, next)
    \/ job.api = "VIEW" /\ MPIIO_Xfer(r, access, next)
    \/ job.api = "STRIDED" /\ MPIIO_XferStrided(r, access, next)
    \/ job.api = "EMC" /\ access = "WRITE" /\ EMC_Put(r, next)
    \/ job.api \in {"S3", "EMC"} /\ access # "WRITE" /\ S3_Get(r, access, next)

write(r) ==
    /\ At(r, "write")
    /\ \/ job.api = "S3" /\ S3_Put(r, "close")
       \/ Xfer(r, "WRITE", "close") /\ UNCHANGED parts
    /\ UNCHANGED <<job, rep>>

read(r) ==
    /\ At(r, "read")
    /\ Xfer(r, ReadAccess, "close_read")
    /\ UNCHANGED <<job, rep, parts>>
-----------------------------------------------------------------------------
(* Closing; the barrier after it is the one of TestIoSys.                  *)

Closed(r) == IF job.deadline THEN "remove" ELSE "open"

H5Fclose == OnTestComm(<<"Close">>)

\* The number of parts has to be the same on all ranks.
S3_Close(r) ==
    /\ Send(r, "Allreduce", Len(etags[r])) /\ Go(r, "count")
    /\ UNCHANGED <<ahead, stopped>>

Gather(r) ==
    /\ At(r, "count")
    /\ IF Len(etags[r]) # MaxSent(r) THEN ERR
       ELSE Send(r, "Gather", etags[r]) /\ Go(r, "complete") /\ UNCHANGED <<ahead, stopped>>
    /\ UNCHANGED <<job, loop, files, h, parts, wrong>>

\* etag_vec[i * start_multiplier + j * stride], numbered from 0.
Ordered(etag_vec) ==
    LET each == Len(etag_vec[0])
    IN [p \in 0..(N * each - 1) |->
           IF S = 1 THEN etag_vec[p \div each][(p % each) + 1]
           ELSE etag_vec[p % N][(p \div N) + 1]]

\* The server takes the list if it has got these parts under these numbers.
CompleteUpload(f, list) ==
    IF \A p \in DOMAIN list : <<p, list[p]>> \in uploads[f]
    THEN files' = With(f, [c \in {<<0, p>> : p \in DOMAIN list} |-> list[c[2]]]) /\ UNCHANGED stopped
    ELSE stopped' = TRUE /\ UNCHANGED files

\* Mutant: the etags of the last upload stay.
M_s3_MPU_reset(r) == UNCHANGED etags

s3_MPU_reset(r) == etags' = [etags EXCEPT ![r] = << >>]

\* CompleteMultipartUpload of a shared object, by rank 0.
Complete(r) ==
    /\ At(r, "complete")
    /\ IF r = 0 THEN CompleteUpload(0, Ordered([s \in Ranks |-> Sent(s, 0)]))
       ELSE UNCHANGED <<files, stopped>>
    /\ s3_MPU_reset(r)
    /\ Go(r, Closed(r)) /\ ahead' = [ahead EXCEPT ![r] = <<"Barrier", "Barrier">>]
    /\ UNCHANGED <<job, calls, loop, h, uploads, wrong>>

S3_CloseOwn(r) ==
    /\ CompleteUpload(r, [p \in 0..(Len(etags[r]) - 1) |-> etags[r][p + 1]])
    /\ s3_MPU_reset(r)
    /\ Go(r, Closed(r)) /\ ahead' = [ahead EXCEPT ![r] = <<"Barrier">>]
    /\ UNCHANGED <<calls, uploads>>

EMC_Close(r) == GoAfter(r, OnTestComm(<<"Barrier">>) \o <<"Barrier">>, Closed(r))

close(r) ==
    /\ At(r, "close")
    /\ \/ /\ job.api \in {"HDF5", "NCMPI", "VIEW", "STRIDED"}
          /\ GoAfter(r, H5Fclose \o <<"Barrier">>, Closed(r)) /\ UNCHANGED <<files, parts>>
       \/ job.api = "EMC" /\ EMC_Close(r) /\ UNCHANGED <<files, parts>>
       \/ job.api = "S3" /\ job.filePerProc /\ S3_CloseOwn(r)
       \/ job.api = "S3" /\ ~job.filePerProc /\ S3_Close(r) /\ UNCHANGED <<files, parts>>
    /\ UNCHANGED <<job, loop, h, wrong>>

\* An object that was only read needs no closing.
CloseRead(r) ==
    /\ At(r, "close_read")
    /\ GoAfter(r, (IF job.api \in {"S3", "EMC"} THEN << >> ELSE H5Fclose) \o <<"Barrier">>, "remove")
    /\ UNCHANGED <<job, loop, files, h, parts, wrong>>

\* RemoveFile asks the POSIX file system for objects and finds none of them.
RemoveFile(r) ==
    /\ At(r, "remove")
    /\ files' = IF job.api \in {"S3", "EMC"} \/ (~job.filePerProc /\ r # 0) THEN files
                ELSE Restrict(files, DOMAIN files \ {FileOf(Pretend(r, ReadAccess))})
    /\ rep' = [rep EXCEPT ![r] = @ + 1]
    /\ n' = [n EXCEPT ![r] = 0]
    /\ GoAfter(r, <<"Barrier">>, IF rep[r] = job.repetitions THEN "done" ELSE "create")
    /\ UNCHANGED <<job, h, parts, wrong>>

Terminated == stopped \/ \A r \in Ranks : at[r] = "done" /\ ahead[r] = << >> /\ Ready(r)
Terminating == Terminated /\ UNCHANGED vars

RankNext(r) ==
    \/ Collective(r) \/ s3_connect(r) \/ create(r) \/ write(r) \/ close(r)
    \/ Gather(r) \/ Complete(r) \/ open(r) \/ read(r) \/ CloseRead(r) \/ RemoveFile(r)

Next == (\E r \in Ranks : RankNext(r)) \/ Terminating

Spec == Init /\ [][Next]_vars
FairSpec == Spec /\ \A r \in Ranks : WF_vars(RankNext(r))
-----------------------------------------------------------------------------
\* Whatever rank's place a rank takes, each transfer it reads is the one that
\* rank has written at that offset: no two transfers share a cell, and all
\* ranks mean the same cell by an offset.
ReadBack == \A r \in Ranks : ~wrong[r]

\* A rank stops the test only where the code has to: the parts of an upload
\* do not match because -D ended the loops at different transfers, or a
\* segment of NetCDF starts at an offset that is 0 in an int.
GivesUpForAReason ==
    stopped => \/ job.deadline /\ job.api = "S3" /\ ~job.filePerProc
               \/ job.big /\ job.api = "NCMPI"

\* Nobody waits for ever for a collective that another rank does not make.
Finishes == <>Terminated
=============================================================================
