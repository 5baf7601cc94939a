----------------------------- MODULE AioBuffer -----------------------------
(***************************************************************************)
(* IOR's transfer loop (WriteOrReadSingle of ior.c, driven by WriteOrRead  *)
(* and TestIoSys) above the AIO backend.  The loop owns ONE buffer,        *)
(* ioBuffers->buffer: it is filled for a write, handed to the backend,     *)
(* filled again for the next write; in the write check it is invalidated,  *)
(* handed to the backend for a read, and compared.  The backend only       *)
(* queues; the kernel looks at the buffer when it executes the request.    *)
(*                                                                         *)
(* Transfers 1..Writes write the offsets 1..Writes, the others read them   *)
(* back from the first.  The pattern for offset o is the number o.         *)
(***************************************************************************)
EXTENDS Aio

CONSTANTS Writes,        \* transfers of the write phase
          FsyncPerWrite  \* option -Y

ASSUME BufferAssumption ==
    /\ Writes \in Nat
    /\ FsyncPerWrite \in BOOLEAN

\* The transfers are writes and then the reads that check them.  The kernel's
\* faults are the subject of Aio: the loop is studied with a kernel without any.
WriteAndCheck ==
    /\ Writes \in 1..MaxRequests /\ MaxRequests <= 2 * Writes
    /\ Faults = {}

Offsets == 1..Writes
Offset(k) == IF k <= Writes THEN k ELSE k - Writes
Invalid == 0

VARIABLES
    at,      \* where the loop is
    access,  \* "WRITE" or "WRITECHECK"
    buffer,  \* pattern in ioBuffers->buffer
    file,    \* pattern at each offset of the test file
    errors   \* offsets CompareData found wrong

loop == <<at, access, errors>>
bufferVars == <<vars, loop, buffer, file>>

BufferInit ==
    /\ Init
    /\ at = "open"
    /\ access = "WRITE"
    /\ buffer = Invalid
    /\ file = [o \in Offsets |-> Invalid]
    /\ errors = {}

\* The kernel moves the bytes of r between the file and the buffer as they
\* are now.
Execute(r) ==
    /\ KernelComplete(r)
    /\ IF r <= Writes
       THEN /\ file' = [file EXCEPT ![Offset(r)] = buffer]
            /\ UNCHANGED buffer
       ELSE /\ buffer' = file[Offset(r)]
            /\ UNCHANGED file
    /\ UNCHANGED loop

\* backend->initialize, then backend->create or backend->open.
Open ==
    /\ at = "open"
    /\ aio_initialize \/ aio_Open
    /\ at' = IF fd' THEN "loop" ELSE "open"
    /\ UNCHANGED <<access, errors, buffer, file>>

Last == IF access = "WRITE" THEN Writes ELSE MaxRequests

\* update_write_memory_pattern or invalidate_buffer_pattern.
Prepare ==
    /\ at = "loop"
    /\ issued < Last
    /\ buffer' = IF access = "WRITE" THEN Offset(issued + 1) ELSE Invalid
    /\ at' = "xfer"
    /\ UNCHANGED <<vars, access, errors, file>>

\* backend->xfer, until it returns.
Xfer ==
    /\ at = "xfer"
    /\ \/ aio_Xfer
       \/ aio_XferFull
       \/ ProcessSome
       \/ \E e \in Requests : HandleEvent(e)
       \/ ProcessSomeReturns
    /\ at' = CASE issued' = issued -> "xfer"
               [] issued' > issued /\ access = "WRITECHECK" -> "compare"
               [] issued' > issued /\ access = "WRITE" ->
                      IF FsyncPerWrite THEN "fsync" ELSE "loop"
    /\ UNCHANGED <<access, errors, buffer, file>>

\* The steps of a flush; the next ones are those of its return.
Flush(kind) ==
    \/ complete_all(kind)
    \/ CompleteAll
    \/ \E e \in Requests : HandleEvent(e)
    \/ CompleteAllReturns

FlushReturned == pc' = "idle" /\ call' = "none"

\* Mutant: -Y synchronises the file system but not the queue of the backend.
M_FsyncAfterWrite ==
    /\ at = "fsync"
    /\ at' = "loop"
    /\ UNCHANGED <<vars, access, errors, buffer, file>>

\* backend->fsync after a write, with -Y.
FsyncAfterWrite ==
    /\ at = "fsync"
    /\ Flush("fsync")
    /\ at' = IF FlushReturned THEN "loop" ELSE "fsync"
    /\ UNCHANGED <<access, errors, buffer, file>>

CompareData ==
    /\ at = "compare"
    /\ errors' = IF buffer = Offset(issued) THEN errors
                 ELSE errors \cup {Offset(issued)}
    /\ at' = "loop"
    /\ UNCHANGED <<vars, access, buffer, file>>

\* The loop is over: backend->close, then the write check or the end.
Close ==
    /\ at \in {"loop", "close"}
    /\ issued = Last
    /\ Flush("close")
    /\ IF ~FlushReturned
       THEN at' = "close" /\ UNCHANGED access
       ELSE IF access = "WRITE"
            THEN at' = "open" /\ access' = "WRITECHECK"
            ELSE at' = "done" /\ UNCHANGED access
    /\ UNCHANGED <<errors, buffer, file>>

Done == at = "done" /\ UNCHANGED bufferVars

BufferNext ==
    \/ \E r \in Requests : Execute(r)
    \/ Open
    \/ Prepare
    \/ Xfer
    \/ FsyncAfterWrite
    \/ CompareData
    \/ Close
    \/ Done

BufferSpec == BufferInit /\ [][BufferNext]_bufferVars

----------------------------------------------------------------------------
\* Every offset a returned flush vouches for holds its own pattern, though
\* the buffer its bytes came from has been filled again since (aio_Xfer keeps
\* a pointer to it, no copy).
FileIntact == \A k \in 1..flushed : k <= Writes => file[Offset(k)] = Offset(k)

\* CompareData reports an offset only when the file is wrong there: it looks
\* at the buffer as soon as aio_Xfer is back, which only queued the read, so
\* it does not hold.
NoFalseAlarm == \A o \in errors : file[o] # o
=============================================================================
