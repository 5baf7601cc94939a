-------------------------------- MODULE Aio --------------------------------
(***************************************************************************)
(* The AIO backend of IOR (aiori-aio.c) against the Linux AIO context it   *)
(* drives.  aio_Xfer only queues a request in the array iocbs, hands the   *)
(* array to io_submit when Granularity requests are in it, and reaps some  *)
(* completions when MaxPending requests are in flight; aio_Fsync, aio_Sync *)
(* and aio_Close wait for the rest (complete_all).  The kernel executes    *)
(* submitted requests at any moment and in any order.                      *)
(*                                                                         *)
(* Requests are numbered in the order aio_Xfer receives them.  The array   *)
(* is filled and emptied as a whole, so the requests in it are always the  *)
(* last iocbs_pos ones.                                                    *)
(***************************************************************************)
EXTENDS Integers, FiniteSets

CONSTANTS MaxPending,    \* option aio.max-pending
          Granularity,   \* option aio.granularity
          Length,        \* bytes of one transfer (IOR: transferSize)
          MaxRequests,   \* bound: transfers of the run
          Faults,        \* the faults the kernel may show
          MaxFaults      \* bound: how many of them in the run

FaultKinds == {"setup", "submit", "short", "negative", "secondary", "signal"}

\* aio_check_params; a granularity below 1 is not rejected there, and is not
\* modelled: it writes outside the array iocbs at once.
ASSUME AioAssumption ==
    /\ MaxPending \in Nat /\ MaxPending >= 8
    /\ Granularity \in 1..MaxPending
    /\ Length \in Nat \ {0}
    /\ MaxRequests \in Nat
    /\ Faults \subseteq FaultKinds
    /\ MaxFaults \in Nat

Requests == 1..MaxRequests
EINTR == 4
EIO == 5

VARIABLES
    pc,             \* where the process is: see PCs
    fd,             \* is the test file open
    call,           \* the flush in progress: "fsync", "sync" or "close"
    issued,         \* number of transfers received so far
    iocbs_pos,      \* requests waiting in iocbs
    in_flight,      \* the code's count of pending requests
    pending_bytes,  \* the code's count of bytes not yet accounted for
    num_events,     \* what io_getevents returned
    batch,          \* events[] not yet handled by the loop over it
    outstanding,    \* kernel: submitted, not yet returned by io_getevents
    completed,      \* kernel: executed, event waiting to be collected
    result,         \* event.res of each request
    secondary,      \* requests with event.res2 # 0
    flushed,        \* transfers covered by the last flush that returned
    faults          \* faults shown so far

backend == <<iocbs_pos, in_flight, pending_bytes, num_events, batch>>
kernel == <<outstanding, completed, result, secondary>>
vars == <<pc, fd, call, issued, backend, kernel, flushed, faults>>

\* "some"/"all": inside io_getevents of process_some/complete_all;
\* "someloop"/"allloop": in the loop over the events it returned.
PCs == {"uninit", "idle", "some", "someloop", "all", "allloop", "aborted"}

TypeOK ==
    /\ pc \in PCs
    /\ fd \in BOOLEAN
    /\ call \in {"none", "fsync", "sync", "close"}
    /\ issued \in 0..MaxRequests
    /\ iocbs_pos \in Nat
    /\ in_flight \in Nat
    /\ pending_bytes \in Int
    /\ num_events \in Int
    /\ batch \subseteq Requests
    /\ outstanding \subseteq Requests
    /\ completed \subseteq outstanding
    /\ result \in [Requests -> Int]
    /\ secondary \subseteq Requests
    /\ flushed \in 0..MaxRequests
    /\ faults \in 0..MaxFaults

Init ==
    /\ pc = "uninit"
    /\ fd = FALSE
    /\ call = "none"
    /\ issued = 0
    /\ iocbs_pos = 0
    /\ in_flight = 0
    /\ pending_bytes = 0
    /\ num_events = 0
    /\ batch = {}
    /\ outstanding = {}
    /\ completed = {}
    /\ result = [r \in Requests |-> 0]
    /\ secondary = {}
    /\ flushed = 0
    /\ faults = 0

----------------------------------------------------------------------------
(* The kernel.                                                             *)

Fault(kind) == /\ kind \in Faults
               /\ faults < MaxFaults
               /\ faults' = faults + 1

\* Values a faulty completion reports: a short count, or an error.
FaultyResults(kind) == IF kind = "short" THEN 0..(Length - 1) ELSE {-1, -EIO}

\* The kernel executes r in full.
KernelComplete(r) ==
    /\ pc # "aborted"
    /\ r \in outstanding \ completed
    /\ completed' = completed \cup {r}
    /\ result' = [result EXCEPT ![r] = Length]
    /\ UNCHANGED <<pc, fd, call, issued, backend, outstanding, secondary,
                   flushed, faults>>

\* The kernel executes r only in part, or not at all.
KernelFail(r) ==
    /\ pc # "aborted"
    /\ r \in outstanding \ completed
    /\ completed' = completed \cup {r}
    /\ \/ /\ \E kind \in {"short", "negative"} :
                /\ Fault(kind)
                /\ \E v \in FaultyResults(kind) :
                      result' = [result EXCEPT ![r] = v]
          /\ UNCHANGED secondary
       \/ /\ Fault("secondary")
          /\ result' = [result EXCEPT ![r] = Length]
          /\ secondary' = secondary \cup {r}
    /\ UNCHANGED <<pc, fd, call, issued, backend, outstanding, flushed>>

\* io_submit of the last n requests received, up to number last.
Accepts(last, n) ==
    outstanding' = outstanding \cup {r \in Requests : last - n < r /\ r <= last}

\* io_getevents(minimum, in_flight): returns at least minimum events, unless
\* a signal interrupts it; then it returns the ones it has, or -EINTR.
GetEvents(minimum) ==
    /\ \E b \in SUBSET completed :
          /\ Cardinality(b) <= in_flight
          /\ \/ /\ Cardinality(b) >= minimum
                /\ num_events' = Cardinality(b)
                /\ UNCHANGED faults
             \/ /\ Fault("signal")
                /\ Cardinality(b) < minimum
                /\ num_events' = IF b = {} THEN -EINTR ELSE Cardinality(b)
          /\ batch' = b
          /\ outstanding' = outstanding \ b
          /\ completed' = completed \ b
    /\ UNCHANGED <<result, secondary>>

----------------------------------------------------------------------------
(* The backend.  ERR and ERRF print a message and call MPI_Abort: the       *)
(* program counter becomes "aborted" and nothing happens after it.         *)

\* aio_initialize: a new context; pending_bytes is not among what it resets.
aio_initialize ==
    /\ pc = "uninit"
    /\ \/ /\ pc' = "idle"
          /\ iocbs_pos' = 0
          /\ in_flight' = 0
          /\ outstanding' = {}
          /\ completed' = {}
          /\ UNCHANGED faults
       \/ /\ Fault("setup")
          /\ pc' = "aborted"
          /\ UNCHANGED <<iocbs_pos, in_flight, outstanding, completed>>
    /\ UNCHANGED <<fd, call, issued, pending_bytes, num_events, batch, result,
                   secondary, flushed>>

\* aio_finalize: IOR calls it with no file open.
aio_finalize ==
    /\ pc = "idle"
    /\ ~fd
    /\ pc' = "uninit"
    /\ UNCHANGED <<fd, call, issued, backend, kernel, flushed, faults>>

\* aio_Open and aio_create.
aio_Open ==
    /\ pc = "idle"
    /\ ~fd
    /\ fd' = TRUE
    /\ UNCHANGED <<pc, call, issued, backend, kernel, flushed, faults>>

\* submit_pending with n requests in iocbs; control goes on at next.  A
\* refused or partial io_submit ends the run.
submit_pending(last, n, next) ==
    \/ /\ Accepts(last, n)
       /\ iocbs_pos' = 0
       /\ pc' = next
       /\ UNCHANGED <<completed, result, secondary, faults>>
    \/ /\ n > 0
       /\ Fault("submit")
       /\ iocbs_pos' = n
       /\ pc' = "aborted"
       /\ UNCHANGED kernel

\* The rest of aio_Xfer, once fewer than MaxPending requests were in flight
\* or process_some has returned with fly of them left.
Enqueue(fly) ==
    /\ issued < MaxRequests
    /\ issued' = issued + 1
    /\ pending_bytes' = pending_bytes + Length
    /\ in_flight' = fly + 1
    /\ IF iocbs_pos + 1 = Granularity
       THEN submit_pending(issued + 1, iocbs_pos + 1, "idle")
       ELSE /\ iocbs_pos' = iocbs_pos + 1
            /\ pc' = "idle"
            /\ UNCHANGED <<kernel, faults>>
    /\ UNCHANGED <<fd, call, num_events, batch, flushed>>

\* Mutant: the limit is tested with <= instead of <.
M_aio_Xfer ==
    /\ pc = "idle"
    /\ fd
    /\ in_flight <= MaxPending
    /\ Enqueue(in_flight)

aio_Xfer ==
    /\ pc = "idle"
    /\ fd
    /\ in_flight < MaxPending
    /\ Enqueue(in_flight)

\* aio_Xfer enters process_some, which calls io_getevents.
aio_XferFull ==
    /\ pc = "idle"
    /\ fd
    /\ issued < MaxRequests
    /\ in_flight >= MaxPending
    /\ pc' = "some"
    /\ UNCHANGED <<fd, call, issued, backend, kernel, flushed, faults>>

\* Mutant: process_some waits for everything that is in flight.
M_SomeMinimum == in_flight

SomeMinimum == IF in_flight < Granularity THEN in_flight ELSE Granularity

\* io_getevents of process_some returns.
ProcessSome ==
    /\ pc = "some"
    /\ GetEvents(SomeMinimum)
    /\ pc' = "someloop"
    /\ UNCHANGED <<fd, call, issued, iocbs_pos, in_flight, pending_bytes,
                   flushed>>

\* Mutant: an event counts as the whole transfer, whatever its result.
M_HandleEventTrusts(e) ==
    /\ pc \in {"someloop", "allloop"}
    /\ e \in batch
    /\ pending_bytes' = pending_bytes - Length
    /\ batch' = batch \ {e}
    /\ UNCHANGED <<pc, fd, call, issued, iocbs_pos, in_flight, num_events,
                   kernel, flushed, faults>>

\* One round of the loop over events[], in process_some and complete_all.
\* Nothing depends on the order of the events.
HandleEvent(e) ==
    /\ pc \in {"someloop", "allloop"}
    /\ e \in batch
    /\ IF result[e] = -1
       THEN /\ pc' = "aborted"
            /\ UNCHANGED <<pending_bytes, batch>>
       ELSE /\ pending_bytes' = pending_bytes - result[e]
            /\ batch' = batch \ {e}
            /\ UNCHANGED pc
    /\ UNCHANGED <<fd, call, issued, iocbs_pos, in_flight, num_events, kernel,
                   flushed, faults>>

\* process_some returns and aio_Xfer goes on.
ProcessSomeReturns ==
    /\ pc = "someloop"
    /\ batch = {}
    /\ Enqueue(in_flight - num_events)

\* aio_Fsync, aio_Sync, aio_Close: complete_all submits and calls
\* io_getevents.
complete_all(kind) ==
    /\ pc = "idle"
    /\ kind = "sync" \/ fd
    /\ call' = kind
    /\ submit_pending(issued, iocbs_pos, "all")
    /\ UNCHANGED <<fd, issued, in_flight, pending_bytes, num_events, batch,
                   flushed>>

\* io_getevents of complete_all returns.
CompleteAll ==
    /\ pc = "all"
    /\ GetEvents(in_flight)
    /\ pc' = "allloop"
    /\ UNCHANGED <<fd, call, issued, iocbs_pos, in_flight, pending_bytes,
                   flushed>>

\* Mutant: complete_all forgets to reset in_flight.
M_CompleteAllKeepsCount ==
    /\ pc = "allloop"
    /\ batch = {}
    /\ pending_bytes = 0
    /\ pc' = "idle"
    /\ flushed' = issued
    /\ call' = "none"
    /\ fd' = (fd /\ call # "close")
    /\ UNCHANGED <<issued, iocbs_pos, in_flight, pending_bytes, num_events,
                   batch, kernel, faults>>

\* Mutant: complete_all does not look at pending_bytes.
M_CompleteAllUnchecked ==
    /\ pc = "allloop"
    /\ batch = {}
    /\ pc' = "idle"
    /\ in_flight' = 0
    /\ flushed' = issued
    /\ call' = "none"
    /\ fd' = (fd /\ call # "close")
    /\ UNCHANGED <<issued, iocbs_pos, pending_bytes, num_events, batch, kernel,
                   faults>>

\* complete_all returns, and with it the flush.
CompleteAllReturns ==
    /\ pc = "allloop"
    /\ batch = {}
    /\ IF pending_bytes # 0
       THEN /\ pc' = "aborted"
            /\ UNCHANGED <<fd, call, in_flight, flushed>>
       ELSE /\ pc' = "idle"
            /\ in_flight' = 0
            /\ flushed' = issued
            /\ call' = "none"
            /\ fd' = (fd /\ call # "close")
    /\ UNCHANGED <<issued, iocbs_pos, pending_bytes, num_events, batch, kernel,
                   faults>>

----------------------------------------------------------------------------
Kernel == \E r \in Requests : KernelComplete(r) \/ KernelFail(r)

\* The steps of a call that is under way.
InCall == \/ ProcessSome
          \/ CompleteAll
          \/ \E e \in Requests : HandleEvent(e)
          \/ ProcessSomeReturns
          \/ CompleteAllReturns

\* The calls IOR makes.
Caller == \/ aio_initialize
          \/ aio_finalize
          \/ aio_Open
          \/ aio_Xfer
          \/ aio_XferFull
          \/ \E kind \in {"fsync", "sync", "close"} : complete_all(kind)

\* The process is gone.
Aborted == pc = "aborted" /\ UNCHANGED vars

Next == Kernel \/ InCall \/ Caller \/ Aborted

Spec == Init /\ [][Next]_vars

\* The kernel executes what was submitted, and a call that can go on does.
FairSpec == Spec /\ WF_vars(Kernel) /\ WF_vars(InCall)

----------------------------------------------------------------------------
(* What must hold.                                                         *)

Returned == IF pc \in {"someloop", "allloop"} THEN num_events ELSE 0

\* The backend's only knowledge of the kernel is the count in_flight: outside
\* a call it is exactly the requests in iocbs plus those the kernel holds
\* (process_some, complete_all and aio_Xfer each adjust it separately).
InFlightExact ==
    pc \notin {"uninit", "aborted"}
      => in_flight = iocbs_pos + Cardinality(outstanding) + Returned

\* process_some and complete_all wait only for events that submitted requests
\* can deliver: a request still in iocbs counts in in_flight but never
\* completes, and io_getevents is called without a timeout.
WaitsAreMet ==
    /\ pc = "some" => SomeMinimum <= Cardinality(outstanding)
    /\ pc = "all" => in_flight <= Cardinality(outstanding)

\* io_submit never exceeds the size given to io_setup, which is why "errno ==
\* EAGAIN; this should't happen" (submit_pending).
ContextNeverFull == Cardinality(outstanding) <= MaxPending

\* A request landed when the kernel moved all of its bytes without an error.
Landed == {r \in Requests : result[r] = Length /\ r \notin secondary}

\* A flush that returned was told the truth: each transfer before it landed,
\* so a short or failed one is never cancelled out in pending_bytes.
FlushVouches == 1..flushed \subseteq Landed

\* Why they hold (proved in AioProofs for a kernel without signals and
\* secondary errors).  Held counts the requests not yet subtracted from
\* pending_bytes, Submitted is the number of the last request submitted.
Submitted == issued - iocbs_pos
Held == iocbs_pos + Cardinality(outstanding) + Cardinality(batch)

\* Who holds what: the array the last requests, the kernel and events[] the
\* rest that is not accounted for.
Custody ==
    /\ iocbs_pos <= issued
    /\ pc # "aborted" => iocbs_pos < Granularity
    /\ outstanding \cup batch \subseteq 1..Submitted
    /\ outstanding \cap batch = {}

\* What the counters and the array can be at each point of the code.
Places ==
    /\ pc = "uninit" => iocbs_pos = 0 /\ outstanding = {} /\ batch = {}
    /\ pc = "idle" => /\ batch = {}
                      /\ in_flight <= MaxPending
                      /\ ~fd => in_flight = 0
    /\ pc = "some" => batch = {}
    /\ pc \in {"some", "someloop"} => /\ in_flight = MaxPending
                                      /\ fd
                                      /\ issued < MaxRequests
    /\ pc = "someloop" => num_events >= Granularity
    /\ pc = "all" => /\ iocbs_pos = 0
                     /\ batch = {}
                     /\ in_flight <= MaxPending
    /\ pc = "allloop" => iocbs_pos = 0 /\ outstanding = {}

\* With less room than two batches in the context, the kernel never holds more
\* than one, and process_some empties it.
Rhythm ==
    pc \in {"idle", "some", "someloop"}
      => \/ MaxPending >= 2 * Granularity - 1
         \/ Cardinality(outstanding) \in {0, Granularity}

\* Every missing byte stays in pending_bytes until the flush looks at it.
Ledger ==
    pc # "aborted"
      => /\ pending_bytes >= Length * Held
         /\ pending_bytes = Length * Held
              => 1..Submitted \ (outstanding \cup batch) \subseteq Landed

Results ==
    /\ secondary = {}
    /\ \A r \in Requests :
          /\ result[r] <= Length
          /\ (r > Submitted \/ r \in outstanding \ completed) => result[r] = 0

IInv == /\ TypeOK
        /\ InFlightExact
        /\ ContextNeverFull
        /\ Custody
        /\ Places
        /\ Rhythm
        /\ Ledger
        /\ Results
        /\ FlushVouches

\* The backend implements the promise.
Promise == INSTANCE AioPromise WITH accepted <- 1..issued,
                                    landed <- Landed,
                                    flushed <- 1..flushed,
                                    failed <- (pc = "aborted")
PromiseKept == Promise!Spec

\* A call into the backend comes back, or the run is aborted.
CallsReturn == pc \in {"some", "someloop", "all", "allloop"}
                 ~> pc \in {"idle", "aborted"}
=============================================================================
