----------------------------- MODULE AioProofs -----------------------------
(***************************************************************************)
(* Proofs about the AIO backend of module Aio, for every MaxPending,       *)
(* Granularity, transfer length and number of transfers, under a kernel    *)
(* that may refuse io_setup or io_submit and may complete requests short   *)
(* or with a negative result, but does not interrupt io_getevents and sets *)
(* no secondary result: with either of these the properties fail.          *)
(*                                                                         *)
(* Then about IOR's transfer loop above it (AioBuffer): with -Y the one    *)
(* buffer of the loop is never filled while the kernel still has to read   *)
(* it, for every size of the context and any number of transfers.          *)
(***************************************************************************)
EXTENDS AioBuffer, FiniteSetTheorems, TLAPS

\* The kernels the theorems are about.
Gentle == "signal" \notin Faults /\ "secondary" \notin Faults

----------------------------------------------------------------------------
(* Facts about sets of requests.                                           *)

\* A set of requests is finite, and so are its parts.
LEMMA FiniteRequests ==
    ASSUME NEW S \in SUBSET Requests
    PROVE  IsFiniteSet(S) /\ Cardinality(S) \in Nat
<1>1. IsFiniteSet(Requests)
  BY FS_Interval, AioAssumption DEF Requests
<1> QED
  BY <1>1, FS_Subset, FS_CardinalityType

\* Taking a part away from a set of requests, and what is left of it.
LEMMA Part ==
    ASSUME NEW S \in SUBSET Requests, NEW T \in SUBSET S
    PROVE  /\ Cardinality(S \ T) = Cardinality(S) - Cardinality(T)
           /\ Cardinality(T) <= Cardinality(S)
           /\ Cardinality(T) >= Cardinality(S) => T = S
<1>1. IsFiniteSet(S) /\ Cardinality(S) \in Nat /\ Cardinality(T) \in Nat
  BY FiniteRequests
<1>2. S \cap T = T
  OBVIOUS
<1>3. Cardinality(S \ T) = Cardinality(S) - Cardinality(T)
  BY <1>1, <1>2, FS_Difference
<1>4. Cardinality(T) <= Cardinality(S) /\ (Cardinality(S) = Cardinality(T) => S = T)
  BY <1>1, FS_Subset
<1> QED
  BY <1>1, <1>3, <1>4

\* Joining two sets of requests that share none.
LEMMA Join ==
    ASSUME NEW S \in SUBSET Requests, NEW T \in SUBSET Requests, S \cap T = {}
    PROVE  Cardinality(S \cup T) = Cardinality(S) + Cardinality(T)
<1>1. Cardinality(S \cup T) = Cardinality(S) + Cardinality(T) - Cardinality({})
  BY FiniteRequests, FS_Union
<1> QED
  BY <1>1, FiniteRequests, FS_EmptySet

\* The requests submit_pending hands to the kernel are n in number.
LEMMA Batch ==
    ASSUME NEW last \in 0..MaxRequests, NEW n \in 0..last
    PROVE  Cardinality({r \in Requests : last - n < r /\ r <= last}) = n
<1>1. {r \in Requests : last - n < r /\ r <= last} = (last - n + 1)..last
  BY AioAssumption DEF Requests
<1>2. Cardinality((last - n + 1)..last) = n
  BY FS_Interval, AioAssumption
<1> QED
  BY <1>1, <1>2

\* The empty set of requests.
LEMMA None == Cardinality({}) = 0
  BY FS_EmptySet

\* Bytes of one request more and one request less.
LEMMA Bytes ==
    ASSUME NEW h \in Int
    PROVE  /\ Length * (h + 1) = Length * h + Length
           /\ Length * (h - 1) = Length * h - Length
           /\ Length * h \in Int
           /\ Length * 0 = 0
  BY AioAssumption

----------------------------------------------------------------------------
(* IInv is inductive: one lemma for each action.                           *)

\* The initial state.
LEMMA IInvInit == Init => IInv
<1> SUFFICES ASSUME Init PROVE IInv
  OBVIOUS
<1> USE AioAssumption DEF Init
<1>1. TypeOK
  <2>1. result \in [Requests -> Int]
    OBVIOUS
  <2>2. pc \in PCs /\ fd \in BOOLEAN /\ call \in {"none", "fsync", "sync", "close"}
    BY DEF PCs
  <2> QED
    BY <2>1, <2>2 DEF TypeOK
<1>2. InFlightExact /\ ContextNeverFull
  BY None DEF InFlightExact, ContextNeverFull
<1>3. Custody /\ Places /\ Rhythm
  BY None DEF Custody, Places, Rhythm, Submitted
<1>4. Ledger
  <2>1. Held = 0
    BY None DEF Held
  <2> QED
    BY <2>1, Bytes DEF Ledger, Submitted
<1>5. Results /\ FlushVouches
  BY DEF Results, FlushVouches, Submitted
<1> QED
  BY <1>1, <1>2, <1>3, <1>4, <1>5 DEF IInv

\* The kernel executes a request, well or badly: the counters do not move,
\* and a request that has already been collected keeps its result.
LEMMA KernelStep == ASSUME Gentle, IInv, Kernel PROVE IInv'
<1>1. PICK r \in Requests : KernelComplete(r) \/ KernelFail(r)
  BY DEF Kernel
<1> USE AioAssumption
<1>2. /\ r \in outstanding \ completed
      /\ completed' = completed \cup {r}
      /\ UNCHANGED <<pc, fd, call, issued, backend, outstanding, flushed>>
      /\ pc # "aborted"
  BY <1>1 DEF KernelComplete, KernelFail
<1>3. PICK v \in Int : v <= Length /\ result' = [result EXCEPT ![r] = v]
  BY <1>1 DEF KernelComplete, KernelFail, FaultyResults, EIO, Gentle, Fault
<1>4. secondary' = secondary /\ faults' \in 0..MaxFaults
  BY <1>1 DEF KernelComplete, KernelFail, Gentle, Fault, IInv, TypeOK
<1>5. TypeOK'
  BY <1>2, <1>3, <1>4 DEF IInv, TypeOK, backend
<1>6. InFlightExact' /\ ContextNeverFull'
  BY <1>2 DEF IInv, InFlightExact, ContextNeverFull, Returned, backend
<1>7. Custody' /\ Places' /\ Rhythm'
  BY <1>2 DEF IInv, Custody, Places, Rhythm, Submitted, backend
<1>8. \A q \in Requests : q # r => result'[q] = result[q]
  BY <1>3 DEF IInv, TypeOK
<1>9. Results'
  <2>1. Submitted' = Submitted /\ r <= Submitted /\ r \notin outstanding' \ completed'
    BY <1>2 DEF IInv, TypeOK, Custody, Submitted, backend
  <2>2. result'[r] <= Length
    BY <1>3 DEF IInv, TypeOK
  <2>3. ASSUME NEW q \in Requests, q # r
        PROVE  /\ result'[q] <= Length
               /\ (q > Submitted' \/ q \in outstanding' \ completed') => result'[q] = 0
    BY <1>2, <1>8, <2>1, <2>3 DEF IInv, Results
  <2> QED
    BY <1>4, <2>1, <2>2, <2>3 DEF IInv, Results, Requests, TypeOK, Submitted
<1>10. r \notin Landed /\ Landed \subseteq Landed'
  BY <1>2, <1>4, <1>8 DEF Landed, IInv, Results
<1>11. Ledger'
  BY <1>2, <1>10 DEF IInv, Ledger, Held, Submitted, backend
<1>12. FlushVouches'
  BY <1>2, <1>10 DEF IInv, FlushVouches
<1> QED
  BY <1>5, <1>6, <1>7, <1>9, <1>11, <1>12 DEF IInv

\* aio_initialize: nothing is pending when a context is created.
LEMMA InitializeStep == ASSUME IInv, aio_initialize PROVE IInv'
<1> USE AioAssumption
<1>1. /\ pc = "uninit" /\ pc' \in {"idle", "aborted"}
      /\ iocbs_pos = 0 /\ outstanding = {} /\ batch = {} /\ completed = {}
      /\ iocbs_pos' = 0 /\ outstanding' = {} /\ batch' = {} /\ completed' = {}
      /\ pc' = "idle" => in_flight' = 0
      /\ in_flight' \in Nat
      /\ faults' \in 0..MaxFaults
      /\ UNCHANGED <<fd, call, issued, pending_bytes, num_events, result,
                     secondary, flushed>>
  BY DEF aio_initialize, Fault, IInv, Places, TypeOK
<1>2. TypeOK'
  BY <1>1 DEF IInv, TypeOK, PCs
<1>3. InFlightExact' /\ ContextNeverFull'
  BY <1>1, None DEF InFlightExact, ContextNeverFull, Returned
<1>4. Custody' /\ Places' /\ Rhythm'
  BY <1>1, None DEF IInv, TypeOK, Custody, Places, Rhythm, Submitted
<1>5. Results' /\ FlushVouches' /\ Landed' = Landed
  BY <1>1 DEF IInv, Results, FlushVouches, Landed, Submitted
<1>6. Ledger'
  BY <1>1, <1>5 DEF IInv, Ledger, Held, Submitted
<1> QED
  BY <1>2, <1>3, <1>4, <1>5, <1>6 DEF IInv

\* aio_finalize, aio_Open and the entry into process_some move no request.
LEMMA QuietSteps ==
    ASSUME IInv, aio_finalize \/ aio_Open \/ aio_XferFull
    PROVE  IInv'
<1> USE AioAssumption
<1>1. /\ UNCHANGED <<call, issued, backend, kernel, flushed, faults>>
      /\ pc = "idle" /\ pc' # "aborted" /\ pc' # "all" /\ pc' # "allloop"
      /\ pc' # "someloop" /\ pc' \in PCs /\ fd' \in BOOLEAN
  BY DEF aio_finalize, aio_Open, aio_XferFull, PCs, IInv, TypeOK
<1> USE <1>1 DEF backend, kernel
<1>2. TypeOK'
  BY DEF IInv, TypeOK
<1>3. InFlightExact' /\ ContextNeverFull'
  BY DEF IInv, InFlightExact, ContextNeverFull, Returned
<1>4. Custody' /\ Rhythm'
  BY DEF IInv, Custody, Rhythm, Submitted
<1>5. Places'
  <2>1. CASE aio_finalize
    <3>1. in_flight = 0 /\ in_flight = iocbs_pos + Cardinality(outstanding)
      BY <2>1, FiniteRequests
         DEF aio_finalize, IInv, Places, InFlightExact, Returned, TypeOK
    <3>2. iocbs_pos = 0 /\ outstanding = {}
      BY <3>1, FiniteRequests, FS_EmptySet DEF IInv, TypeOK
    <3> QED
      BY <2>1, <3>2 DEF aio_finalize, IInv, Places
  <2>2. CASE aio_Open
    BY <2>2 DEF aio_Open, IInv, Places
  <2>3. CASE aio_XferFull
    BY <2>3 DEF aio_XferFull, IInv, Places, TypeOK
  <2> QED
    BY <2>1, <2>2, <2>3
<1>6. Results' /\ FlushVouches' /\ Ledger'
  BY DEF IInv, Results, FlushVouches, Landed, Submitted, Ledger, Held
<1> QED
  BY <1>2, <1>3, <1>4, <1>5, <1>6 DEF IInv

\* aio_Xfer queues one request more, and submits the array when it is full.
LEMMA EnqueueStep ==
    ASSUME IInv, NEW fly \in Nat, Enqueue(fly),
           pc \in {"idle", "someloop"}, fd, batch = {},
           fly = iocbs_pos + Cardinality(outstanding), fly < MaxPending
    PROVE  IInv'
<1> USE AioAssumption
<1> DEFINE n == iocbs_pos + 1
           new == {r \in Requests : (issued + 1) - n < r /\ r <= issued + 1}
<1>1. /\ issued \in 0..MaxRequests /\ issued < MaxRequests /\ issued' = issued + 1
      /\ iocbs_pos \in Nat /\ iocbs_pos <= issued /\ iocbs_pos < Granularity
      /\ pending_bytes \in Int /\ pending_bytes' = pending_bytes + Length
      /\ in_flight' = fly + 1 /\ faults' \in 0..MaxFaults
      /\ UNCHANGED <<fd, call, num_events, batch, flushed>>
      /\ UNCHANGED <<completed, result, secondary>>
  BY DEF IInv, TypeOK, Custody, Enqueue, submit_pending, Fault, kernel
<1>2. /\ Cardinality(outstanding) \in Nat
      /\ outstanding \subseteq Requests
      /\ outstanding \subseteq 1..(issued - iocbs_pos)
      /\ completed \subseteq outstanding
  BY FiniteRequests DEF IInv, TypeOK, Custody, Submitted
<1>3. \/ /\ n = Granularity /\ iocbs_pos' = 0 /\ pc' = "idle"
         /\ outstanding' = outstanding \cup new
      \/ /\ n <= Granularity /\ iocbs_pos' = n /\ pc' = "aborted"
         /\ outstanding' = outstanding
      \/ /\ n < Granularity /\ iocbs_pos' = n /\ pc' = "idle"
         /\ outstanding' = outstanding
  BY <1>1 DEF Enqueue, submit_pending, Accepts, kernel
<1>4. new \subseteq Requests /\ outstanding \cap new = {} /\ Cardinality(new) = n
  <2>1. n \in 0..(issued + 1) /\ issued + 1 \in 0..MaxRequests
    BY <1>1
  <2>2. Cardinality(new) = n
    BY <2>1, Batch
  <2>3. \A r \in outstanding : ~((issued + 1) - n < r)
    BY <1>1, <1>2
  <2> QED
    BY <2>2, <2>3
<1>5. Cardinality(outstanding \cup new) = Cardinality(outstanding) + n
  BY <1>2, <1>4, Join
<1>6. /\ Cardinality(outstanding') \in Nat
      /\ iocbs_pos' + Cardinality(outstanding')
           = iocbs_pos + Cardinality(outstanding) + 1
  BY <1>1, <1>2, <1>3, <1>5
<1> HIDE DEF n
<1>7. TypeOK'
  <2>1. outstanding' \subseteq Requests /\ completed' \subseteq outstanding'
    BY <1>1, <1>2, <1>3, <1>4
  <2>2. iocbs_pos' \in Nat /\ issued' \in 0..MaxRequests
    BY <1>1, <1>3 DEF n
  <2>3. pc' \in PCs
    BY <1>3 DEF PCs
  <2> QED
    BY <1>1, <2>1, <2>2, <2>3 DEF IInv, TypeOK
<1>8. Rhythm'
  <2>1. MaxPending >= 2 * Granularity - 1 \/ Cardinality(outstanding) \in {0, Granularity}
    BY DEF IInv, Rhythm
  <2>2. n = Granularity /\ MaxPending < 2 * Granularity - 1 => Cardinality(outstanding) = 0
    BY <1>1, <1>2, <2>1 DEF n
  <2>3. n = Granularity /\ MaxPending < 2 * Granularity - 1
          => Cardinality(outstanding \cup new) = Granularity
    BY <1>5, <2>2 DEF n
  <2>4. MaxPending >= 2 * Granularity - 1 \/ MaxPending < 2 * Granularity - 1
    OBVIOUS
  <2>5. \/ MaxPending >= 2 * Granularity - 1
        \/ pc' = "aborted"
        \/ Cardinality(outstanding') \in {0, Granularity}
    BY ONLY <1>3, <2>1, <2>3, <2>4
  <2> QED
    BY <2>5 DEF Rhythm
<1>9. InFlightExact' /\ ContextNeverFull'
  BY <1>1, <1>2, <1>3, <1>6
     DEF InFlightExact, ContextNeverFull, Returned, IInv, n
<1>10. Custody'
  <2>1. iocbs_pos' <= issued' /\ (pc' # "aborted" => iocbs_pos' < Granularity)
    BY <1>1, <1>3 DEF n
  <2>2. outstanding' \subseteq 1..(issued' - iocbs_pos')
    <3>1. \A r \in outstanding : r \in 1..(issued' - iocbs_pos')
      BY <1>1, <1>2, <1>3 DEF n
    <3>2. \A r \in new : r \in 1..(issued + 1)
      BY DEF Requests
    <3> QED
      BY <1>1, <1>3, <3>1, <3>2
  <2> QED
    BY <1>1, <2>1, <2>2 DEF Custody, Submitted
<1>11. Places'
  BY <1>1, <1>3, <1>6 DEF Places
<1>12. Results' /\ FlushVouches' /\ Landed' = Landed
  BY <1>1, <1>2, <1>3
     DEF IInv, TypeOK, Results, FlushVouches, Landed, Submitted, n, Requests
<1>13. Ledger'
  <2>1. Held \in Int /\ Held' = Held + 1
    BY <1>1, <1>2, <1>6, None DEF Held
  <2>2. pending_bytes' - Length * Held' = pending_bytes - Length * Held
    BY <1>1, <2>1, Bytes
  <2>3. /\ pending_bytes' >= Length * Held' <=> pending_bytes >= Length * Held
        /\ pending_bytes' = Length * Held' <=> pending_bytes = Length * Held
    BY <1>1, <2>1, <2>2, Bytes
  <2>4. pc' # "aborted" => 1..Submitted' \ (outstanding' \cup batch')
                              \subseteq 1..Submitted \ (outstanding \cup batch)
    BY <1>1, <1>2, <1>3 DEF Submitted, n, Requests
  <2> QED
    BY <1>12, <2>3, <2>4 DEF IInv, Ledger
<1> QED
  BY <1>7, <1>8, <1>9, <1>10, <1>11, <1>12, <1>13 DEF IInv

\* aio_Xfer with room in the context.
LEMMA XferStep == ASSUME IInv, aio_Xfer PROVE IInv'
<1>1. /\ pc = "idle" /\ fd /\ in_flight < MaxPending /\ Enqueue(in_flight)
      /\ in_flight \in Nat /\ batch = {}
      /\ in_flight = iocbs_pos + Cardinality(outstanding)
  BY FiniteRequests
     DEF aio_Xfer, IInv, TypeOK, Places, InFlightExact, Returned
<1> QED
  BY <1>1, EnqueueStep

\* aio_Xfer after process_some has made room.
LEMMA ProcessSomeReturnsStep == ASSUME IInv, ProcessSomeReturns PROVE IInv'
<1>1. /\ pc = "someloop" /\ fd /\ batch = {} /\ Enqueue(in_flight - num_events)
      /\ in_flight = MaxPending /\ num_events \in Int /\ num_events >= Granularity
      /\ iocbs_pos \in Nat /\ Cardinality(outstanding) \in Nat
      /\ in_flight = iocbs_pos + Cardinality(outstanding) + num_events
  BY FiniteRequests
     DEF ProcessSomeReturns, IInv, TypeOK, Places, InFlightExact, Returned
<1>2. /\ in_flight - num_events \in Nat
      /\ in_flight - num_events = iocbs_pos + Cardinality(outstanding)
      /\ in_flight - num_events < MaxPending
  BY <1>1, AioAssumption
<1> QED
  BY <1>1, <1>2, EnqueueStep

\* The entry into complete_all empties the array.
LEMMA CompleteAllEntryStep ==
    ASSUME IInv, NEW kind \in {"fsync", "sync", "close"}, complete_all(kind)
    PROVE  IInv'
<1> USE AioAssumption
<1> DEFINE n == iocbs_pos
           new == {r \in Requests : issued - n < r /\ r <= issued}
<1>1. /\ pc = "idle" /\ batch = {} /\ in_flight <= MaxPending /\ in_flight \in Nat
      /\ in_flight = iocbs_pos + Cardinality(outstanding)
      /\ issued \in 0..MaxRequests /\ iocbs_pos \in 0..issued
      /\ call' = kind /\ faults' \in 0..MaxFaults
      /\ UNCHANGED <<fd, issued, in_flight, pending_bytes, num_events, batch, flushed>>
      /\ UNCHANGED <<completed, result, secondary>>
  BY FiniteRequests
     DEF complete_all, submit_pending, Fault, kernel, IInv, TypeOK, Places,
         InFlightExact, Returned, Custody
<1>2. /\ Cardinality(outstanding) \in Nat
      /\ outstanding \subseteq Requests
      /\ outstanding \subseteq 1..(issued - iocbs_pos)
      /\ completed \subseteq outstanding
  BY FiniteRequests DEF IInv, TypeOK, Custody, Submitted
<1>3. \/ /\ iocbs_pos' = 0 /\ pc' = "all"
         /\ outstanding' = outstanding \cup new
      \/ /\ iocbs_pos' = n /\ pc' = "aborted"
         /\ outstanding' = outstanding
  BY <1>1 DEF complete_all, submit_pending, Accepts, kernel
<1>4. new \subseteq Requests /\ outstanding \cap new = {} /\ Cardinality(new) = n
  <2>1. Cardinality(new) = n
    BY <1>1, Batch
  <2>2. \A r \in outstanding : ~(issued - n < r)
    BY <1>1, <1>2
  <2> QED
    BY <2>1, <2>2
<1>5. Cardinality(outstanding \cup new) = Cardinality(outstanding) + n
  BY <1>2, <1>4, Join
<1>6. /\ Cardinality(outstanding') \in Nat
      /\ iocbs_pos' + Cardinality(outstanding') = iocbs_pos + Cardinality(outstanding)
  BY <1>1, <1>2, <1>3, <1>5
<1>7. TypeOK'
  <2>1. outstanding' \subseteq Requests /\ completed' \subseteq outstanding'
    BY <1>1, <1>2, <1>3, <1>4
  <2>2. iocbs_pos' \in Nat
    BY <1>1, <1>3
  <2>3. pc' \in PCs
    BY <1>3 DEF PCs
  <2> QED
    BY <1>1, <2>1, <2>2, <2>3 DEF IInv, TypeOK
<1>8. InFlightExact' /\ ContextNeverFull' /\ Places' /\ Rhythm'
  BY <1>1, <1>2, <1>3, <1>5, <1>6
     DEF InFlightExact, ContextNeverFull, Places, Rhythm, Returned, IInv
<1>9. Custody'
  <2>1. iocbs_pos' <= issued' /\ (pc' # "aborted" => iocbs_pos' < Granularity)
    BY <1>1, <1>3
  <2>2. outstanding' \subseteq 1..(issued' - iocbs_pos')
    <3>1. \A r \in outstanding : r \in 1..(issued' - iocbs_pos')
      BY <1>1, <1>2, <1>3
    <3>2. \A r \in new : r \in 1..issued
      BY DEF Requests
    <3> QED
      BY <1>1, <1>3, <3>1, <3>2
  <2> QED
    BY <1>1, <2>1, <2>2 DEF Custody, Submitted
<1>10. Results' /\ FlushVouches' /\ Landed' = Landed
  BY <1>1, <1>2, <1>3
     DEF IInv, TypeOK, Results, FlushVouches, Landed, Submitted, Requests
<1>11. Ledger'
  <2>1. Held' = Held
    BY <1>1, <1>6 DEF Held
  <2>2. pc' # "aborted" => 1..Submitted' \ (outstanding' \cup batch')
                              \subseteq 1..Submitted \ (outstanding \cup batch)
    BY <1>1, <1>2, <1>3 DEF Submitted, Requests
  <2> QED
    BY <1>1, <1>10, <2>1, <2>2 DEF IInv, Ledger
<1> QED
  BY <1>7, <1>8, <1>9, <1>10, <1>11 DEF IInv

\* io_getevents without a signal: the events move from the kernel to events[].
LEMMA GetEventsFact ==
    ASSUME Gentle, IInv, NEW minimum, GetEvents(minimum), batch = {}
    PROVE  /\ num_events' = Cardinality(batch')
           /\ num_events' \in Nat /\ num_events' >= minimum
           /\ batch' \subseteq completed
           /\ outstanding' = outstanding \ batch'
           /\ completed' = completed \ batch'
           /\ Cardinality(outstanding') = Cardinality(outstanding) - num_events'
           /\ Cardinality(outstanding') \in Nat
           /\ UNCHANGED <<result, secondary, faults>>
<1>1. /\ num_events' = Cardinality(batch') /\ num_events' >= minimum
      /\ batch' \subseteq completed
      /\ outstanding' = outstanding \ batch'
      /\ completed' = completed \ batch'
      /\ UNCHANGED <<result, secondary, faults>>
  BY DEF GetEvents, Gentle, Fault
<1>2. outstanding \subseteq Requests /\ batch' \subseteq outstanding
  BY <1>1 DEF IInv, TypeOK
<1> QED
  BY <1>1, <1>2, FiniteRequests, Part

\* What a collection of events in process_some or complete_all preserves.
LEMMA CollectStep ==
    ASSUME Gentle, IInv, NEW minimum, GetEvents(minimum), batch = {},
           pc \in {"some", "all"}, pc' \in {"someloop", "allloop"}, Places',
           UNCHANGED <<fd, call, issued, iocbs_pos, in_flight, pending_bytes, flushed>>,
           pc' = "someloop" => pc = "some" /\ minimum = Granularity
    PROVE  IInv'
<1> USE AioAssumption
<1>1. /\ num_events' = Cardinality(batch')
      /\ num_events' \in Nat /\ num_events' >= minimum
      /\ batch' \subseteq completed
      /\ outstanding' = outstanding \ batch'
      /\ completed' = completed \ batch'
      /\ Cardinality(outstanding') = Cardinality(outstanding) - num_events'
      /\ Cardinality(outstanding') \in Nat
      /\ UNCHANGED <<result, secondary, faults>>
  BY GetEventsFact
<1>2. /\ outstanding \subseteq Requests /\ completed \subseteq outstanding
      /\ Cardinality(outstanding) \in Nat
  BY FiniteRequests DEF IInv, TypeOK
<1>3. TypeOK'
  <2>1. /\ batch' \subseteq Requests /\ outstanding' \subseteq Requests
        /\ completed' \subseteq outstanding'
    BY <1>1, <1>2
  <2>2. pc' \in PCs
    BY DEF PCs
  <2> QED
    BY <1>1, <2>1, <2>2 DEF IInv, TypeOK
<1>4. InFlightExact'
  <2>1. in_flight = iocbs_pos + Cardinality(outstanding)
    BY <1>2 DEF IInv, TypeOK, InFlightExact, Returned
  <2> QED
    BY <1>1, <1>2, <2>1 DEF InFlightExact, Returned, IInv, TypeOK
<1>5. ContextNeverFull'
  BY <1>1, <1>2 DEF IInv, ContextNeverFull
<1>6. Custody'
  BY <1>1, <1>2 DEF IInv, Custody, Submitted
<1>7. Rhythm'
  BY <1>1, <1>2 DEF IInv, Rhythm
<1>8. Landed' = Landed
  BY <1>1 DEF Landed
<1>9. Results' /\ FlushVouches'
  BY <1>1, <1>2, <1>8 DEF IInv, Results, FlushVouches, Submitted
<1>10. Ledger'
  <2>1. Held' = Held
    BY <1>1, <1>2, None DEF Held, IInv, TypeOK
  <2>2. outstanding' \cup batch' = outstanding \cup batch
    BY <1>1, <1>2
  <2> QED
    BY <1>8, <2>1, <2>2 DEF IInv, Ledger, Submitted
<1> QED
  BY <1>3, <1>4, <1>5, <1>6, <1>7, <1>9, <1>10 DEF IInv

\* process_some never asks for more than the kernel holds.
LEMMA Waits == IInv => WaitsAreMet
<1> SUFFICES ASSUME IInv PROVE WaitsAreMet
  OBVIOUS
<1>1. Cardinality(outstanding) \in Nat /\ iocbs_pos \in Nat
  BY FiniteRequests DEF IInv, TypeOK
<1>2. ASSUME pc = "some" PROVE SomeMinimum <= Cardinality(outstanding)
  <2>1. /\ in_flight = MaxPending /\ SomeMinimum = Granularity
        /\ in_flight = iocbs_pos + Cardinality(outstanding)
        /\ iocbs_pos < Granularity
    BY <1>1, <1>2, AioAssumption
       DEF IInv, Places, Custody, InFlightExact, Returned, SomeMinimum
  <2>2. MaxPending >= 2 * Granularity - 1 \/ Cardinality(outstanding) \in {0, Granularity}
    BY <1>2 DEF IInv, Rhythm
  <2> QED
    BY <1>1, <2>1, <2>2, AioAssumption
<1>3. ASSUME pc = "all" PROVE in_flight <= Cardinality(outstanding)
  BY <1>1, <1>3 DEF IInv, Places, InFlightExact, Returned
<1> QED
  BY <1>2, <1>3 DEF WaitsAreMet

LEMMA ProcessSomeStep == ASSUME Gentle, IInv, ProcessSome PROVE IInv'
<1>1. /\ pc = "some" /\ pc' = "someloop" /\ batch = {} /\ GetEvents(SomeMinimum)
      /\ in_flight = MaxPending /\ fd /\ issued < MaxRequests
      /\ UNCHANGED <<fd, call, issued, iocbs_pos, in_flight, pending_bytes, flushed>>
  BY DEF ProcessSome, IInv, Places
<1>2. SomeMinimum = Granularity
  BY <1>1, AioAssumption DEF SomeMinimum
<1>3. num_events' >= Granularity
  BY <1>1, <1>2, GetEventsFact
<1>4. Places'
  BY <1>1, <1>3 DEF Places
<1> QED
  BY <1>1, <1>2, <1>4, CollectStep

LEMMA CompleteAllStep == ASSUME Gentle, IInv, CompleteAll PROVE IInv'
<1>1. /\ pc = "all" /\ pc' = "allloop" /\ batch = {} /\ GetEvents(in_flight)
      /\ iocbs_pos = 0
      /\ UNCHANGED <<fd, call, issued, iocbs_pos, in_flight, pending_bytes, flushed>>
  BY DEF CompleteAll, IInv, Places
<1>2. /\ outstanding \subseteq Requests /\ completed \subseteq outstanding
      /\ Cardinality(outstanding) \in Nat /\ in_flight = Cardinality(outstanding)
  BY <1>1, FiniteRequests DEF IInv, TypeOK, InFlightExact, Returned
<1>3. /\ Cardinality(batch') >= Cardinality(outstanding) /\ batch' \subseteq completed
      /\ outstanding' = outstanding \ batch'
  BY <1>1, <1>2, GetEventsFact
<1>4. batch' = outstanding
  BY <1>2, <1>3, Part
<1>5. Places'
  BY <1>1, <1>3, <1>4 DEF Places
<1> QED
  BY <1>1, <1>5, CollectStep

\* A round of the loop: one request leaves the books, and the bytes it did
\* not move stay in pending_bytes.
LEMMA HandleEventStep ==
    ASSUME IInv, NEW e \in Requests, HandleEvent(e)
    PROVE  IInv'
<1> USE AioAssumption
<1>1. /\ pc \in {"someloop", "allloop"} /\ e \in batch
      /\ UNCHANGED <<fd, call, issued, iocbs_pos, in_flight, num_events, flushed, faults>>
      /\ UNCHANGED <<outstanding, completed, result, secondary>>
  BY DEF HandleEvent, kernel
<1>2. \/ pc' = "aborted" /\ UNCHANGED <<pending_bytes, batch>>
      \/ /\ pc' = pc
         /\ pending_bytes' = pending_bytes - result[e]
         /\ batch' = batch \ {e}
  BY DEF HandleEvent
<1>3. TypeOK'
  <2>1. pending_bytes' \in Int /\ batch' \subseteq Requests /\ pc' \in PCs
    BY <1>1, <1>2 DEF IInv, TypeOK, PCs
  <2> QED
    BY <1>1, <2>1 DEF IInv, TypeOK
<1>4. InFlightExact' /\ ContextNeverFull' /\ Rhythm'
  BY <1>1, <1>2 DEF IInv, InFlightExact, ContextNeverFull, Rhythm, Returned
<1>5. Custody' /\ Places'
  BY <1>1, <1>2 DEF IInv, Custody, Places, Submitted
<1>6. Results' /\ FlushVouches' /\ Landed' = Landed
  BY <1>1 DEF IInv, Results, FlushVouches, Landed, Submitted
<1>7. Ledger'
  <2>1. CASE pc' = "aborted"
    BY <2>1 DEF Ledger
  <2>2. CASE /\ pc' = pc
             /\ pending_bytes' = pending_bytes - result[e]
             /\ batch' = batch \ {e}
    <3>1. /\ IsFiniteSet(batch) /\ Cardinality(batch) \in Nat
          /\ Cardinality(outstanding) \in Nat /\ iocbs_pos \in Nat
          /\ result[e] \in Int /\ result[e] <= Length
          /\ pending_bytes \in Int
      BY FiniteRequests DEF IInv, TypeOK, Results
    <3>2. Cardinality(batch') = Cardinality(batch) - 1
      BY <1>1, <2>2, <3>1, FS_RemoveElement
    <3>3. Held \in Int /\ Held' = Held - 1
      BY <1>1, <3>1, <3>2 DEF Held
    <3>4. /\ Length * Held' = Length * Held - Length /\ Length * Held \in Int
      BY <3>3, Bytes
    <3>5. pending_bytes >= Length * Held
      BY <1>1 DEF IInv, Ledger
    <3>6. pending_bytes' >= Length * Held'
      BY <2>2, <3>1, <3>4, <3>5
    <3>7. pending_bytes' = Length * Held'
            => pending_bytes = Length * Held /\ result[e] = Length
      BY <2>2, <3>1, <3>4, <3>5
    <3>8. result[e] = Length => e \in Landed
      BY DEF IInv, Results, Landed
    <3>9. pending_bytes = Length * Held
            => 1..Submitted \ (outstanding \cup batch) \subseteq Landed
      BY <1>1 DEF IInv, Ledger
    <3> QED
      BY <1>1, <1>6, <2>2, <3>6, <3>7, <3>8, <3>9 DEF Ledger, Submitted
  <2> QED
    BY <1>2, <2>1, <2>2
<1> QED
  BY <1>3, <1>4, <1>5, <1>6, <1>7 DEF IInv

\* When complete_all finds pending_bytes = 0, every transfer landed.
LEMMA FlushIsTrue ==
    ASSUME IInv, pc = "allloop", batch = {}, pending_bytes = 0
    PROVE  1..issued \subseteq Landed /\ iocbs_pos = 0 /\ outstanding = {}
<1>1. iocbs_pos = 0 /\ outstanding = {} /\ issued \in Nat
  BY DEF IInv, Places, TypeOK
<1>2. Held = 0 /\ Submitted = issued
  BY <1>1, None DEF Held, Submitted
<1>3. pending_bytes = Length * Held
  BY <1>2, Bytes
<1> QED
  BY <1>1, <1>2, <1>3 DEF IInv, Ledger

LEMMA CompleteAllReturnsStep == ASSUME IInv, CompleteAllReturns PROVE IInv'
<1> USE AioAssumption
<1>1. /\ pc = "allloop" /\ batch = {}
      /\ UNCHANGED <<issued, iocbs_pos, pending_bytes, num_events, batch, faults>>
      /\ UNCHANGED <<outstanding, completed, result, secondary>>
  BY DEF CompleteAllReturns, kernel
<1>2. iocbs_pos = 0 /\ outstanding = {}
  BY <1>1 DEF IInv, Places
<1>3. CASE pending_bytes # 0
  <2>1. pc' = "aborted" /\ UNCHANGED <<fd, call, in_flight, flushed>>
    BY <1>3 DEF CompleteAllReturns
  <2>2. TypeOK'
    BY <1>1, <2>1 DEF IInv, TypeOK, PCs
  <2> QED
    BY <1>1, <2>1, <2>2
       DEF IInv, InFlightExact, ContextNeverFull, Custody, Places, Rhythm,
           Ledger, Results, FlushVouches, Landed, Submitted
<1>4. CASE pending_bytes = 0
  <2>1. /\ pc' = "idle" /\ in_flight' = 0 /\ flushed' = issued /\ call' = "none"
        /\ fd' \in BOOLEAN
    BY <1>4 DEF CompleteAllReturns, IInv, TypeOK
  <2>2. TypeOK'
    BY <1>1, <2>1 DEF IInv, TypeOK, PCs
  <2>3. InFlightExact' /\ ContextNeverFull' /\ Custody' /\ Places' /\ Rhythm'
    BY <1>1, <1>2, <2>1, None
       DEF IInv, InFlightExact, ContextNeverFull, Custody, Places, Rhythm,
           Returned, Submitted
  <2>4. Landed' = Landed /\ 1..issued \subseteq Landed
    BY <1>1, <1>4, FlushIsTrue DEF Landed
  <2>5. Results' /\ FlushVouches' /\ Ledger'
    BY <1>1, <2>1, <2>4 DEF IInv, Results, FlushVouches, Ledger, Held, Submitted
  <2> QED
    BY <2>2, <2>3, <2>5 DEF IInv
<1> QED
  BY <1>3, <1>4

\* Nothing happens to the books in a stuttering step.
LEMMA StutterStep == ASSUME IInv, UNCHANGED vars PROVE IInv'
  BY DEF vars, backend, kernel, IInv, TypeOK, InFlightExact, ContextNeverFull,
         Custody, Places, Rhythm, Ledger, Results, FlushVouches, Returned,
         Held, Submitted, Landed

LEMMA IInvNext == ASSUME Gentle, IInv, [Next]_vars PROVE IInv'
<1>1. CASE Kernel
  BY <1>1, KernelStep
<1>2. CASE InCall
  BY <1>2, ProcessSomeStep, CompleteAllStep, HandleEventStep,
     ProcessSomeReturnsStep, CompleteAllReturnsStep DEF InCall
<1>3. CASE Caller
  BY <1>3, InitializeStep, QuietSteps, XferStep, CompleteAllEntryStep DEF Caller
<1>4. CASE UNCHANGED vars
  BY <1>4, StutterStep
<1> QED
  BY <1>1, <1>2, <1>3, <1>4 DEF Next, Aborted

----------------------------------------------------------------------------
(* The theorems.                                                           *)

\* The inductive invariant holds in every reachable state, for every size of
\* the context, of the batches and of the run.
THEOREM Invariance == ASSUME Gentle PROVE Spec => []IInv
<1>1. Init => IInv
  BY IInvInit
<1>2. IInv /\ [Next]_vars => IInv'
  BY IInvNext
<1> QED
  BY <1>1, <1>2, PTL DEF Spec

\* Every variable of the backend keeps its type.
THEOREM TypeCorrect == ASSUME Gentle PROVE Spec => []TypeOK
<1>1. IInv => TypeOK
  BY DEF IInv
<1> QED
  BY <1>1, Invariance, PTL

\* io_getevents, called by process_some and complete_all without a timeout,
\* never waits for an event no submitted request can deliver, although
\* in_flight also counts the requests still in iocbs.
THEOREM NoOverWait == ASSUME Gentle PROVE Spec => []WaitsAreMet
<1>1. IInv => WaitsAreMet
  BY Waits
<1> QED
  BY <1>1, Invariance, PTL

\* The kernel never holds more requests than io_setup was asked for, so
\* io_submit has no reason to return EAGAIN (the message in submit_pending).
THEOREM NoEagain == ASSUME Gentle PROVE Spec => []ContextNeverFull
<1>1. IInv => ContextNeverFull
  BY DEF IInv
<1> QED
  BY <1>1, Invariance, PTL

\* in_flight is exactly the number of requests in iocbs and in the kernel.
THEOREM InFlightIsExact == ASSUME Gentle PROVE Spec => []InFlightExact
<1>1. IInv => InFlightExact
  BY DEF IInv
<1> QED
  BY <1>1, Invariance, PTL

\* A flush that returns vouches only for transfers that landed in full: the
\* check of pending_bytes in complete_all misses no short or failed request.
THEOREM FlushIsHonest == ASSUME Gentle PROVE Spec => []FlushVouches
<1>1. IInv => FlushVouches
  BY DEF IInv
<1> QED
  BY <1>1, Invariance, PTL

----------------------------------------------------------------------------
(* The backend implements AioPromise.                                      *)

\* The initial states map to initial states of the promise.
LEMMA PromiseInit == Init => Promise!Init
<1> SUFFICES ASSUME Init PROVE Promise!Init
  OBVIOUS
<1>1. 1..issued = {} /\ 1..flushed = {} /\ pc # "aborted"
  BY DEF Init
<1>2. Landed = {}
  BY AioAssumption DEF Init, Landed
<1> QED
  BY <1>1, <1>2 DEF Promise!Init

\* A request the kernel executes lands, or stays where it is.
LEMMA KernelPromise ==
    ASSUME Gentle, IInv, NEW r \in Requests, KernelComplete(r) \/ KernelFail(r)
    PROVE  [Promise!Next]_Promise!vars
<1> USE AioAssumption
<1>1. /\ pc # "aborted" /\ r \in outstanding \ completed
      /\ UNCHANGED <<pc, issued, flushed, secondary>>
      /\ secondary = {} /\ result \in [Requests -> Int] /\ result[r] = 0
      /\ r \in 1..issued
  BY DEF KernelComplete, KernelFail, Fault, Gentle, IInv, Results, TypeOK,
         Custody, Submitted, Requests
<1>2. PICK v \in Int : result' = [result EXCEPT ![r] = v]
  BY DEF KernelComplete, KernelFail, FaultyResults, EIO, Gentle, Fault
<1>3. r \notin Landed
  BY <1>1 DEF Landed
<1>4. CASE v = Length
  <2>1. Landed' = Landed \cup {r}
    BY <1>1, <1>2, <1>4 DEF Landed
  <2>2. Promise!Land(r)
    BY <1>1, <1>3, <2>1 DEF Promise!Land
  <2> QED
    BY <2>2 DEF Promise!Next
<1>5. CASE v # Length
  <2>1. Landed' = Landed
    BY <1>1, <1>2, <1>3, <1>5 DEF Landed
  <2> QED
    BY <1>1, <2>1 DEF Promise!vars
<1> QED
  BY <1>4, <1>5

\* Queueing a transfer accepts it, even when its submission ends the run.
LEMMA EnqueuePromise ==
    ASSUME IInv, NEW fly, Enqueue(fly), pc # "aborted"
    PROVE  Promise!Next
<1> USE AioAssumption
<1>1. /\ issued \in 0..MaxRequests /\ issued < MaxRequests /\ issued' = issued + 1
      /\ pc' \in {"idle", "aborted"}
      /\ UNCHANGED <<result, secondary, flushed>>
  BY DEF Enqueue, submit_pending, kernel, IInv, TypeOK
<1>2. /\ Landed' = Landed
      /\ issued + 1 \in Requests \ 1..issued
      /\ 1..issued' = 1..issued \cup {issued + 1}
  BY <1>1 DEF Landed, Requests
<1>3. CASE pc' = "idle"
  <2>1. Promise!Accept(issued + 1)
    BY <1>1, <1>2, <1>3 DEF Promise!Accept
  <2> QED
    BY <1>2, <2>1 DEF Promise!Next
<1>4. CASE pc' = "aborted"
  <2>1. {issued + 1} \in SUBSET (Requests \ 1..issued)
    BY <1>2
  <2>2. Promise!Fail
    BY <1>1, <1>2, <1>4, <2>1 DEF Promise!Fail
  <2> QED
    BY <2>2 DEF Promise!Next
<1> QED
  BY <1>1, <1>3, <1>4

\* A step that neither queues, completes nor flushes stutters, or fails the run.
LEMMA OtherPromise ==
    ASSUME pc # "aborted",
           UNCHANGED <<issued, result, secondary, flushed>>
    PROVE  [Promise!Next]_Promise!vars
<1>1. Landed' = Landed
  BY DEF Landed
<1>2. CASE pc' = "aborted"
  <2>1. {} \in SUBSET (Requests \ 1..issued) /\ 1..issued' = 1..issued \cup {}
    OBVIOUS
  <2>2. Promise!Fail
    BY <1>1, <1>2, <2>1 DEF Promise!Fail
  <2> QED
    BY <2>2 DEF Promise!Next
<1>3. CASE pc' # "aborted"
  BY <1>1, <1>3 DEF Promise!vars
<1> QED
  BY <1>2, <1>3

\* The return of complete_all is a flush, or fails the run.
LEMMA ReturnPromise ==
    ASSUME IInv, CompleteAllReturns
    PROVE  [Promise!Next]_Promise!vars
<1>1. CASE pending_bytes # 0
  BY <1>1, OtherPromise DEF CompleteAllReturns, kernel
<1>2. CASE pending_bytes = 0
  <2>1. /\ pc = "allloop" /\ pc' = "idle" /\ flushed' = issued
        /\ UNCHANGED <<issued, result, secondary>>
    BY <1>2 DEF CompleteAllReturns, kernel
  <2>2. 1..issued \subseteq Landed
    BY <1>2, <2>1, FlushIsTrue DEF CompleteAllReturns
  <2>3. Promise!Flush
    BY <2>1, <2>2 DEF Promise!Flush, Landed
  <2> QED
    BY <2>3 DEF Promise!Next
<1> QED
  BY <1>1, <1>2

\* Every step of the backend and the kernel maps to a step of the promise.
LEMMA PromiseStep ==
    ASSUME Gentle, IInv, [Next]_vars
    PROVE  [Promise!Next]_Promise!vars
<1>1. CASE Kernel
  BY <1>1, KernelPromise DEF Kernel
<1>2. CASE aio_Xfer \/ ProcessSomeReturns
  BY <1>2, EnqueuePromise DEF aio_Xfer, ProcessSomeReturns
<1>3. CASE CompleteAllReturns
  BY <1>3, ReturnPromise
<1>4. CASE aio_initialize \/ aio_finalize \/ aio_Open \/ aio_XferFull
  BY <1>4, OtherPromise
     DEF aio_initialize, aio_finalize, aio_Open, aio_XferFull, kernel
<1>5. ASSUME NEW kind \in {"fsync", "sync", "close"}, complete_all(kind)
      PROVE  [Promise!Next]_Promise!vars
  BY <1>5, OtherPromise DEF complete_all, submit_pending, kernel
<1>6. CASE ProcessSome \/ CompleteAll
  BY <1>6, OtherPromise DEF ProcessSome, CompleteAll, GetEvents
<1>7. ASSUME NEW e \in Requests, HandleEvent(e)
      PROVE  [Promise!Next]_Promise!vars
  BY <1>7, OtherPromise DEF HandleEvent, kernel
<1>8. CASE UNCHANGED vars
  BY <1>8 DEF vars, kernel, Promise!vars, Landed
<1> QED
  BY <1>1, <1>2, <1>3, <1>4, <1>5, <1>6, <1>7, <1>8
     DEF Next, InCall, Caller, Aborted

\* The backend keeps the promise of AioPromise.
THEOREM KeepsPromise == ASSUME Gentle PROVE Spec => PromiseKept
<1>1. Init => Promise!Init
  BY PromiseInit
<1>2. IInv /\ [Next]_vars => [Promise!Next]_Promise!vars
  BY PromiseStep
<1> QED
  BY <1>1, <1>2, Invariance, PTL DEF Spec, PromiseKept, Promise!Spec

----------------------------------------------------------------------------
(* IOR's transfer loop above the backend.                                   *)

\* Where the loop is, and what it holds there.
LoopType ==
    /\ at \in {"open", "loop", "xfer", "fsync", "compare", "close", "done"}
    /\ access \in {"WRITE", "WRITECHECK"}
    /\ file \in [Offsets -> Int]

\* While writing, only the transfer that is being flushed has not landed; when
\* the writes are over they have all landed.
OneAtATime ==
    /\ access = "WRITE" => issued <= Writes
    /\ access = "WRITE" /\ at # "fsync" => 1..issued \subseteq Landed
    /\ at = "fsync" => /\ access = "WRITE" /\ issued > 0
                       /\ 1..(issued - 1) \subseteq Landed
    /\ access = "WRITECHECK" => 1..Writes \subseteq Landed

\* The buffer holds the pattern of the transfer that the kernel reads it for.
Filled ==
    /\ access = "WRITE" /\ at = "xfer" => issued < Writes /\ buffer = issued + 1
    /\ at = "fsync" => buffer = issued

\* What has landed is in the file.
InFile == \A k \in Offsets \cap Landed : file[k] = k

LoopInv == LoopType /\ OneAtATime /\ Filled /\ InFile

----------------------------------------------------------------------------
(* The loop uses the backend as it is: its steps are steps of Aio.          *)

\* A step of the loop, of the backend or of the kernel is one of Aio.
LEMMA LoopStep == ASSUME [BufferNext]_bufferVars PROVE [Next]_vars
<1>1. ASSUME NEW r \in Requests, Execute(r) PROVE Kernel
  BY <1>1 DEF Execute, Kernel
<1>2. CASE Open
  BY <1>2 DEF Open, Next, Caller
<1>3. CASE Prepare \/ CompareData
  BY <1>3 DEF Prepare, CompareData
<1>4. CASE Xfer
  BY <1>4 DEF Xfer, Next, InCall, Caller
<1>5. ASSUME NEW kind \in {"fsync", "close"}, Flush(kind) PROVE Next
  BY <1>5 DEF Flush, Next, InCall, Caller
<1>6. CASE FsyncAfterWrite \/ Close
  BY <1>5, <1>6 DEF FsyncAfterWrite, Close
<1>7. CASE Done \/ UNCHANGED bufferVars
  BY <1>7 DEF Done, bufferVars
<1> QED
  BY <1>1, <1>2, <1>3, <1>4, <1>6, <1>7 DEF BufferNext, Next

\* The transfer loop leaves the backend all the guarantees of AioProofs.
LEMMA LoopUsesBackend == BufferSpec => Spec
<1>1. BufferInit => Init
  BY DEF BufferInit
<1> QED
  BY <1>1, LoopStep, PTL DEF BufferSpec, Spec

\* So it never waits in vain, and no flush lies to it.
LEMMA BackendInvariant == ASSUME Gentle PROVE BufferSpec => []IInv
  BY LoopUsesBackend, Invariance, PTL

----------------------------------------------------------------------------
(* LoopInv is inductive.                                                   *)

\* Nothing is queued or written yet.
LEMMA LoopInit == ASSUME WriteAndCheck PROVE BufferInit => LoopInv
<1> SUFFICES ASSUME BufferInit PROVE LoopInv
  OBVIOUS
<1>1. Landed = {}
  BY AioAssumption DEF BufferInit, Init, Landed
<1> QED
  BY <1>1 DEF WriteAndCheck, BufferInit, Init, LoopInv, LoopType, OneAtATime,
     Filled, InFile, Invalid, Offsets

\* Nothing has landed that was not handed over.
LEMMA LandedIsIssued ==
    ASSUME IInv
    PROVE  Landed \subseteq 1..issued /\ Landed \cap (outstanding \ completed) = {}
  BY AioAssumption DEF IInv, TypeOK, Custody, Results, Landed, Requests, Submitted

\* The kernel moves the bytes of a request that is the only one not landed,
\* or a read.
LEMMA ExecuteStep ==
    ASSUME WriteAndCheck, IInv, LoopInv, NEW r \in Requests, Execute(r)
    PROVE  LoopInv'
<1> USE AioAssumption, BufferAssumption DEF WriteAndCheck
<1>1. /\ r \in outstanding \ completed /\ result' = [result EXCEPT ![r] = Length]
      /\ UNCHANGED <<at, access, issued, secondary>>
  BY DEF Execute, KernelComplete, loop, backend
<1>2. r \notin Landed /\ r \in 1..issued
  BY <1>1, LandedIsIssued DEF IInv, TypeOK, Custody, Submitted
<1>3. Landed' = Landed \cup {r}
  BY <1>1 DEF Landed, IInv, TypeOK, Results
<1>4. CASE r <= Writes
  <2>1. at = "fsync" /\ r = issued
    BY <1>2, <1>4 DEF LoopInv, LoopType, OneAtATime, IInv, TypeOK
  <2>2. file' = [file EXCEPT ![r] = r] /\ buffer' = buffer
    BY <1>4, <2>1 DEF Execute, Offset, LoopInv, Filled
  <2> QED
    BY <1>1, <1>2, <1>3, <1>4, <2>1, <2>2
       DEF LoopInv, LoopType, OneAtATime, Filled, InFile, Offsets, IInv, TypeOK
<1>5. CASE r > Writes
  <2>1. access = "WRITECHECK" /\ at # "fsync"
    BY <1>2, <1>5 DEF LoopInv, LoopType, OneAtATime, IInv, TypeOK
  <2>2. file' = file
    BY <1>5 DEF Execute, Requests
  <2> QED
    BY <1>1, <1>3, <1>5, <2>1, <2>2
       DEF LoopInv, LoopType, OneAtATime, Filled, InFile, Offsets
<1> QED
  BY <1>4, <1>5 DEF Requests

\* A transfer is handed over when the buffer holds its pattern.
LEMMA XferBufferStep ==
    ASSUME WriteAndCheck, FsyncPerWrite = TRUE, IInv, LoopInv, Xfer
    PROVE  LoopInv'
<1> USE AioAssumption, BufferAssumption DEF WriteAndCheck
<1>1. /\ at = "xfer" /\ UNCHANGED <<access, buffer, file, result, secondary>>
      /\ issued' \in {issued, issued + 1}
  BY DEF Xfer, aio_Xfer, aio_XferFull, ProcessSome, HandleEvent, ProcessSomeReturns,
     GetEvents, Enqueue, submit_pending, Accepts, kernel
<1>2. Landed' = Landed
  BY <1>1 DEF Landed
<1>3. CASE issued' = issued
  <2>1. at' = "xfer"
    BY <1>3 DEF Xfer, IInv, TypeOK
  <2> QED
    BY <1>1, <1>2, <1>3, <2>1 DEF LoopInv, LoopType, OneAtATime, Filled, InFile
<1>4. CASE issued' = issued + 1 /\ access = "WRITE"
  <2>1. at' = "fsync"
    BY <1>4 DEF Xfer, IInv, TypeOK
  <2> QED
    BY <1>1, <1>2, <1>4, <2>1 DEF LoopInv, LoopType, OneAtATime, Filled, InFile, IInv, TypeOK
<1>5. CASE issued' = issued + 1 /\ access = "WRITECHECK"
  <2>1. at' = "compare"
    BY <1>5 DEF Xfer, IInv, TypeOK
  <2> QED
    BY <1>1, <1>2, <1>5, <2>1 DEF LoopInv, LoopType, OneAtATime, Filled, InFile
<1> QED
  BY <1>1, <1>3, <1>4, <1>5 DEF LoopInv, LoopType

\* A flush moves nothing, and when it returns all transfers have landed.
LEMMA FlushFacts ==
    ASSUME IInv, NEW kind \in {"fsync", "close"}, Flush(kind)
    PROVE  /\ UNCHANGED <<issued, result, secondary>>
           /\ FlushReturned => 1..issued \subseteq Landed
<1>1. UNCHANGED <<issued, result, secondary>>
  BY DEF Flush, complete_all, submit_pending, Accepts, CompleteAll, GetEvents, HandleEvent,
     CompleteAllReturns, kernel
<1>2. FlushReturned => CompleteAllReturns /\ pending_bytes = 0
  BY DEF FlushReturned, Flush, complete_all, CompleteAll, HandleEvent, CompleteAllReturns
<1> QED
  BY <1>1, <1>2, FlushIsTrue DEF CompleteAllReturns

\* The flushes of -Y and of close.
LEMMA FlushStep ==
    ASSUME WriteAndCheck, IInv, LoopInv, FsyncAfterWrite \/ Close
    PROVE  LoopInv'
<1> USE AioAssumption, BufferAssumption DEF WriteAndCheck
<1>1. CASE FsyncAfterWrite
  <2>1. UNCHANGED <<issued, result, secondary, access, buffer, file>> /\ at = "fsync"
    BY <1>1, FlushFacts DEF FsyncAfterWrite
  <2>2. Landed' = Landed
    BY <2>1 DEF Landed
  <2>3. at' = "fsync" \/ (at' = "loop" /\ 1..issued \subseteq Landed)
    BY <1>1, FlushFacts DEF FsyncAfterWrite
  <2> QED
    BY <2>1, <2>2, <2>3 DEF LoopInv, LoopType, OneAtATime, Filled, InFile
<1>2. CASE Close
  <2>1. UNCHANGED <<issued, result, secondary, buffer, file>> /\ issued = Last
    BY <1>2, FlushFacts DEF Close
  <2>2. Landed' = Landed
    BY <2>1 DEF Landed
  <2>3. at' \in {"close", "open", "done"} /\ at \in {"loop", "close"}
    BY <1>2 DEF Close
  <2>4. access' = access \/ (access' = "WRITECHECK" /\ access = "WRITE" /\ issued = Writes)
    BY <1>2 DEF Close, Last
  <2> QED
    BY <2>1, <2>2, <2>3, <2>4 DEF LoopInv, LoopType, OneAtATime, Filled, InFile
<1> QED
  BY <1>1, <1>2

\* The steps that leave the queue alone.
LEMMA QuietLoopStep ==
    ASSUME WriteAndCheck, IInv, LoopInv, Open \/ Prepare \/ CompareData \/ Done \/ UNCHANGED bufferVars
    PROVE  LoopInv'
<1> USE AioAssumption, BufferAssumption DEF WriteAndCheck
<1>1. UNCHANGED <<issued, result, secondary, access, file>>
  <2>1. CASE Open
    BY <2>1 DEF Open, aio_initialize, aio_Open, kernel
  <2>2. CASE Prepare \/ CompareData \/ Done \/ UNCHANGED bufferVars
    BY <2>2 DEF Prepare, CompareData, Done, bufferVars, vars, kernel, loop
  <2> QED
    BY <2>1, <2>2
<1>2. Landed' = Landed
  BY <1>1 DEF Landed
<1>3. CASE Open
  <2>1. at = "open" /\ at' \in {"open", "loop"}
    BY <1>3 DEF Open
  <2> QED
    BY <1>1, <1>2, <2>1 DEF LoopInv, LoopType, OneAtATime, Filled, InFile
<1>4. CASE Prepare
  <2>1. /\ at = "loop" /\ at' = "xfer"
        /\ access = "WRITE" => issued < Writes /\ buffer' = issued + 1
    <3>1. issued \in Int /\ Writes \in Int
      BY DEF IInv, TypeOK
    <3>2. /\ at = "loop" /\ at' = "xfer"
          /\ access = "WRITE" => issued < Writes /\ buffer' = Offset(issued + 1)
      BY <1>4 DEF Prepare, Last
    <3> QED
      BY <3>1, <3>2 DEF Offset
  <2> QED
    BY <1>1, <1>2, <2>1 DEF LoopInv, LoopType, OneAtATime, Filled, InFile
<1>5. CASE CompareData
  <2>1. at = "compare" /\ at' = "loop"
    BY <1>5 DEF CompareData
  <2> QED
    BY <1>1, <1>2, <2>1 DEF LoopInv, LoopType, OneAtATime, Filled, InFile
<1>6. CASE Done \/ UNCHANGED bufferVars
  <2>1. UNCHANGED <<at, buffer>>
    BY <1>6 DEF Done, bufferVars, loop
  <2> QED
    BY <1>1, <1>2, <2>1 DEF LoopInv, LoopType, OneAtATime, Filled, InFile
<1> QED
  BY <1>3, <1>4, <1>5, <1>6

\* LoopInv holds for ever with -Y.
LEMMA LoopInvariance ==
    ASSUME WriteAndCheck, FsyncPerWrite = TRUE
    PROVE  BufferSpec => []LoopInv
<1>0. Gentle
  BY DEF Gentle, WriteAndCheck
<1>1. IInv /\ LoopInv /\ [BufferNext]_bufferVars => LoopInv'
  BY ExecuteStep, XferBufferStep, FlushStep, QuietLoopStep DEF BufferNext
<1> QED
  BY <1>0, <1>1, LoopInit, BackendInvariant, PTL DEF BufferSpec

----------------------------------------------------------------------------
\* With -Y every offset that a returned flush vouches for holds its pattern.
THEOREM FileIsIntact ==
    ASSUME WriteAndCheck, FsyncPerWrite = TRUE
    PROVE  BufferSpec => []FileIntact
<1>0. Gentle
  BY DEF Gentle, WriteAndCheck
<1>1. IInv /\ LoopInv => FileIntact
  <2> SUFFICES ASSUME IInv, LoopInv, NEW k \in 1..flushed, k <= Writes
               PROVE  file[Offset(k)] = Offset(k)
    BY DEF FileIntact
  <2>1. k \in Landed /\ k \in Offsets /\ Offset(k) = k
    BY AioAssumption DEF WriteAndCheck, IInv, TypeOK, FlushVouches, Offsets, Offset
  <2> QED
    BY <2>1 DEF LoopInv, InFile
<1> QED
  BY <1>0, <1>1, BackendInvariant, LoopInvariance, PTL

\* Above the loop, too, the backend implements its promise.
THEOREM LoopKeepsPromise == ASSUME Gentle PROVE BufferSpec => PromiseKept
  BY LoopUsesBackend, KeepsPromise, PTL
=============================================================================
