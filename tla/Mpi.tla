-------------------------------- MODULE Mpi --------------------------------
(***************************************************************************)
(* The MPI collectives as IOR uses them on testComm: the k-th call of a     *)
(* rank meets the k-th call of the other ranks, whatever the program meant. *)
(* calls[r] is what rank r has called so far and the value it passed; a     *)
(* rank is inside its last call until that call may return.                 *)
(***************************************************************************)
EXTENDS Integers, Sequences

CONSTANT N   \* number of ranks

ASSUME MpiAssumption == N \in Nat \ {0}

Ranks == 0..(N - 1)

VARIABLE calls

\* Operations in which nobody goes on before everybody is there.
\* "CountErrors" is a Reduce to rank 0 followed by a Bcast from it.
\* The others are calls of MPI-IO and of the libraries upon it that are
\* collective on the ranks that have the file open.
Synchronizing == {"Barrier", "Allreduce", "CountErrors", "CommSplit", "CommCreate",
                  "Open", "SetView", "Define", "Independent", "Transfer", "Close"}

NoCalls == [r \in Ranks |-> << >>]

Count(r) == Len(calls[r])

\* r is not inside a collective of the given communicator.  Rank 0 leaves a
\* Bcast at once and waits for the others in a Reduce or Gather; the others
\* leave these at once.  A call that meets another operation never returns.
ReadyIn(comm, r) ==
    Count(r) > 0 =>
        LET op == calls[r][Count(r)].op
            Arrived(s) == Count(s) >= Count(r) /\ calls[s][Count(r)].op = op
        IN \/ op \in Synchronizing /\ \A s \in comm : Arrived(s)
           \/ op = "Bcast" /\ Arrived(0)
           \/ op \in {"Reduce", "Gather"} /\ (r = 0 => \A s \in comm : Arrived(s))

Ready(r) == ReadyIn(Ranks, r)

Send(r, op, value) ==
    calls' = [calls EXCEPT ![r] = Append(@, [op |-> op, value |-> value])]

Call(r, op) == Send(r, op, 0)

CallIf(condition, r, op) == IF condition THEN Call(r, op) ELSE UNCHANGED calls

\* What rank s passed to the call r is inside.
Sent(s, r) == calls[s][Count(r)].value

\* The result of an Allreduce with MPI_MAX.
MaxSentIn(comm, r) == CHOOSE v \in {Sent(s, r) : s \in comm} :
                         \A s \in comm : Sent(s, r) <= v

MaxSent(r) == MaxSentIn(Ranks, r)

\* The k-th collective of one rank is the k-th of every other, though each
\* decides alone which ones it calls.
CollectivesMatch ==
    \A r, s \in Ranks :
        \A k \in 1..Count(r) : k <= Count(s) => calls[r][k].op = calls[s][k].op
=============================================================================
