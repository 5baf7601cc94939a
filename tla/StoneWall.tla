----------------------------- MODULE StoneWall -----------------------------
(***************************************************************************)
(* The transfer loop of IOR (WriteOrRead of ior.c) with a stonewall (-D):   *)
(* every rank moves its transfers, segment by segment, until its own clock  *)
(* says that the deadline has passed.  With -l (stoneWallingWearOut) the    *)
(* ranks then agree on the largest number of transfers and each completes   *)
(* as many.  The write phase is followed by a read phase that reads what    *)
(* the write phase recorded (TestIoSys).                                    *)
(*                                                                         *)
(* Transfer <<i, j>> is offset number j of segment i, in the block of the   *)
(* rank (in the rank's share of the transfers, for -z on a shared file).    *)
(***************************************************************************)
EXTENDS Mpi

CONSTANTS S,         \* segmentCount
          Tests,     \* the parameters a run may have
          MaxPairs   \* bound: transfers of a rank before another pass begins

\* offsets[r]: transfers of rank r in a segment.  minTime is minTimeDuration:
\* none, not above the deadline, or above it.  shift: how far -C moves a rank
\* for the read phase.
Parameters == [wearOut : BOOLEAN, collective : BOOLEAN, prefill : BOOLEAN,
               minTime : {"none", "short", "long"}, shift : Ranks,
               offsets : [Ranks -> Nat]]

\* -a MPIIO -c is modelled without -mintime: what the clocks of two ranks say
\* of it would have to be related.
ASSUME StoneWallAssumption ==
    /\ S \in Nat \ {0}
    /\ Tests \subseteq Parameters
    /\ \A t \in Tests : t.collective => t.minTime = "none"
    /\ MaxPairs \in Nat

VARIABLES
    test,            \* the parameters of this run
    at,              \* where each rank is
    phase,           \* "write" or "read"
    i, j,            \* the loop counters
    pairCnt,         \* transfers done in this phase
    stop,            \* hitStonewall: no, or by deadline or pairs
    iterations,      \* params->stoneWallingWearOutIterations
    pairs_accessed,  \* point->pairs_accessed
    seen,            \* the transfers of this phase, in order
    written          \* the transfers of the write phase

loop == <<i, j, pairCnt, stop, seen>>
record == <<phase, iterations, pairs_accessed, written>>
vars == <<test, at, calls, loop, record>>

Zero == [r \in Ranks |-> 0]

Init ==
    /\ test \in Tests
    /\ at = [r \in Ranks |-> "segment"]
    /\ calls = NoCalls
    /\ phase = [r \in Ranks |-> "write"]
    /\ i = Zero /\ j = Zero /\ pairCnt = Zero
    /\ stop = [r \in Ranks |-> "no"]
    /\ iterations = Zero /\ pairs_accessed = Zero
    /\ seen = [r \in Ranks |-> << >>]
    /\ written = [r \in Ranks |-> {}]

----------------------------------------------------------------------------
Offs(r) == test.offsets[r]

At(r, place) == at[r] = place /\ Ready(r)
GoTo(r, place) == at' = [at EXCEPT ![r] = place]
Set(f, r, v) == [f EXCEPT ![r] = v]

\* WriteOrReadSingle of transfer <<a, b>>.
Access(r, a, b) ==
    /\ pairCnt' = Set(pairCnt, r, pairCnt[r] + 1)
    /\ seen' = Set(seen, r, Append(seen[r], <<a, b>>))
    /\ written' = IF phase[r] = "write"
                  THEN Set(written, r, written[r] \cup {<<a, b>>})
                  ELSE written

\* The head of the loop over the segments, with --random-prefill and its
\* barrier.
Segment(r) ==
    /\ At(r, "segment")
    /\ IF i[r] < S /\ stop[r] = "no"
       THEN /\ j' = Set(j, r, 0)
            /\ CallIf(test.prefill /\ phase[r] = "write", r, "Barrier")
            /\ IF Offs(r) > 0
               THEN GoTo(r, "transfer") /\ UNCHANGED i
               ELSE UNCHANGED at /\ i' = Set(i, r, i[r] + 1)
       ELSE /\ GoTo(r, "passDone")
            /\ UNCHANGED <<i, j, calls>>
    /\ UNCHANGED <<test, pairCnt, stop, seen, record>>

\* The ends of the two loops, with hitStonewall = s.
Advance(r, s) ==
    /\ stop' = Set(stop, r, s)
    /\ j' = Set(j, r, j[r] + 1)
    /\ IF j[r] + 1 < Offs(r) /\ s = "no"
       THEN GoTo(r, "transfer") /\ UNCHANGED i
       ELSE GoTo(r, "segment") /\ i' = Set(i, r, i[r] + 1)

\* What rank r may find after its transfer number n.
Hit(r, n) == IF iterations[r] # 0 /\ n = iterations[r]
             THEN {"pairs", "deadline"} ELSE {"no", "deadline"}

Transfer(r) ==
    /\ At(r, "transfer")
    /\ Access(r, i[r], j[r])
    /\ \E s \in Hit(r, pairCnt[r] + 1) :
          IF test.collective
          THEN /\ Send(r, "Bcast", s)
               /\ GoTo(r, "agree")
               /\ UNCHANGED <<i, j, stop>>
          ELSE /\ Advance(r, s)
               /\ UNCHANGED calls
    /\ UNCHANGED <<test, phase, iterations, pairs_accessed>>

\* Mutant: each rank follows its own clock.
M_Agree(r) ==
    /\ At(r, "agree")
    /\ Advance(r, Sent(r, r))
    /\ UNCHANGED <<test, calls, pairCnt, seen, record>>

\* "it absolutely must be an 'all or none'": rank 0's clock decides.
Agree(r) ==
    /\ At(r, "agree")
    /\ Advance(r, Sent(0, r))
    /\ UNCHANGED <<test, calls, pairCnt, seen, record>>

\* May the clock of r be below minTimeDuration?
TimeLeft(r) == \/ test.minTime = "long"
               \/ test.minTime = "short" /\ stop[r] # "deadline"

\* The do-while loop goes on: a stopped rank only spins.
AnotherPass(r) ==
    /\ At(r, "passDone")
    /\ TimeLeft(r)
    /\ pairCnt[r] < MaxPairs
    /\ i' = Set(i, r, 0)
    /\ IF stop[r] = "no" THEN GoTo(r, "segment") ELSE UNCHANGED at
    /\ UNCHANGED <<test, calls, j, pairCnt, stop, seen, record>>

\* Mutant: a rank that was not stopped leaves the agreement out.
M_LastPass(r) ==
    /\ At(r, "passDone")
    /\ IF test.wearOut /\ stop[r] # "no"
       THEN /\ Send(r, "Allreduce", pairCnt[r])
            /\ GoTo(r, "reduced")
            /\ UNCHANGED pairs_accessed
       ELSE /\ pairs_accessed' = Set(pairs_accessed, r, pairCnt[r])
            /\ GoTo(r, "finish")
            /\ UNCHANGED calls
    /\ UNCHANGED <<test, loop, phase, iterations, written>>

LastPass(r) ==
    /\ At(r, "passDone")
    /\ IF test.wearOut
       THEN /\ Send(r, "Allreduce", pairCnt[r])
            /\ GoTo(r, "reduced")
            /\ UNCHANGED pairs_accessed
       ELSE /\ pairs_accessed' = Set(pairs_accessed, r, pairCnt[r])
            /\ GoTo(r, "finish")
            /\ UNCHANGED calls
    /\ UNCHANGED <<test, loop, phase, iterations, written>>

\* Mutant: the current segment is not taken up again.
M_Reduced(r) ==
    /\ At(r, "reduced")
    /\ pairs_accessed' = Set(pairs_accessed, r, MaxSent(r))
    /\ IF pairCnt[r] # MaxSent(r)
       THEN /\ GoTo(r, "rest")
            /\ j' = IF j[r] = Offs(r) THEN Set(j, r, 0) ELSE j
       ELSE GoTo(r, "finish") /\ UNCHANGED j
    /\ Call(r, "Reduce")
    /\ UNCHANGED <<test, i, pairCnt, stop, seen, phase, iterations, written>>

\* The Allreduce (MAX) returns; the Reduces to rank 0 follow.  "some work
\* needs still to be done, complete the current block !"
Reduced(r) ==
    /\ At(r, "reduced")
    /\ pairs_accessed' = Set(pairs_accessed, r, MaxSent(r))
    /\ IF pairCnt[r] = MaxSent(r)
       THEN GoTo(r, "finish") /\ UNCHANGED <<i, j>>
       ELSE /\ GoTo(r, "rest")
            /\ IF j[r] = Offs(r)
               THEN j' = Set(j, r, 0) /\ UNCHANGED i
               ELSE i' = Set(i, r, i[r] - 1) /\ UNCHANGED j
    /\ Call(r, "Reduce")
    /\ UNCHANGED <<test, pairCnt, stop, seen, phase, iterations, written>>

\* Mutant: the inner loop does not look at the number of transfers.
M_Rest(r) ==
    /\ At(r, "rest")
    /\ LET a == IF i[r] = S THEN 0 ELSE i[r]
           over == j[r] + 1 = Offs(r)
       IN /\ Access(r, a, j[r])
          /\ i' = Set(i, r, IF over THEN a + 1 ELSE a)
          /\ j' = Set(j, r, IF over THEN 0 ELSE j[r] + 1)
          /\ GoTo(r, IF over /\ pairCnt[r] + 1 >= pairs_accessed[r]
                     THEN "finish" ELSE "rest")
    /\ UNCHANGED <<test, calls, stop, phase, iterations, pairs_accessed>>

\* One round of the loops that do the rest; a rank without offsets passes
\* through the segments again and again.
Rest(r) ==
    /\ At(r, "rest")
    /\ LET a == IF i[r] = S THEN 0 ELSE i[r]
           last == pairCnt[r] + 1 = pairs_accessed[r]
       IN IF j[r] < Offs(r)
          THEN /\ Access(r, a, j[r])
               /\ IF last \/ j[r] + 1 = Offs(r)
                  THEN i' = Set(i, r, a + 1) /\ j' = Set(j, r, 0)
                  ELSE i' = Set(i, r, a) /\ j' = Set(j, r, j[r] + 1)
               /\ GoTo(r, IF last THEN "finish" ELSE "rest")
          ELSE /\ i' = Set(i, r, a + 1)
               /\ j' = Set(j, r, 0)
               /\ UNCHANGED <<at, pairCnt, seen, written>>
    /\ UNCHANGED <<test, calls, stop, phase, iterations, pairs_accessed>>

\* The file is closed, and the ranks meet.
Finish(r) ==
    /\ At(r, "finish")
    /\ Call(r, "Barrier")
    /\ GoTo(r, "phaseEnd")
    /\ UNCHANGED <<test, loop, record>>

\* Mutant: the read phase is not told how much was written.
M_NextPhase(r) ==
    /\ At(r, "phaseEnd")
    /\ IF phase[r] = "write"
       THEN /\ phase' = Set(phase, r, "read")
            /\ i' = Set(i, r, 0) /\ j' = Set(j, r, 0)
            /\ pairCnt' = Set(pairCnt, r, 0)
            /\ stop' = Set(stop, r, "no")
            /\ seen' = Set(seen, r, << >>)
            /\ GoTo(r, "segment")
       ELSE GoTo(r, "done") /\ UNCHANGED <<loop, phase>>
    /\ UNCHANGED <<test, calls, iterations, pairs_accessed, written>>

\* TestIoSys goes on to the read phase.
NextPhase(r) ==
    /\ At(r, "phaseEnd")
    /\ IF phase[r] = "write"
       THEN /\ phase' = Set(phase, r, "read")
            /\ iterations' = Set(iterations, r, pairs_accessed[r])
            /\ i' = Set(i, r, 0) /\ j' = Set(j, r, 0)
            /\ pairCnt' = Set(pairCnt, r, 0)
            /\ stop' = Set(stop, r, "no")
            /\ seen' = Set(seen, r, << >>)
            /\ GoTo(r, "segment")
       ELSE GoTo(r, "done") /\ UNCHANGED <<loop, phase, iterations>>
    /\ UNCHANGED <<test, calls, pairs_accessed, written>>

Step(r) ==
    \/ Segment(r) \/ Transfer(r) \/ Agree(r)
    \/ AnotherPass(r) \/ LastPass(r) \/ Reduced(r) \/ Rest(r)
    \/ Finish(r) \/ NextPhase(r)

Done == (\A r \in Ranks : at[r] = "done") /\ UNCHANGED vars

Next == Done \/ \E r \in Ranks : Step(r)

Spec == Init /\ [][Next]_vars

\* Every rank is a running process; it leaves the do-while loop when the time
\* is over.
FairSpec == Spec /\ \A r \in Ranks : WF_vars(Step(r)) /\ SF_vars(LastPass(r))

----------------------------------------------------------------------------
(* What must hold.                                                         *)

\* The n-th transfer of r, over and over through its segments.
Pair(r, n) == <<((n - 1) \div Offs(r)) % S, (n - 1) % Offs(r)>>

\* Wherever the stonewall cut the two loops, and wherever the loops that do
\* the rest took them up, no transfer is left out, done twice in a pass or
\* outside the file.
InOrder == \A r \in Ranks : \A n \in 1..Len(seen[r]) : seen[r][n] = Pair(r, n)

\* With -l all ranks end a phase with the same number of transfers, the
\* recorded one.
EqualWork ==
    \A r, s \in Ranks :
        /\ test.wearOut /\ phase[r] = phase[s]
        /\ at[r] \in {"finish", "phaseEnd", "done"}
        /\ at[s] \in {"finish", "phaseEnd", "done"}
        => pairCnt[r] = pairs_accessed[s]

\* The read phase reads only what the write phase wrote, in the block of the
\* rank that -C moved it to; without -l the ranks wrote different amounts, and
\* a rank is safe only with its own block.
ReadsWritten ==
    \A r \in Ranks :
        phase[r] = "read" =>
            \A n \in 1..Len(seen[r]) :
                seen[r][n] \in written[(r + test.shift) % N]

\* Both phases come to their end on every rank.
Finishes == <>(\A r \in Ranks : at[r] = "done")
=============================================================================
