-------------------------- MODULE StoneWallProofs --------------------------
(***************************************************************************)
(* Proofs about the transfer loop with a stonewall (StoneWall): for every   *)
(* number of ranks, segments and transfers, wherever the deadline finds the *)
(* ranks, their collectives match, they do the same work with -l, in order, *)
(* and read only what has been written.                                     *)
(***************************************************************************)
EXTENDS StoneWall, MpiProofs

\* What the proofs are about.  A barrier of --random-prefill, and a collective
\* transfer, are left out by a rank that has no offset where the others have one;
\* above the deadline minTimeDuration starts a pass that InOrder does not hold of.
SameOffsets(t) == \A r, s \in Ranks : t.offsets[r] = t.offsets[s]

UsualTests ==
    \A t \in Tests : /\ ~t.prefill /\ t.minTime # "long"
                     /\ t.collective => SameOffsets(t)

\* Where the ranks are: in the loops that the stonewall cuts, or at the end.
Cut == {"segment", "transfer", "agree", "passDone"}
Ended == {"finish", "phaseEnd", "done"}
Stops == {"no", "deadline", "pairs"}
Values == Nat \cup Stops

PlaceType ==
    /\ at \in [Ranks -> Cut \cup {"reduced", "rest"} \cup Ended]
    /\ phase \in [Ranks -> {"write", "read"}]
    /\ stop \in [Ranks -> Stops]

CountType ==
    /\ i \in [Ranks -> Nat] /\ j \in [Ranks -> Nat] /\ pairCnt \in [Ranks -> Nat]
    /\ iterations \in [Ranks -> Nat] /\ pairs_accessed \in [Ranks -> Nat]

LogType ==
    /\ seen \in [Ranks -> Seq(Nat \X Nat)]
    /\ written \in [Ranks -> SUBSET (Nat \X Nat)]

TypeInv == test \in Tests /\ PlaceType /\ CountType /\ LogType /\ calls \in CallsIn(Values)

----------------------------------------------------------------------------
(* The loop counters of one rank.                                          *)

Wrap(a) == IF a = S THEN 0 ELSE a
NextIs(r, a, b) == Offs(r) > 0 => Pair(r, pairCnt[r] + 1) = <<a, b>>

\* The stonewall hit after transfer <<i - 1, j - 1>>.
CutShort(r) ==
    /\ i[r] \in 1..S /\ j[r] \in 1..Offs(r)
    /\ pairCnt[r] > 0 /\ Pair(r, pairCnt[r]) = <<i[r] - 1, j[r] - 1>>

\* The loops count the transfers in the order of Pair.
LoopInv(r) ==
    /\ i[r] \in 0..S
    /\ at[r] = "segment" =>
        IF stop[r] = "no"
        THEN NextIs(r, Wrap(i[r]), 0) /\ (i[r] > 0 => j[r] = Offs(r))
        ELSE CutShort(r)
    /\ at[r] = "transfer" =>
        i[r] < S /\ j[r] < Offs(r) /\ stop[r] = "no" /\ NextIs(r, i[r], j[r])
    /\ at[r] = "agree" =>
        /\ i[r] < S /\ j[r] < Offs(r) /\ stop[r] = "no"
        /\ pairCnt[r] > 0 /\ Pair(r, pairCnt[r]) = <<i[r], j[r]>>
    /\ at[r] \in {"passDone", "reduced"} /\ stop[r] = "no" =>
        i[r] = S /\ j[r] = Offs(r) /\ NextIs(r, 0, 0)
    /\ at[r] \in {"passDone", "reduced"} /\ stop[r] = "deadline" => CutShort(r)
    /\ at[r] = "rest" => (Offs(r) > 0 => j[r] < Offs(r)) /\ NextIs(r, Wrap(i[r]), j[r])
    /\ Offs(r) > 0 /\ at[r] \notin {"segment", "transfer"} => pairCnt[r] > 0
    /\ Offs(r) > 0 /\ at[r] = "segment" /\ i[r] > 0 => pairCnt[r] > 0
    /\ Offs(r) = 0 => pairCnt[r] = 0 /\ stop[r] = "no"

\* What has been transferred is what Pair says.
HistoryInv(r) ==
    /\ Len(seen[r]) = pairCnt[r]
    /\ \A n \in 1..pairCnt[r] : seen[r][n] = Pair(r, n)
    /\ \A n \in 1..(IF phase[r] = "write" THEN pairCnt[r] ELSE iterations[r]) :
          Pair(r, n) \in written[r]

\* How much the rank has to do.
WorkInv(r) ==
    /\ phase[r] = "write" => iterations[r] = 0
    /\ phase[r] = "read" =>
        /\ pairCnt[r] <= iterations[r]
        /\ Offs(r) > 0 => iterations[r] > 0
        /\ at[r] = "rest" => pairs_accessed[r] <= iterations[r]
        /\ at[r] \in Cut \ {"agree"} /\ stop[r] = "no" /\ Offs(r) > 0
            => pairCnt[r] < iterations[r]
    /\ stop[r] = "pairs" => phase[r] = "read" /\ pairCnt[r] = iterations[r]
    /\ at[r] = "rest" => pairCnt[r] < pairs_accessed[r]
    /\ at[r] \in Ended => pairCnt[r] = pairs_accessed[r]

----------------------------------------------------------------------------
(* The collectives of the ranks.                                           *)

\* A rank calls one Bcast for each collective transfer, and then these.
Closing == IF test.wearOut THEN <<"Allreduce", "Reduce", "Barrier">> ELSE <<"Barrier">>

Bcasts(r) == IF test.collective THEN pairCnt[r] ELSE 0
Closed(r) ==
    CASE at[r] \in Cut -> 0
      [] at[r] = "reduced" -> 1
      [] at[r] = "rest" -> 2
      [] at[r] = "finish" -> Len(Closing) - 1
      [] OTHER -> Len(Closing)

\* The calls of the phases before, and which one the Allreduce of this phase is.
Base(r) == Count(r) - Bcasts(r) - Closed(r)
Reduction(r) == Base(r) + Bcasts(r) + 1

\* What a rank has called.
CallsInv(r) ==
    /\ Base(r) \in Nat /\ (phase[r] = "write" => Base(r) = 0)
    /\ \A k \in 1..Bcasts(r) : calls[r][Base(r) + k].op = "Bcast"
    /\ \A k \in 1..Closed(r) : calls[r][Base(r) + Bcasts(r) + k].op = Closing[k]
    /\ at[r] \in {"reduced", "rest"} => test.wearOut
    /\ at[r] = "agree" => test.collective
    /\ at[r] = "done" => phase[r] = "read"

\* Collective transfers go once through the segments.
GridInv(r) ==
    test.collective =>
        /\ at[r] # "rest"
        /\ pairCnt[r] <= S * Offs(r)
        /\ at[r] = "segment" /\ stop[r] = "no" => pairCnt[r] = i[r] * Offs(r)
        /\ at[r] = "transfer" => pairCnt[r] = i[r] * Offs(r) + j[r]
        /\ at[r] = "agree" => pairCnt[r] = i[r] * Offs(r) + j[r] + 1
        /\ at[r] \notin {"segment", "transfer", "agree"} /\ stop[r] = "no"
            => pairCnt[r] = S * Offs(r)

\* Two ranks are in the same phase, or one has still to leave the barrier between
\* the phases.
PhasesInv(r, s) ==
    /\ phase[r] = phase[s] => Base(r) = Base(s)
    /\ phase[r] = "write" /\ phase[s] = "read" => at[r] = "phaseEnd" /\ Count(r) = Base(s)
    /\ Base(r) <= Count(s) /\ \A k \in 1..Base(r) : calls[r][k].op = calls[s][k].op

\* With collective transfers rank 0 said "no" before each transfer but the first,
\* and a rank has stopped because of what it said last.
Vote(r, n) == calls[0][Base(r) + n].value
VotesInv(r) ==
    test.collective =>
        /\ \A n \in 1..(Bcasts(r) - 1) : Base(r) + n <= Count(0) /\ Vote(r, n) = "no"
        /\ at[r] # "agree" /\ Bcasts(r) > 0
            => Base(r) + Bcasts(r) <= Count(0) /\ Vote(r, Bcasts(r)) = stop[r]
        /\ r = 0 => \A n \in 1..Bcasts(0) : Vote(0, n) \in Hit(0, n)

\* What the ranks have agreed on with an Allreduce, and what they take to the read
\* phase.
MaxAt(k) == CHOOSE v \in {calls[s][k].value : s \in Ranks} :
                \A s \in Ranks : calls[s][k].value <= v
WorkSent(r) == calls[r][Reduction(r)].value
ReductionInv(r) ==
    test.wearOut =>
        /\ at[r] \notin Cut =>
            /\ WorkSent(r) \in Nat /\ (phase[r] = "read" => WorkSent(r) <= iterations[r])
            /\ at[r] = "reduced" \/ test.collective => WorkSent(r) = pairCnt[r]
        /\ at[r] \in {"rest"} \cup Ended =>
            /\ \A s \in Ranks : /\ Count(s) >= Reduction(r)
                                /\ calls[s][Reduction(r)].op = "Allreduce"
            /\ pairs_accessed[r] = MaxAt(Reduction(r))
RecordInv(r, s) ==
    test.wearOut \/ test.collective =>
        /\ phase[r] = "read" /\ phase[s] = "read" => iterations[r] = iterations[s]
        /\ phase[r] = "write" /\ phase[s] = "read" => iterations[s] = pairs_accessed[r]

RankInv(r) ==
    /\ LoopInv(r) /\ HistoryInv(r) /\ WorkInv(r) /\ CallsInv(r) /\ GridInv(r)
    /\ VotesInv(r) /\ ReductionInv(r)

SWInv == /\ TypeInv
         /\ \A r \in Ranks : RankInv(r)
         /\ \A r, s \in Ranks : PhasesInv(r, s) /\ RecordInv(r, s)

----------------------------------------------------------------------------
(* The arithmetic of Pair.                                                 *)

\* The quotient and the remainder of the next number.
LEMMA DivModNext ==
    ASSUME NEW d \in Nat \ {0}, NEW n \in Nat
    PROVE  IF (n % d) + 1 = d THEN (n + 1) \div d = (n \div d) + 1 /\ (n + 1) % d = 0
           ELSE (n + 1) \div d = n \div d /\ (n + 1) % d = (n % d) + 1
<1> DEFINE q == n \div d
           a == n % d
           p == (n + 1) \div d
           b == (n + 1) % d
<1>1. q \in Nat /\ a \in 0..(d - 1) /\ n = d * q + a
  BY DivMod
<1>2. p \in Nat /\ b \in 0..(d - 1) /\ n + 1 = d * p + b
  <2>1. n + 1 \in Nat
    OBVIOUS
  <2> QED
    BY <2>1, DivMod
<1> HIDE DEF q, a, p, b
<1>3. CASE a + 1 = d
  <2>1. d * p + b = d * (q + 1) + 0
    BY <1>1, <1>2, <1>3
  <2>2. p = q + 1 /\ b = 0
    BY <1>1, <1>2, <2>1, DivModUnique
  <2> QED
    BY <1>3, <2>2 DEF q, a, p, b
<1>4. CASE a + 1 # d
  <2>1. d * p + b = d * q + (a + 1)
    BY <1>1, <1>2
  <2>2. a + 1 \in 0..(d - 1) /\ p \in Int /\ q \in Int
    BY <1>1, <1>2, <1>4
  <2>3. p = q /\ b = a + 1
    BY ONLY d \in Nat \ {0}, <1>2, <2>1, <2>2, DivModUnique
  <2> QED
    BY <1>4, <2>3 DEF q, a, p, b
<1> QED
  BY <1>3, <1>4

\* The first transfer.
LEMMA FirstPair ==
    ASSUME NEW r \in Ranks, Offs(r) \in Nat \ {0}
    PROVE  Pair(r, 1) = <<0, 0>>
<1>1. /\ 0 \div Offs(r) = 0 /\ 0 % Offs(r) = 0
      /\ 0 % S = 0 /\ 1 - 1 = 0
  BY DivMod, DivModUnique, StoneWallAssumption
<1> QED
  BY <1>1 DEF Pair

\* A transfer is inside the file, and the next one is the next offset, or the first
\* of the next segment, or that of the first.
LEMMA NextPair ==
    ASSUME NEW r \in Ranks, Offs(r) \in Nat \ {0}, NEW n \in Nat \ {0}
    PROVE  /\ Pair(r, n) \in (0..(S - 1)) \X (0..(Offs(r) - 1))
           /\ \A a, b \in Nat : Pair(r, n) = <<a, b>> =>
                 Pair(r, n + 1) = IF b + 1 = Offs(r) THEN <<Wrap(a + 1), 0>> ELSE <<a, b + 1>>
<1> DEFINE O == Offs(r)
           q == (n - 1) \div O
           x == (n - 1) % O
<1>1. n - 1 \in Nat /\ O \in Nat \ {0} /\ S \in Nat \ {0}
  BY StoneWallAssumption
<1>2. q \in Nat /\ x \in 0..(O - 1)
  BY <1>1, DivMod
<1>3. q % S \in 0..(S - 1)
  BY <1>1, <1>2, DivMod
<1>4. Pair(r, n) = <<q % S, x>>
  BY DEF Pair
<1>5. Pair(r, n + 1) = <<(((n - 1) + 1) \div O) % S, ((n - 1) + 1) % O>>
  BY DEF Pair
<1>6. IF x + 1 = O THEN ((n - 1) + 1) \div O = q + 1 /\ ((n - 1) + 1) % O = 0
      ELSE ((n - 1) + 1) \div O = q /\ ((n - 1) + 1) % O = x + 1
  BY <1>1, DivModNext
<1>7. (q + 1) % S = Wrap((q % S) + 1)
  BY <1>1, <1>2, DivModNext DEF Wrap
<1> HIDE DEF O, q, x
<1>8. Pair(r, n + 1) = IF x + 1 = O THEN <<Wrap((q % S) + 1), 0>> ELSE <<q % S, x + 1>>
  BY <1>5, <1>6, <1>7
<1> QED
  BY <1>2, <1>3, <1>4, <1>8 DEF O

----------------------------------------------------------------------------
(* A step of a rank is its own.                                            *)

SameRank(s) ==
    /\ at'[s] = at[s] /\ phase'[s] = phase[s] /\ i'[s] = i[s] /\ j'[s] = j[s]
    /\ pairCnt'[s] = pairCnt[s] /\ stop'[s] = stop[s] /\ seen'[s] = seen[s]
    /\ iterations'[s] = iterations[s] /\ pairs_accessed'[s] = pairs_accessed[s]
    /\ written'[s] = written[s] /\ calls'[s] = calls[s]

CallStep(r) ==
    \/ UNCHANGED calls
    \/ \E op \in {"Barrier", "Bcast", "Allreduce", "Reduce"}, value \in Values : Send(r, op, value)

\* The parameters of a run.
LEMMA TestType ==
    ASSUME TypeInv
    PROVE  /\ test.offsets \in [Ranks -> Nat] /\ \A r \in Ranks : Offs(r) \in Nat
           /\ test.wearOut \in BOOLEAN /\ test.collective \in BOOLEAN
           /\ 0 \in Ranks /\ S \in Nat \ {0} /\ MaxPairs \in Nat
<1>1. test \in Parameters /\ S \in Nat \ {0} /\ MaxPairs \in Nat
  BY StoneWallAssumption DEF TypeInv
<1>2. 0 \in Ranks
  BY MpiAssumption DEF Ranks
<1> QED
  BY <1>1, <1>2 DEF Parameters, Offs

\* A rank calls at most one collective in a step.
LEMMA OneCall ==
    ASSUME TypeInv, NEW r \in Ranks, Step(r)
    PROVE  CallStep(r) /\ calls' \in CallsIn(Values) /\ \A s \in Ranks \ {r} : calls'[s] = calls[s]
<1>1. CallStep(r)
  <2>1. 0 \in Values /\ pairCnt[r] \in Values /\ \A n : Hit(r, n) \subseteq Values
    BY DEF TypeInv, CountType, Values, Hit, Stops
  <2> QED
    BY <2>1 DEF Step, Segment, Transfer, Agree, AnotherPass, LastPass, Reduced, Rest, Finish,
       NextPhase, CallIf, Call, CallStep, vars, loop, record
<1>2. ASSUME NEW op \in {"Barrier", "Bcast", "Allreduce", "Reduce"}, NEW value \in Values,
             Send(r, op, value)
      PROVE  calls' \in CallsIn(Values) /\ \A s \in Ranks \ {r} : calls'[s] = calls[s]
  <2>1. op \in Collectives /\ calls \in CallsIn(Values)
    BY DEF TypeInv, Collectives, Synchronizing
  <2> QED
    BY <1>2, <2>1, SendStep
<1> QED
  BY <1>1, <1>2 DEF CallStep, TypeInv

\* What the other ranks tell a rank: what rank 0's clock may say after as many
\* transfers, and the largest number of transfers, which is no larger than the
\* recorded one in the read phase.
Told(r) ==
    /\ At(r, "agree") => Sent(0, r) \in Hit(r, pairCnt[r])
    /\ At(r, "reduced") =>
        /\ MaxSent(r) \in Nat /\ pairCnt[r] <= MaxSent(r)
        /\ phase[r] = "read" => MaxSent(r) <= iterations[r]
        /\ test.collective => MaxSent(r) = pairCnt[r]

\* Where a rank may go, and what the clocks may say.
LEMMA PlaceStep ==
    ASSUME PlaceType, NEW r \in Ranks, Step(r), Told(r)
    PROVE  /\ PlaceType'
           /\ \A s \in Ranks \ {r} : at'[s] = at[s] /\ phase'[s] = phase[s] /\ stop'[s] = stop[s]
<1> USE DEF PlaceType, Set, GoTo, Cut, Ended
<1>1. CASE Segment(r)
  BY <1>1 DEF Segment, record
<1>2. CASE Transfer(r)
  BY <1>2 DEF Transfer, Advance, Hit, Stops
<1>3. CASE Agree(r)
  BY <1>3 DEF Agree, Advance, record, Told, Hit, Stops
<1>4. CASE AnotherPass(r)
  BY <1>4 DEF AnotherPass, record
<1>5. CASE LastPass(r)
  BY <1>5 DEF LastPass, loop
<1>6. CASE Reduced(r)
  BY <1>6 DEF Reduced
<1>7. CASE Rest(r)
  BY <1>7 DEF Rest
<1>8. CASE Finish(r)
  BY <1>8 DEF Finish, loop, record
<1>9. CASE NextPhase(r)
  BY <1>9 DEF NextPhase, Stops, loop
<1> QED
  BY <1>1, <1>2, <1>3, <1>4, <1>5, <1>6, <1>7, <1>8, <1>9 DEF Step

\* Who has work left was cut short by the deadline, or has done a pass.
LEMMA WorkLeft ==
    ASSUME TypeInv, NEW r \in Ranks, LoopInv(r), WorkInv(r), Told(r), At(r, "reduced"),
           pairCnt[r] # MaxSent(r)
    PROVE  \/ stop[r] = "no" /\ i[r] = S /\ j[r] = Offs(r) /\ NextIs(r, 0, 0)
           \/ stop[r] = "deadline" /\ CutShort(r)
<1>1. at[r] = "reduced" /\ stop[r] \in Stops /\ pairCnt[r] \in Nat /\ iterations[r] \in Nat
  BY DEF TypeInv, PlaceType, CountType, At
<1>2. stop[r] # "pairs"
  BY <1>1 DEF WorkInv, Told
<1> QED
  BY <1>1, <1>2 DEF LoopInv, Stops

\* What the counters count to.
LEMMA CountStep ==
    ASSUME TypeInv, NEW r \in Ranks, Step(r), LoopInv(r), WorkInv(r), Told(r)
    PROVE  /\ CountType'
           /\ \A s \in Ranks \ {r} :
                 /\ i'[s] = i[s] /\ j'[s] = j[s] /\ pairCnt'[s] = pairCnt[s]
                 /\ iterations'[s] = iterations[s] /\ pairs_accessed'[s] = pairs_accessed[s]
<1> USE DEF CountType, Set
<1>0. CountType
  BY DEF TypeInv
<1>1. CASE Segment(r)
  BY <1>0, <1>1 DEF Segment, record
<1>2. CASE Transfer(r) \/ Agree(r)
  <2>1. /\ i' = i \/ i' = [i EXCEPT ![r] = i[r] + 1]
        /\ j' = j \/ j' = [j EXCEPT ![r] = j[r] + 1]
        /\ pairCnt' = pairCnt \/ pairCnt' = [pairCnt EXCEPT ![r] = pairCnt[r] + 1]
        /\ UNCHANGED <<iterations, pairs_accessed>>
    BY <1>2 DEF Transfer, Agree, Access, Advance, record
  <2> QED
    BY <1>0, <2>1
<1>4. CASE AnotherPass(r)
  BY <1>0, <1>4 DEF AnotherPass, record
<1>5. CASE LastPass(r)
  BY <1>0, <1>5 DEF LastPass, loop
<1>6. CASE Reduced(r)
  <2>1. /\ MaxSent(r) \in Nat /\ At(r, "reduced")
        /\ j[r] # Offs(r) /\ pairCnt[r] # MaxSent(r) => i[r] > 0
    BY <1>6, WorkLeft DEF Told, Reduced, CutShort
  <2>2. /\ i' = i \/ (i[r] > 0 /\ i' = [i EXCEPT ![r] = i[r] - 1])
        /\ j' = j \/ j' = [j EXCEPT ![r] = 0]
        /\ pairs_accessed' = [pairs_accessed EXCEPT ![r] = MaxSent(r)]
        /\ UNCHANGED <<iterations, pairCnt>>
    BY <1>6, <2>1 DEF Reduced
  <2> QED
    BY <1>0, <2>1, <2>2
<1>7. CASE Rest(r)
  <2>1. /\ \/ i' = [i EXCEPT ![r] = i[r]] \/ i' = [i EXCEPT ![r] = i[r] + 1]
           \/ i' = [i EXCEPT ![r] = 0] \/ i' = [i EXCEPT ![r] = 0 + 1]
        /\ j' = [j EXCEPT ![r] = 0] \/ j' = [j EXCEPT ![r] = j[r] + 1]
        /\ pairCnt' = pairCnt \/ pairCnt' = [pairCnt EXCEPT ![r] = pairCnt[r] + 1]
        /\ UNCHANGED <<iterations, pairs_accessed>>
    BY <1>7 DEF Rest, Access
  <2>2. i' \in [Ranks -> Nat] /\ \A s \in Ranks \ {r} : i'[s] = i[s]
    BY <1>0, <2>1
  <2>3. j' \in [Ranks -> Nat] /\ \A s \in Ranks \ {r} : j'[s] = j[s]
    BY <1>0, <2>1
  <2>4. pairCnt' \in [Ranks -> Nat] /\ \A s \in Ranks \ {r} : pairCnt'[s] = pairCnt[s]
    BY <1>0, <2>1
  <2> QED
    BY <1>0, <2>1, <2>2, <2>3, <2>4
<1>8. CASE Finish(r)
  BY <1>0, <1>8 DEF Finish, loop, record
<1>9. CASE NextPhase(r)
  <2>1. /\ i' = i \/ i' = [i EXCEPT ![r] = 0]
        /\ j' = j \/ j' = [j EXCEPT ![r] = 0]
        /\ pairCnt' = pairCnt \/ pairCnt' = [pairCnt EXCEPT ![r] = 0]
        /\ iterations' = iterations
           \/ iterations' = [iterations EXCEPT ![r] = pairs_accessed[r]]
        /\ UNCHANGED pairs_accessed
    BY <1>9 DEF NextPhase, loop
  <2> QED
    BY <1>0, <2>1
<1> QED
  BY <1>1, <1>2, <1>4, <1>5, <1>6, <1>7, <1>8, <1>9 DEF Step

\* What is recorded of the transfers.
LEMMA LogStep ==
    ASSUME TypeInv, NEW r \in Ranks, Step(r)
    PROVE  LogType' /\ \A s \in Ranks \ {r} : seen'[s] = seen[s] /\ written'[s] = written[s]
<1> USE DEF LogType, Set
<1>0. LogType /\ CountType
  BY DEF TypeInv
<1>1. ASSUME NEW p \in Nat \X Nat, seen' = [seen EXCEPT ![r] = Append(seen[r], p)],
             written' = written \/ written' = [written EXCEPT ![r] = written[r] \cup {p}]
      PROVE  LogType' /\ \A s \in Ranks \ {r} : seen'[s] = seen[s] /\ written'[s] = written[s]
  <2>1. Append(seen[r], p) \in Seq(Nat \X Nat) /\ written[r] \cup {p} \in SUBSET (Nat \X Nat)
    BY <1>0, <1>1
  <2> QED
    BY <1>0, <1>1, <2>1
<1>2. CASE Transfer(r)
  <2>1. <<i[r], j[r]>> \in Nat \X Nat
    BY <1>0 DEF CountType
  <2> QED
    BY <1>1, <1>2, <2>1 DEF Transfer, Access
<1>3. CASE Rest(r)
  <2> DEFINE a == IF i[r] = S THEN 0 ELSE i[r]
  <2>1. <<a, j[r]>> \in Nat \X Nat
    BY <1>0 DEF CountType
  <2>2. Access(r, a, j[r]) \/ UNCHANGED <<seen, written>>
    BY <1>3 DEF Rest
  <2> HIDE DEF a
  <2>3. CASE Access(r, a, j[r])
    BY <1>1, <2>1, <2>3 DEF Access
  <2> QED
    BY <1>0, <2>2, <2>3
<1>4. CASE NextPhase(r)
  <2>1. /\ seen' = seen \/ seen' = [seen EXCEPT ![r] = << >>]
        /\ UNCHANGED written /\ << >> \in Seq(Nat \X Nat)
    BY <1>4 DEF NextPhase, loop
  <2> QED
    BY <1>0, <2>1
<1>5. CASE Segment(r) \/ Agree(r) \/ AnotherPass(r) \/ LastPass(r) \/ Reduced(r) \/ Finish(r)
  BY <1>0, <1>5 DEF Segment, Agree, AnotherPass, LastPass, Reduced, Finish, loop, record
<1> QED
  BY <1>2, <1>3, <1>4, <1>5 DEF Step

\* Nothing happens to the other ranks, and the variables keep their types.
LEMMA TypeStep ==
    ASSUME TypeInv, NEW r \in Ranks, Step(r), LoopInv(r), WorkInv(r), Told(r)
    PROVE  /\ TypeInv' /\ test' = test /\ \A s \in Ranks \ {r} : SameRank(s)
<1>1. test' = test
  BY DEF Step, Segment, Transfer, Agree, AnotherPass, LastPass, Reduced, Rest, Finish, NextPhase
<1> QED
  BY <1>1, OneCall, PlaceStep, CountStep, LogStep DEF TypeInv, SameRank

----------------------------------------------------------------------------
(* The invariants of one rank.                                             *)

\* What the proofs about a rank know of it.
LEMMA RankType ==
    ASSUME TypeInv, NEW r \in Ranks
    PROVE  /\ Offs(r) \in Nat /\ S \in Nat \ {0} /\ i[r] \in Nat /\ j[r] \in Nat
           /\ pairCnt[r] \in Nat /\ stop[r] \in Stops /\ phase[r] \in {"write", "read"}
           /\ iterations[r] \in Nat /\ pairs_accessed[r] \in Nat
           /\ at[r] \in Cut \cup {"reduced", "rest"} \cup Ended
BY TestType DEF TypeInv, CountType, PlaceType

\* The transfers of a run do not move.
LEMMA SamePairs ==
    ASSUME TypeInv, test' = test, NEW r \in Ranks
    PROVE  Offs(r)' = Offs(r) /\ \A n : Pair(r, n)' = Pair(r, n)
BY DEF Offs, Pair

\* The ends of the two loops after transfer <<i, j>>.
LEMMA AdvanceStep ==
    ASSUME TypeInv, NEW r \in Ranks, test' = test, NEW s \in Stops, Advance(r, s),
           i[r] < S, j[r] < Offs(r), pairCnt'[r] \in Nat, pairCnt'[r] > 0,
           Pair(r, pairCnt'[r]) = <<i[r], j[r]>>
    PROVE  LoopInv(r)'
<1> DEFINE O == Offs(r)
           c == pairCnt'[r]
<1>1. /\ O \in Nat \ {0} /\ S \in Nat \ {0} /\ i[r] \in Nat /\ j[r] \in Nat
      /\ c \in Nat \ {0}
  BY RankType
<1>2. O' = O /\ \A n : Pair(r, n)' = Pair(r, n)
  BY SamePairs
<1>3. Pair(r, c + 1) = IF j[r] + 1 = O THEN <<Wrap(i[r] + 1), 0>> ELSE <<i[r], j[r] + 1>>
  <2>1. Pair(r, c) = <<i[r], j[r]>>
    OBVIOUS
  <2>2. \A a, b \in Nat : Pair(r, c) = <<a, b>> =>
            Pair(r, c + 1) = IF b + 1 = O THEN <<Wrap(a + 1), 0>> ELSE <<a, b + 1>>
    BY <1>1, NextPair
  <2> HIDE DEF O, c
  <2> QED
    BY <1>1, <2>1, <2>2
<1>4. /\ stop'[r] = s /\ j'[r] = j[r] + 1
      /\ IF j[r] + 1 < O /\ s = "no" THEN at'[r] = "transfer" /\ i'[r] = i[r]
         ELSE at'[r] = "segment" /\ i'[r] = i[r] + 1
  BY DEF Advance, TypeInv, CountType, PlaceType, GoTo, Set
<1> HIDE DEF O
<1>5. CASE j[r] + 1 < O /\ s = "no"
  BY <1>1, <1>2, <1>3, <1>4, <1>5 DEF LoopInv, NextIs, CutShort, O
<1>6. CASE j[r] + 1 = O /\ s = "no"
  BY <1>1, <1>2, <1>3, <1>4, <1>6 DEF LoopInv, NextIs, CutShort, O
<1>7. CASE s # "no"
  <2>1. CutShort(r)'
    BY <1>1, <1>2, <1>4, <1>7 DEF CutShort, O
  <2> QED
    BY <1>1, <1>2, <1>4, <1>7, <2>1 DEF LoopInv, NextIs, O
<1> QED
  BY <1>1, <1>5, <1>6, <1>7 DEF O

\* The loops of a rank go through the transfers in order.
LEMMA LoopStep ==
    ASSUME TypeInv, UsualTests, NEW r \in Ranks, Step(r), LoopInv(r), WorkInv(r), Told(r)
    PROVE  LoopInv(r)'
<1> DEFINE O == Offs(r)
           c == pairCnt[r]
<1>1. /\ O \in Nat /\ S \in Nat \ {0} /\ i[r] \in Nat /\ j[r] \in Nat /\ c \in Nat
      /\ stop[r] \in Stops
  BY RankType
<1>2. test' = test /\ O' = O /\ \A n : Pair(r, n)' = Pair(r, n)
  BY TypeStep, SamePairs
<1>3. O > 0 => Pair(r, 1) = <<0, 0>>
  BY <1>1, FirstPair
<1> HIDE DEF O, c
<1>4. CASE Segment(r)
  <2>1. /\ at[r] = "segment" /\ c' = c /\ stop'[r] = stop[r]
        /\ \/ i[r] < S /\ stop[r] = "no" /\ O > 0 /\ i'[r] = i[r] /\ j'[r] = 0 /\ at'[r] = "transfer"
           \/ i[r] < S /\ stop[r] = "no" /\ O = 0 /\ i'[r] = i[r] + 1 /\ j'[r] = 0 /\ at'[r] = "segment"
           \/ ~(i[r] < S /\ stop[r] = "no") /\ i'[r] = i[r] /\ j'[r] = j[r] /\ at'[r] = "passDone"
    BY <1>1, <1>4 DEF Segment, TypeInv, CountType, PlaceType, At, GoTo, Set, O, c
  <2> QED
    BY <1>1, <1>2, <2>1 DEF LoopInv, NextIs, CutShort, Wrap, O, c, Cut
<1>5. CASE Transfer(r)
  <2>1. /\ at[r] = "transfer" /\ c' = c + 1 /\ i[r] < S /\ j[r] < O
        /\ O > 0 /\ Pair(r, c + 1) = <<i[r], j[r]>>
    BY <1>1, <1>5 DEF Transfer, Access, At, Set, TypeInv, CountType, LoopInv, NextIs, O, c
  <2>2. CASE test.collective
    <3>1. at'[r] = "agree" /\ i'[r] = i[r] /\ j'[r] = j[r] /\ stop'[r] = stop[r]
      BY <1>5, <2>2 DEF Transfer, GoTo, TypeInv, PlaceType
    <3> QED
      BY <1>1, <1>2, <2>1, <3>1 DEF LoopInv, NextIs, CutShort, O, c
  <2>3. CASE ~test.collective
    <3>1. PICK s \in Stops : Advance(r, s)
      BY <1>5, <2>3 DEF Transfer, Hit, Stops
    <3> QED
      BY <1>1, <1>2, <2>1, <3>1, AdvanceStep DEF O, c
  <2> QED
    BY <2>2, <2>3
<1>6. CASE Agree(r)
  <2>1. /\ at[r] = "agree" /\ c' = c /\ i[r] < S /\ j[r] < O /\ c > 0
        /\ Pair(r, c) = <<i[r], j[r]>>
        /\ Advance(r, Sent(0, r)) /\ Sent(0, r) \in Stops
    BY <1>6 DEF Agree, At, LoopInv, Told, Hit, Stops, O, c
  <2> QED
    BY <1>1, <1>2, <2>1, AdvanceStep DEF O, c
<1>7. CASE AnotherPass(r)
  <2>1. /\ at[r] = "passDone" /\ c' = c /\ stop'[r] = stop[r] /\ j'[r] = j[r] /\ i'[r] = 0
        /\ at'[r] = IF stop[r] = "no" THEN "segment" ELSE "passDone"
        /\ stop[r] # "deadline"
    BY <1>7 DEF AnotherPass, TimeLeft, UsualTests, TypeInv, PlaceType, CountType, At, GoTo, Set, c
  <2> QED
    BY <1>1, <1>2, <2>1 DEF LoopInv, NextIs, CutShort, Wrap, O, c, Cut
<1>8. CASE LastPass(r)
  <2>1. /\ at[r] = "passDone" /\ c' = c /\ stop'[r] = stop[r] /\ j'[r] = j[r] /\ i'[r] = i[r]
        /\ at'[r] \in {"reduced", "finish"}
    BY <1>8 DEF LastPass, loop, TypeInv, PlaceType, At, GoTo, c
  <2> QED
    BY <1>1, <1>2, <2>1 DEF LoopInv, NextIs, CutShort, O, c, Cut
<1>9. CASE Reduced(r)
  <2>1. /\ at[r] = "reduced" /\ At(r, "reduced") /\ c' = c /\ stop'[r] = stop[r]
        /\ \/ at'[r] = "finish" /\ i'[r] = i[r] /\ j'[r] = j[r]
           \/ /\ at'[r] = "rest" /\ c # MaxSent(r)
              /\ IF j[r] = O THEN j'[r] = 0 /\ i'[r] = i[r]
                 ELSE i'[r] = i[r] - 1 /\ j'[r] = j[r]
    BY <1>9 DEF Reduced, TypeInv, PlaceType, CountType, At, GoTo, Set, O, c
  <2>2. CASE at'[r] = "finish"
    BY <1>1, <1>2, <2>1, <2>2 DEF LoopInv, O, c, Cut
  <2>3. CASE at'[r] = "rest" /\ stop[r] = "no"
    <3>1. i[r] = S /\ j[r] = O /\ NextIs(r, 0, 0) /\ j'[r] = 0 /\ i'[r] = i[r]
      BY <2>1, <2>3, WorkLeft DEF O, c
    <3> QED
      BY <1>1, <1>2, <2>1, <2>3, <3>1 DEF LoopInv, NextIs, Wrap, O, c, Cut
  <2>4. CASE at'[r] = "rest" /\ stop[r] = "deadline"
    <3>1. CutShort(r)
      BY <2>1, <2>4, WorkLeft DEF c
    <3>2. /\ i[r] \in 1..S /\ j[r] \in 1..O /\ c > 0
          /\ Pair(r, c + 1) = IF (j[r] - 1) + 1 = O THEN <<Wrap((i[r] - 1) + 1), 0>>
                              ELSE <<i[r] - 1, (j[r] - 1) + 1>>
      BY <1>1, <3>1, NextPair DEF CutShort, O, c
    <3>3. Pair(r, c + 1) = <<Wrap(i'[r]), j'[r]>> /\ j'[r] < O /\ i'[r] \in 0..S
      BY <1>1, <2>1, <2>4, <3>2 DEF Wrap
    <3> QED
      BY <1>1, <1>2, <2>1, <2>4, <3>2, <3>3 DEF LoopInv, NextIs, O, c, Cut
  <2> QED
    BY <1>1, <2>1, <2>2, <2>3, <2>4, WorkLeft DEF c
<1>10. CASE Rest(r)
  <2> DEFINE a == Wrap(i[r])
  <2>1. /\ at[r] = "rest" /\ stop'[r] = stop[r]
        /\ \/ /\ j[r] < O /\ c' = c + 1
              /\ \/ i'[r] = a + 1 /\ j'[r] = 0 /\ (at'[r] = "finish" \/ (at'[r] = "rest" /\ j[r] + 1 = O))
                 \/ i'[r] = a /\ j'[r] = j[r] + 1 /\ at'[r] = "rest" /\ j[r] + 1 # O
           \/ ~(j[r] < O) /\ c' = c /\ i'[r] = a + 1 /\ j'[r] = 0 /\ at'[r] = "rest"
    BY <1>1, <1>10 DEF Rest, Access, TypeInv, PlaceType, CountType, At, GoTo, Set, Wrap, O, c
  <2>2. a \in Nat /\ a < S /\ i[r] \in 0..S /\ Wrap(a) = a
    BY <1>1 DEF LoopInv, Wrap
  <2>3. O > 0 => /\ j[r] < O /\ Pair(r, c + 1) = <<a, j[r]>>
                 /\ Pair(r, (c + 1) + 1) = IF j[r] + 1 = O THEN <<Wrap(a + 1), 0>>
                                           ELSE <<a, j[r] + 1>>
    <3> SUFFICES ASSUME O > 0 PROVE /\ j[r] < O /\ Pair(r, c + 1) = <<a, j[r]>>
                                    /\ Pair(r, (c + 1) + 1) =
                                          IF j[r] + 1 = O THEN <<Wrap(a + 1), 0>>
                                          ELSE <<a, j[r] + 1>>
      OBVIOUS
    <3>1. j[r] < O /\ Pair(r, c + 1) = <<a, j[r]>> /\ c + 1 \in Nat \ {0}
      BY <1>1, <2>1 DEF LoopInv, NextIs, O, c
    <3>2. \A x, y \in Nat : Pair(r, c + 1) = <<x, y>> =>
              Pair(r, (c + 1) + 1) = IF y + 1 = O THEN <<Wrap(x + 1), 0>> ELSE <<x, y + 1>>
      BY <1>1, <3>1, NextPair DEF O
    <3> HIDE DEF a
    <3> QED
      BY <1>1, <2>2, <3>1, <3>2
  <2> HIDE DEF a
  <2>4. CASE O > 0
    BY <1>1, <1>2, <2>1, <2>2, <2>3, <2>4 DEF LoopInv, NextIs, O, c, Cut
  <2>5. CASE O = 0
    BY <1>1, <1>2, <2>1, <2>2, <2>5 DEF LoopInv, NextIs, O, c, Cut
  <2> QED
    BY <1>1, <2>4, <2>5
<1>11. CASE Finish(r)
  <2>1. /\ at[r] = "finish" /\ c' = c /\ stop'[r] = stop[r] /\ i'[r] = i[r] /\ at'[r] = "phaseEnd"
    BY <1>11 DEF Finish, loop, TypeInv, PlaceType, At, GoTo, c
  <2> QED
    BY <1>1, <1>2, <2>1 DEF LoopInv, O, c, Cut
<1>12. CASE NextPhase(r)
  <2>1. /\ at[r] = "phaseEnd"
        /\ \/ c' = 0 /\ stop'[r] = "no" /\ i'[r] = 0 /\ j'[r] = 0 /\ at'[r] = "segment"
           \/ c' = c /\ stop'[r] = stop[r] /\ i'[r] = i[r] /\ at'[r] = "done"
    BY <1>12 DEF NextPhase, loop, TypeInv, PlaceType, CountType, At, GoTo, Set, c
  <2> QED
    BY <1>1, <1>2, <1>3, <2>1 DEF LoopInv, NextIs, Wrap, O, c, Cut
<1> QED
  BY <1>4, <1>5, <1>6, <1>7, <1>8, <1>9, <1>10, <1>11, <1>12 DEF Step

\* What is accessed is the next transfer, and is remembered.
LEMMA AccessHistory ==
    ASSUME TypeInv, NEW r \in Ranks, HistoryInv(r), test' = test,
           NEW a \in Nat, NEW b \in Nat, Access(r, a, b), Pair(r, pairCnt[r] + 1) = <<a, b>>,
           phase'[r] = phase[r], iterations'[r] = iterations[r]
    PROVE  HistoryInv(r)'
<1> DEFINE c == pairCnt[r]
<1>1. c \in Nat /\ iterations[r] \in Nat /\ phase[r] \in {"write", "read"}
  BY RankType
<1>2. \A n : Pair(r, n)' = Pair(r, n)
  BY SamePairs
<1>3. <<a, b>> \in Nat \X Nat /\ seen[r] \in Seq(Nat \X Nat) /\ Len(seen[r]) = c
  BY DEF TypeInv, LogType, HistoryInv
<1>4. pairCnt'[r] = c + 1 /\ seen'[r] = Append(seen[r], <<a, b>>)
  BY DEF Access, Set, TypeInv, CountType, LogType
<1>5. IF phase[r] = "write" THEN written'[r] = written[r] \cup {<<a, b>>}
      ELSE written'[r] = written[r]
  BY DEF Access, Set, TypeInv, LogType
<1>6. Len(seen'[r]) = c + 1 /\ \A n \in 1..(c + 1) : seen'[r][n] = Pair(r, n)
  <2>1. /\ Len(seen'[r]) = c + 1 /\ seen'[r][c + 1] = <<a, b>>
        /\ \A n \in 1..c : seen'[r][n] = seen[r][n]
    BY <1>1, <1>3, <1>4
  <2>2. \A n \in 1..c : seen'[r][n] = Pair(r, n)
    BY <2>1 DEF HistoryInv
  <2>3. Pair(r, c + 1) = <<a, b>>
    OBVIOUS
  <2> HIDE DEF c
  <2>4. \A n \in 1..(c + 1) : n \in 1..c \/ n = c + 1
    BY <1>1
  <2> QED
    BY <2>1, <2>2, <2>3, <2>4
<1>7. \A n \in 1..(IF phase[r] = "write" THEN c + 1 ELSE iterations[r]) : Pair(r, n) \in written'[r]
  <2>1. CASE phase[r] = "write"
    <3>1. \A n \in 1..c : Pair(r, n) \in written[r]
      BY <2>1 DEF HistoryInv
    <3> QED
      BY <1>1, <1>5, <2>1, <3>1
  <2>2. CASE phase[r] = "read"
    BY <1>5, <2>2 DEF HistoryInv
  <2> QED
    BY <1>1, <2>1, <2>2
<1> QED
  BY <1>2, <1>4, <1>6, <1>7 DEF HistoryInv

\* The transfers of a rank are those of Pair, and the read phase finds the written ones.
LEMMA HistoryStep ==
    ASSUME TypeInv, NEW r \in Ranks, Step(r), LoopInv(r), WorkInv(r), HistoryInv(r), Told(r)
    PROVE  HistoryInv(r)'
<1>1. /\ i[r] \in Nat /\ j[r] \in Nat /\ Offs(r) \in Nat /\ S \in Nat /\ pairCnt[r] \in Nat
      /\ phase[r] \in {"write", "read"} /\ pairs_accessed[r] \in Nat
  BY RankType
<1>2. test' = test /\ \A n : Pair(r, n)' = Pair(r, n)
  BY TypeStep, SamePairs
<1>3. ASSUME pairCnt'[r] = pairCnt[r], seen'[r] = seen[r], written'[r] = written[r],
             phase'[r] = phase[r], iterations'[r] = iterations[r]
      PROVE  HistoryInv(r)'
  BY <1>2, <1>3 DEF HistoryInv
<1>4. CASE Transfer(r)
  <2>1. Access(r, i[r], j[r]) /\ phase' = phase /\ iterations' = iterations
    BY <1>4 DEF Transfer
  <2>2. Pair(r, pairCnt[r] + 1) = <<i[r], j[r]>>
    BY <1>1, <1>4 DEF Transfer, At, LoopInv, NextIs
  <2> QED
    BY <1>1, <1>2, <2>1, <2>2, AccessHistory
<1>5. CASE Rest(r)
  <2> DEFINE a == Wrap(i[r])
  <2>1. /\ phase' = phase /\ iterations' = iterations /\ a \in Nat
        /\ \/ j[r] < Offs(r) /\ Access(r, a, j[r])
           \/ UNCHANGED <<pairCnt, seen, written>>
    BY <1>1, <1>5 DEF Rest, Wrap
  <2>2. j[r] < Offs(r) => Pair(r, pairCnt[r] + 1) = <<a, j[r]>>
    BY <1>1, <1>5 DEF Rest, At, LoopInv, NextIs
  <2> HIDE DEF a
  <2> QED
    BY <1>1, <1>2, <1>3, <2>1, <2>2, AccessHistory
<1>6. CASE NextPhase(r)
  <2>1. CASE phase[r] = "write"
    <3>1. /\ pairCnt'[r] = 0 /\ seen'[r] = << >> /\ phase'[r] = "read" /\ written' = written
          /\ iterations'[r] = pairs_accessed[r]
      BY <1>6, <2>1 DEF NextPhase, Set, TypeInv, CountType, LogType, PlaceType
    <3>2. pairs_accessed[r] = pairCnt[r]
      BY <1>6 DEF NextPhase, At, WorkInv, Ended
    <3> QED
      BY <1>2, <2>1, <3>1, <3>2 DEF HistoryInv
  <2>2. CASE phase[r] = "read"
    BY <1>3, <1>6, <2>2 DEF NextPhase, loop
  <2> QED
    BY <1>1, <2>1, <2>2
<1>7. CASE Segment(r) \/ Agree(r) \/ AnotherPass(r) \/ LastPass(r) \/ Reduced(r) \/ Finish(r)
  BY <1>3, <1>7 DEF Segment, Agree, AnotherPass, LastPass, Reduced, Finish, loop, record
<1> QED
  BY <1>4, <1>5, <1>6, <1>7 DEF Step

\* What a clock says after the n-th transfer.
LEMMA HitStep ==
    ASSUME TypeInv, NEW r \in Ranks, LoopInv(r), WorkInv(r), test' = test,
           NEW s \in Hit(r, pairCnt'[r]), Advance(r, s), Offs(r) > 0,
           phase' = phase, iterations' = iterations,
           pairCnt'[r] \in Nat, phase[r] = "read" => pairCnt'[r] <= iterations[r]
    PROVE  WorkInv(r)'
<1>1. /\ stop'[r] = s /\ at'[r] \in {"transfer", "segment"}
  BY DEF Advance, TypeInv, PlaceType, GoTo, Set
<1>2. /\ phase[r] \in {"write", "read"} /\ iterations[r] \in Nat /\ Offs(r)' = Offs(r)
      /\ phase[r] = "write" => iterations[r] = 0
      /\ phase[r] = "read" => iterations[r] > 0
  BY RankType, SamePairs DEF WorkInv
<1>3. /\ s = "pairs" => iterations[r] # 0 /\ pairCnt'[r] = iterations[r]
      /\ s = "no" => iterations[r] = 0 \/ pairCnt'[r] # iterations[r]
  BY DEF Hit
<1> QED
  BY <1>1, <1>2, <1>3 DEF WorkInv, Cut, Ended

\* A rank does what the ranks have agreed on, and no more than was recorded.
LEMMA WorkStep ==
    ASSUME TypeInv, NEW r \in Ranks, Step(r), LoopInv(r), WorkInv(r), Told(r)
    PROVE  WorkInv(r)'
<1> DEFINE c == pairCnt[r]
<1>1. /\ i[r] \in Nat /\ j[r] \in Nat /\ Offs(r) \in Nat /\ S \in Nat /\ c \in Nat
      /\ phase[r] \in {"write", "read"} /\ pairs_accessed[r] \in Nat /\ iterations[r] \in Nat
      /\ stop[r] \in Stops
  BY RankType
<1>2. test' = test /\ Offs(r)' = Offs(r)
  BY TypeStep, SamePairs
<1> HIDE DEF c
<1>3. CASE Segment(r) \/ AnotherPass(r)
  <2>1. /\ at[r] \in {"segment", "passDone"} /\ at'[r] \in {"segment", "transfer", "passDone"}
        /\ UNCHANGED <<pairCnt, stop, record>>
    BY <1>3 DEF Segment, AnotherPass, At, GoTo, TypeInv, PlaceType
  <2> QED
    BY <1>1, <1>2, <2>1 DEF WorkInv, record, Cut, Ended
<1>4. CASE Transfer(r)
  <2>1. /\ at[r] = "transfer" /\ c' = c + 1 /\ Offs(r) > 0 /\ stop[r] = "no"
        /\ phase' = phase /\ iterations' = iterations
    BY <1>1, <1>4 DEF Transfer, Access, At, Set, TypeInv, CountType, LoopInv, c
  <2>2. phase[r] = "read" => c' <= iterations[r]
    BY <1>1, <2>1 DEF WorkInv, Cut, c
  <2>3. CASE test.collective
    <3>1. at'[r] = "agree" /\ stop' = stop
      BY <1>4, <2>3 DEF Transfer, GoTo, TypeInv, PlaceType
    <3> QED
      BY <1>1, <1>2, <2>1, <2>2, <3>1 DEF WorkInv, Cut, Ended, c
  <2>4. CASE ~test.collective
    <3>1. PICK s \in Hit(r, c + 1) : Advance(r, s)
      BY <1>4, <2>4 DEF Transfer, c
    <3> QED
      BY <1>1, <1>2, <2>1, <2>2, <3>1, HitStep DEF c
  <2> QED
    BY <2>3, <2>4
<1>5. CASE Agree(r)
  <2>1. /\ at[r] = "agree" /\ c' = c /\ phase' = phase /\ iterations' = iterations
        /\ Advance(r, Sent(0, r)) /\ Sent(0, r) \in Hit(r, c) /\ Offs(r) > 0
    BY <1>1, <1>5 DEF Agree, At, LoopInv, Told, record, c
  <2>2. phase[r] = "read" => c' <= iterations[r]
    BY <2>1 DEF WorkInv, c
  <2> QED
    BY <1>1, <1>2, <2>1, <2>2, HitStep DEF c
<1>6. CASE LastPass(r)
  <2>1. /\ UNCHANGED <<loop, phase, iterations>>
        /\ \/ at'[r] = "finish" /\ pairs_accessed'[r] = c
           \/ at'[r] = "reduced" /\ UNCHANGED pairs_accessed
    BY <1>6 DEF LastPass, At, GoTo, Set, TypeInv, PlaceType, CountType, c
  <2> QED
    BY <1>1, <1>2, <2>1 DEF WorkInv, Cut, Ended, loop, c
<1>7. CASE Reduced(r)
  <2>1. /\ UNCHANGED <<phase, iterations, stop, pairCnt>> /\ pairs_accessed'[r] = MaxSent(r)
        /\ IF c = MaxSent(r) THEN at'[r] = "finish" ELSE at'[r] = "rest"
        /\ MaxSent(r) \in Nat /\ c <= MaxSent(r)
        /\ phase[r] = "read" => MaxSent(r) <= iterations[r]
    BY <1>7 DEF Reduced, At, GoTo, Set, TypeInv, PlaceType, CountType, Told, c
  <2> QED
    BY <1>1, <1>2, <2>1 DEF WorkInv, Cut, Ended, c
<1>8. CASE Rest(r)
  <2>1. /\ UNCHANGED <<phase, iterations, stop, pairs_accessed>> /\ at[r] = "rest"
        /\ \/ c' = c + 1 /\ at'[r] = IF c + 1 = pairs_accessed[r] THEN "finish" ELSE "rest"
           \/ c' = c /\ at'[r] = "rest"
    BY <1>8 DEF Rest, Access, At, GoTo, Set, TypeInv, PlaceType, CountType, c
  <2> QED
    BY <1>1, <1>2, <2>1 DEF WorkInv, Cut, Ended, c
<1>9. CASE Finish(r)
  <2>1. UNCHANGED <<loop, record>> /\ at[r] = "finish" /\ at'[r] = "phaseEnd"
    BY <1>9 DEF Finish, At, GoTo, TypeInv, PlaceType
  <2> QED
    BY <1>1, <1>2, <2>1 DEF WorkInv, Cut, Ended, loop, record
<1>10. CASE NextPhase(r)
  <2>1. at[r] = "phaseEnd" /\ pairs_accessed' = pairs_accessed
    BY <1>10 DEF NextPhase, At
  <2>2. CASE phase[r] = "write"
    <3>1. /\ c' = 0 /\ phase'[r] = "read" /\ iterations'[r] = pairs_accessed[r]
          /\ stop'[r] = "no" /\ at'[r] = "segment"
      BY <1>10, <2>2 DEF NextPhase, Set, GoTo, TypeInv, CountType, PlaceType, c
    <3>2. pairs_accessed[r] = c /\ (Offs(r) > 0 => c > 0)
      BY <2>1 DEF WorkInv, LoopInv, Ended, c
    <3> QED
      BY <1>1, <1>2, <3>1, <3>2 DEF WorkInv, Cut, Ended, c
  <2>3. CASE phase[r] = "read"
    <3>1. UNCHANGED <<loop, phase, iterations>> /\ at'[r] = "done"
      BY <1>10, <2>3 DEF NextPhase, GoTo, TypeInv, PlaceType
    <3> QED
      BY <1>1, <1>2, <2>1, <3>1 DEF WorkInv, Cut, Ended, loop
  <2> QED
    BY <1>1, <2>2, <2>3
<1> QED
  BY <1>3, <1>4, <1>5, <1>6, <1>7, <1>8, <1>9, <1>10 DEF Step

\* What a rank does not do leaves its own part of the invariant as it was.
LEMMA OtherRank ==
    ASSUME TypeInv, NEW s \in Ranks, test' = test, SameRank(s)
    PROVE  /\ LoopInv(s) => LoopInv(s)'
           /\ HistoryInv(s) => HistoryInv(s)'
           /\ WorkInv(s) => WorkInv(s)'
           /\ CallsInv(s) => CallsInv(s)'
           /\ GridInv(s) => GridInv(s)'
           /\ Base(s)' = Base(s) /\ Bcasts(s)' = Bcasts(s) /\ Closed(s)' = Closed(s)
           /\ Count(s)' = Count(s)
<1>1. Offs(s)' = Offs(s) /\ \A n : Pair(s, n)' = Pair(s, n)
  BY SamePairs
<1>2. /\ at'[s] = at[s] /\ phase'[s] = phase[s] /\ i'[s] = i[s] /\ j'[s] = j[s]
      /\ pairCnt'[s] = pairCnt[s] /\ stop'[s] = stop[s] /\ seen'[s] = seen[s]
      /\ iterations'[s] = iterations[s] /\ pairs_accessed'[s] = pairs_accessed[s]
      /\ written'[s] = written[s] /\ calls'[s] = calls[s]
  BY DEF SameRank
<1>3. /\ Count(s)' = Count(s) /\ Bcasts(s)' = Bcasts(s) /\ Closing' = Closing
  BY <1>2 DEF Count, Bcasts, Closing
<1>4. Closed(s)' = Closed(s)
  BY <1>2, <1>3 DEF Closed
<1>5. Base(s)' = Base(s)
  BY <1>3, <1>4 DEF Base
<1>6. LoopInv(s) => LoopInv(s)'
  BY <1>1, <1>2 DEF LoopInv, NextIs, CutShort
<1>7. HistoryInv(s) => HistoryInv(s)'
  BY <1>1, <1>2 DEF HistoryInv
<1>8. WorkInv(s) => WorkInv(s)'
  BY <1>1, <1>2 DEF WorkInv
<1>9. CallsInv(s) => CallsInv(s)'
  BY <1>2, <1>3, <1>4, <1>5 DEF CallsInv
<1>10. GridInv(s) => GridInv(s)'
  BY <1>1, <1>2 DEF GridInv
<1> QED
  BY <1>3, <1>4, <1>5, <1>6, <1>7, <1>8, <1>9, <1>10

----------------------------------------------------------------------------
(* What a rank has called, and what the others tell it.                    *)

\* The collectives that end a phase.
LEMMA ClosingOps ==
    ASSUME test.wearOut \in BOOLEAN
    PROVE  /\ Len(Closing) = IF test.wearOut THEN 3 ELSE 1
           /\ \A k \in 1..Len(Closing) : /\ Closing[k] \in Collectives /\ Closing[k] # "Bcast"
                                         /\ Closing[k] = "Barrier" <=> k = Len(Closing)
                                         /\ Closing[k] = "Allreduce" <=> test.wearOut /\ k = 1
<1>1. CASE test.wearOut
  <2>1. /\ Len(Closing) = 3 /\ Closing[1] = "Allreduce" /\ Closing[2] = "Reduce" /\ Closing[3] = "Barrier"
    BY <1>1 DEF Closing
  <2>2. \A k \in 1..3 : k = 1 \/ k = 2 \/ k = 3
    OBVIOUS
  <2> QED
    BY <1>1, <2>1, <2>2 DEF Collectives, Synchronizing
<1>2. CASE ~test.wearOut
  <2>1. Len(Closing) = 1 /\ Closing[1] = "Barrier"
    BY <1>2 DEF Closing
  <2>2. \A k \in 1..1 : k = 1
    OBVIOUS
  <2> QED
    BY <1>2, <2>1, <2>2 DEF Collectives, Synchronizing
<1> QED
  BY <1>1, <1>2

\* The numbers of them.
LEMMA CallsType ==
    ASSUME TypeInv, NEW r \in Ranks, CallsInv(r)
    PROVE  /\ Count(r) \in Nat /\ Base(r) \in Nat /\ Bcasts(r) \in Nat
           /\ Closed(r) \in 0..Len(Closing) /\ Len(Closing) = IF test.wearOut THEN 3 ELSE 1
           /\ Count(r) = Base(r) + Bcasts(r) + Closed(r)
           /\ at[r] \in Cut => Closed(r) = 0
           /\ at[r] \notin Cut /\ test.wearOut => Closed(r) > 0
           /\ Closed(r) = Len(Closing) <=> at[r] \in {"phaseEnd", "done"}
<1>1. /\ Count(r) \in Nat /\ Base(r) \in Nat
  BY CountIsNat DEF TypeInv, CallsInv
<1>2. pairCnt[r] \in Nat /\ at[r] \in Cut \cup {"reduced", "rest"} \cup Ended
  BY RankType
<1>3. Len(Closing) = IF test.wearOut THEN 3 ELSE 1
  BY TestType, ClosingOps
<1>4. Bcasts(r) \in Nat
  BY <1>2 DEF Bcasts
<1>5. at[r] \in {"reduced", "rest"} => test.wearOut
  BY DEF CallsInv
<1>6. /\ Closed(r) \in 0..Len(Closing)
      /\ at[r] \in Cut => Closed(r) = 0
      /\ at[r] \notin Cut /\ test.wearOut => Closed(r) > 0
      /\ Closed(r) = Len(Closing) <=> at[r] \in {"phaseEnd", "done"}
  <2>1. test.wearOut \in BOOLEAN
    BY TestType
  <2> QED
    BY <1>2, <1>3, <1>5, <2>1 DEF Closed, Cut, Ended
<1> QED
  BY <1>1, <1>3, <1>4, <1>6 DEF Base

\* Which collective a call of this phase is.
LEMMA CallOp ==
    ASSUME TypeInv, NEW s \in Ranks, CallsInv(s), NEW k \in Nat, Base(s) < k, k <= Count(s)
    PROVE  \/ k <= Base(s) + Bcasts(s) /\ calls[s][k].op = "Bcast"
           \/ /\ k - Base(s) - Bcasts(s) \in 1..Closed(s)
              /\ calls[s][k].op = Closing[k - Base(s) - Bcasts(s)]
              /\ calls[s][k].op # "Bcast"
<1>1. /\ Count(s) \in Nat /\ Base(s) \in Nat /\ Bcasts(s) \in Nat /\ Closed(s) \in 0..Len(Closing)
      /\ Count(s) = Base(s) + Bcasts(s) + Closed(s) /\ Len(Closing) \in Nat
  BY CallsType
<1>2. /\ \A n \in 1..Bcasts(s) : calls[s][Base(s) + n].op = "Bcast"
      /\ \A n \in 1..Closed(s) : calls[s][Base(s) + Bcasts(s) + n].op = Closing[n]
  BY DEF CallsInv
<1>3. \A n \in 1..Len(Closing) : Closing[n] # "Bcast"
  BY TestType, ClosingOps
<1>4. CASE k <= Base(s) + Bcasts(s)
  <2>1. k - Base(s) \in 1..Bcasts(s) /\ Base(s) + (k - Base(s)) = k
    BY <1>1, <1>4
  <2> QED
    BY <1>2, <1>4, <2>1
<1>5. CASE k > Base(s) + Bcasts(s)
  <2> DEFINE n == k - Base(s) - Bcasts(s)
  <2>1. n \in 1..Closed(s) /\ n \in 1..Len(Closing) /\ Base(s) + Bcasts(s) + n = k
    BY <1>1, <1>5
  <2>2. calls[s][k].op = Closing[n]
    BY <1>2, <2>1
  <2> QED
    BY <1>3, <2>1, <2>2
<1> QED
  BY <1>1, <1>4, <1>5

\* Who has called as much as a rank that is inside a call of its phase is in that phase.
LEMMA SamePhase ==
    ASSUME TypeInv, NEW r \in Ranks, NEW s \in Ranks, CallsInv(r), CallsInv(s),
           PhasesInv(r, s), PhasesInv(s, r), at[r] # "phaseEnd", Count(r) > Base(r), Count(s) >= Count(r)
    PROVE  phase[s] = phase[r] /\ Base(s) = Base(r)
<1>1. phase[s] \in {"write", "read"} /\ phase[r] \in {"write", "read"}
  BY RankType
<1>2. Count(r) \in Nat /\ Base(r) \in Nat /\ Count(s) \in Nat
  BY CallsType
<1>3. phase[s] = phase[r]
  BY <1>1, <1>2 DEF PhasesInv
<1> QED
  BY <1>3 DEF PhasesInv

\* The rank that has left the loops has called most Bcasts.
LEMMA LongestWins ==
    ASSUME TypeInv, UsualTests, NEW r \in Ranks, NEW s \in Ranks, RankInv(r), RankInv(s),
           PhasesInv(r, s), phase[r] = phase[s], at[s] \notin {"segment", "transfer", "agree"}
    PROVE  Bcasts(r) <= Bcasts(s)
<1>1. /\ Bcasts(r) \in Nat /\ Bcasts(s) \in Nat /\ pairCnt[r] \in Nat /\ pairCnt[s] \in Nat
      /\ Offs(r) \in Nat /\ Offs(s) \in Nat /\ stop[s] \in Stops
  BY CallsType, RankType DEF RankInv
<1>2. CASE ~test.collective
  BY <1>1, <1>2 DEF Bcasts
<1>3. CASE test.collective
  <2> SUFFICES ASSUME Bcasts(s) < Bcasts(r) PROVE FALSE
    BY <1>1
  <2>1. Bcasts(r) = pairCnt[r] /\ Bcasts(s) = pairCnt[s]
    BY <1>3 DEF Bcasts
  <2>2. Offs(r) = Offs(s)
    BY <1>3 DEF UsualTests, SameOffsets, TypeInv, Offs
  <2>3. pairCnt[r] <= S * Offs(r) /\ (stop[s] = "no" => pairCnt[s] = S * Offs(s))
    BY <1>3 DEF RankInv, GridInv
  <2>4. Base(r) = Base(s)
    BY DEF PhasesInv
  <2>5. Bcasts(s) > 0
    <3>1. /\ Offs(s) > 0 => pairCnt[s] > 0
          /\ Offs(r) = 0 => pairCnt[r] = 0
      BY DEF RankInv, LoopInv
    <3> QED
      BY <1>1, <2>1, <2>2, <3>1
  <2>6. Vote(r, Bcasts(s)) = "no"
    <3>1. Bcasts(s) \in 1..(Bcasts(r) - 1)
      BY <1>1, <2>5
    <3> QED
      BY <1>3, <3>1 DEF RankInv, VotesInv
  <2>7. Vote(s, Bcasts(s)) = stop[s]
    BY <1>3, <2>5 DEF RankInv, VotesInv
  <2>8. stop[s] = "no"
    BY <2>4, <2>6, <2>7 DEF Vote
  <2> QED
    BY <1>1, <2>1, <2>2, <2>3, <2>8
<1> QED
  BY <1>2, <1>3, TestType

\* Who meets a rank at an Allreduce or a Barrier of this phase has called as many Bcasts.
LEMMA Meeting ==
    ASSUME TypeInv, NEW r \in Ranks, NEW s \in Ranks, CallsInv(r), CallsInv(s),
           Base(s) = Base(r), Count(s) >= Count(r), Closed(r) > 0,
           Closing[Closed(r)] \in {"Allreduce", "Barrier"},
           calls[s][Count(r)].op = Closing[Closed(r)]
    PROVE  Bcasts(s) = Bcasts(r) /\ Closed(s) >= Closed(r)
<1>1. /\ Count(s) \in Nat /\ Base(s) \in Nat /\ Bcasts(s) \in Nat /\ Closed(s) \in 0..Len(Closing)
      /\ Count(r) \in Nat /\ Bcasts(r) \in Nat /\ Closed(r) \in 0..Len(Closing)
      /\ Count(r) = Base(r) + Bcasts(r) + Closed(r) /\ Len(Closing) \in Nat
  BY CallsType
<1> DEFINE n == Count(r) - Base(s) - Bcasts(s)
<1>2. n \in 1..Closed(s) /\ Closing[n] = Closing[Closed(r)]
  <2>1. Base(s) < Count(r) /\ calls[s][Count(r)].op # "Bcast"
    BY <1>1
  <2> QED
    BY <1>1, <2>1, CallOp
<1> HIDE DEF n
<1>3. n \in 1..Len(Closing) /\ Closed(r) \in 1..Len(Closing)
  BY <1>1, <1>2
<1>4. /\ Closing[n] = "Barrier" <=> n = Len(Closing)
      /\ Closing[n] = "Allreduce" <=> test.wearOut /\ n = 1
      /\ Closing[Closed(r)] = "Barrier" <=> Closed(r) = Len(Closing)
      /\ Closing[Closed(r)] = "Allreduce" <=> test.wearOut /\ Closed(r) = 1
  BY <1>3, TestType, ClosingOps
<1>5. n = Closed(r)
  BY <1>2, <1>4
<1> QED
  BY <1>1, <1>2, <1>5 DEF n

\* What a rank waits for.
LEMMA LastCall ==
    ASSUME TypeInv, NEW r \in Ranks, CallsInv(r)
    PROVE  /\ at[r] = "agree" /\ Bcasts(r) > 0 =>
                 Count(r) = Base(r) + Bcasts(r) /\ calls[r][Count(r)].op = "Bcast"
           /\ at[r] = "reduced" =>
                 /\ Closed(r) = 1 /\ Closing[1] = "Allreduce" /\ Count(r) = Reduction(r)
                 /\ calls[r][Count(r)].op = "Allreduce"
           /\ at[r] = "phaseEnd" =>
                 /\ Closed(r) = Len(Closing) /\ Closing[Closed(r)] = "Barrier"
                 /\ Count(r) > 0 /\ calls[r][Count(r)].op = "Barrier"
<1>1. /\ Count(r) \in Nat /\ Base(r) \in Nat /\ Bcasts(r) \in Nat /\ Closed(r) \in 0..Len(Closing)
      /\ Count(r) = Base(r) + Bcasts(r) + Closed(r) /\ Len(Closing) = IF test.wearOut THEN 3 ELSE 1
      /\ at[r] \in Cut => Closed(r) = 0
      /\ Closed(r) = Len(Closing) <=> at[r] \in {"phaseEnd", "done"}
  BY CallsType
<1>2. \A k \in 1..Len(Closing) : /\ Closing[k] = "Barrier" <=> k = Len(Closing)
                                 /\ Closing[k] = "Allreduce" <=> test.wearOut /\ k = 1
  BY TestType, ClosingOps
<1>3. /\ \A k \in 1..Bcasts(r) : calls[r][Base(r) + k].op = "Bcast"
      /\ \A k \in 1..Closed(r) : calls[r][Base(r) + Bcasts(r) + k].op = Closing[k]
      /\ at[r] \in {"reduced", "rest"} => test.wearOut
  BY DEF CallsInv
<1>4. ASSUME at[r] = "agree", Bcasts(r) > 0
      PROVE  Count(r) = Base(r) + Bcasts(r) /\ calls[r][Count(r)].op = "Bcast"
  BY <1>1, <1>3, <1>4 DEF Cut
<1>5. ASSUME at[r] = "reduced"
      PROVE  /\ Closed(r) = 1 /\ Closing[1] = "Allreduce" /\ Count(r) = Reduction(r)
             /\ calls[r][Count(r)].op = "Allreduce"
  <2>1. Closed(r) = 1
    BY <1>5 DEF Closed, Cut
  <2>2. 1 \in 1..Len(Closing) /\ 1 \in 1..Closed(r) /\ test.wearOut
    BY <1>1, <1>3, <1>5, <2>1
  <2> QED
    BY <1>1, <1>2, <1>3, <2>1, <2>2 DEF Reduction
<1>6. ASSUME at[r] = "phaseEnd"
      PROVE  /\ Closed(r) = Len(Closing) /\ Closing[Closed(r)] = "Barrier"
             /\ Count(r) > 0 /\ calls[r][Count(r)].op = "Barrier"
  <2>1. Closed(r) = Len(Closing) /\ Closed(r) \in 1..Closed(r) /\ Closed(r) \in 1..Len(Closing)
    BY <1>1, <1>6
  <2> QED
    BY <1>1, <1>2, <1>3, <2>1
<1> QED
  BY <1>4, <1>5, <1>6

\* Rank 0's clock says what a clock may say after as many transfers, and the largest
\* number of transfers is no more than what was recorded.
LEMMA ToldHolds ==
    ASSUME SWInv, NEW r \in Ranks
    PROVE  Told(r)
<1>1. TypeInv /\ 0 \in Ranks /\ \A s \in Ranks : CallsInv(s) /\ RankInv(s)
  BY TestType DEF SWInv, RankInv
<1>2. \A s \in Ranks : PhasesInv(r, s) /\ PhasesInv(s, r) /\ RecordInv(r, s) /\ RecordInv(s, r)
  BY DEF SWInv
<1>3. /\ Count(r) \in Nat /\ Base(r) \in Nat /\ Bcasts(r) \in Nat /\ Closed(r) \in 0..Len(Closing)
      /\ Count(r) = Base(r) + Bcasts(r) + Closed(r)
      /\ pairCnt[r] \in Nat /\ phase[r] \in {"write", "read"}
  BY <1>1, CallsType, RankType
<1>4. ASSUME At(r, "agree") PROVE Sent(0, r) \in Hit(r, pairCnt[r])
  <2>1. at[r] = "agree" /\ Ready(r) /\ test.collective /\ Bcasts(r) = pairCnt[r] /\ pairCnt[r] > 0
    BY <1>1, <1>4 DEF At, CallsInv, RankInv, LoopInv, Bcasts
  <2>2. Count(r) = Base(r) + Bcasts(r) /\ Count(r) > 0 /\ calls[r][Count(r)].op = "Bcast"
    BY <1>1, <1>3, <2>1, LastCall
  <2>3. Count(0) >= Count(r) /\ calls[0][Count(r)].op = "Bcast"
    BY <2>1, <2>2, BcastMeans
  <2>4. phase[0] = phase[r] /\ Base(0) = Base(r)
    BY <1>1, <1>2, <1>3, <2>1, <2>2, <2>3, SamePhase
  <2>5. Count(r) <= Base(0) + Bcasts(0)
    <3>1. Base(0) < Count(r) /\ Count(r) <= Count(0)
      BY <1>1, <1>3, <2>1, <2>2, <2>3, <2>4, CallsType
    <3> QED
      BY <1>1, <1>3, <2>3, <3>1, CallOp
  <2>6. pairCnt[r] \in 1..Bcasts(0)
    <3>1. Bcasts(0) \in Nat
      BY <1>1, CallsType
    <3> QED
      BY <1>3, <2>1, <2>2, <2>4, <2>5, <3>1
  <2>7. Vote(0, pairCnt[r]) \in Hit(0, pairCnt[r])
    BY <1>1, <2>1, <2>6 DEF RankInv, VotesInv
  <2>8. iterations[0] = iterations[r]
    <3>1. CASE phase[r] = "write"
      BY <1>1, <2>4, <3>1 DEF RankInv, WorkInv
    <3>2. CASE phase[r] = "read"
      BY <1>1, <1>2, <2>1, <2>4, <3>2 DEF RecordInv
    <3> QED
      BY <1>3, <3>1, <3>2
  <2>9. Sent(0, r) = Vote(0, pairCnt[r])
    BY <2>1, <2>2, <2>4 DEF Sent, Vote
  <2> QED
    BY <2>7, <2>8, <2>9 DEF Hit
<1>5. ASSUME At(r, "reduced")
      PROVE  /\ MaxSent(r) \in Nat /\ pairCnt[r] <= MaxSent(r)
             /\ phase[r] = "read" => MaxSent(r) <= iterations[r]
             /\ test.collective => MaxSent(r) = pairCnt[r]
  <2>1. at[r] = "reduced" /\ Ready(r) /\ test.wearOut
    BY <1>1, <1>5 DEF At, CallsInv
  <2>2. /\ Closed(r) = 1 /\ Closing[1] = "Allreduce" /\ Count(r) = Reduction(r)
        /\ Count(r) > Base(r) /\ Count(r) > 0 /\ calls[r][Count(r)].op = "Allreduce"
    BY <1>1, <1>3, <2>1, LastCall
  <2>3. ASSUME NEW s \in Ranks
        PROVE  /\ Sent(s, r) \in Nat /\ Sent(s, r) = WorkSent(s) /\ at[s] \notin Cut
               /\ phase[s] = phase[r] /\ Bcasts(s) = Bcasts(r)
    <3>1. Count(s) >= Count(r) /\ calls[s][Count(r)].op = "Allreduce"
      BY <2>1, <2>2, ReadyMeans DEF Synchronizing
    <3>2. phase[s] = phase[r] /\ Base(s) = Base(r)
      BY <1>1, <1>2, <2>1, <2>2, <3>1, SamePhase
    <3>3. Bcasts(s) = Bcasts(r) /\ Closed(s) >= Closed(r)
      BY <1>1, <2>2, <3>1, <3>2, Meeting
    <3>4. at[s] \notin Cut
      <4>1. Closed(s) \in Nat /\ (at[s] \in Cut => Closed(s) = 0)
        BY <1>1, CallsType
      <4> QED
        BY <2>2, <3>3, <4>1
    <3>5. Sent(s, r) = WorkSent(s)
      BY <2>2, <3>2, <3>3 DEF Sent, WorkSent, Reduction
    <3>6. WorkSent(s) \in Nat
      BY <1>1, <2>1, <3>4 DEF RankInv, ReductionInv
    <3> QED
      BY <3>2, <3>3, <3>4, <3>5, <3>6
  <2>4. PICK s \in Ranks : MaxSent(r) = Sent(s, r)
    BY <2>3, MaxIsLargest
  <2>5. Sent(r, r) <= MaxSent(r)
    BY <2>3, MaxIsLargest
  <2>6. Sent(r, r) = pairCnt[r]
    BY <1>1, <2>1, <2>3 DEF RankInv, ReductionInv, Cut
  <2>7. ASSUME phase[r] = "read" PROVE MaxSent(r) <= iterations[r]
    <3>1. WorkSent(s) <= iterations[s]
      BY <1>1, <2>1, <2>3, <2>7 DEF RankInv, ReductionInv
    <3>2. iterations[s] = iterations[r]
      BY <1>2, <2>1, <2>3, <2>7 DEF RecordInv
    <3> QED
      BY <2>3, <2>4, <3>1, <3>2
  <2>8. ASSUME test.collective PROVE MaxSent(r) = pairCnt[r]
    <3>1. WorkSent(s) = pairCnt[s]
      BY <1>1, <2>1, <2>3, <2>8 DEF RankInv, ReductionInv
    <3>2. pairCnt[s] = pairCnt[r]
      BY <2>3, <2>8 DEF Bcasts
    <3> QED
      BY <2>3, <2>4, <3>1, <3>2
  <2> QED
    BY <2>3, <2>4, <2>5, <2>6, <2>7, <2>8
<1> QED
  BY <1>4, <1>5 DEF Told

\* The collectives of two ranks are the same as far as both have called them.
LEMMA SameCalls ==
    ASSUME SWInv, UsualTests, NEW r \in Ranks, NEW s \in Ranks, NEW k \in 1..Count(r), k <= Count(s)
    PROVE  calls[r][k].op = calls[s][k].op
<1>1. TypeInv /\ CallsInv(r) /\ CallsInv(s) /\ RankInv(r) /\ RankInv(s) /\ PhasesInv(r, s) /\ PhasesInv(s, r)
  BY DEF SWInv, RankInv
<1>2. /\ Count(r) \in Nat /\ Base(r) \in Nat /\ Bcasts(r) \in Nat /\ Closed(r) \in 0..Len(Closing)
      /\ Count(r) = Base(r) + Bcasts(r) + Closed(r)
      /\ Count(s) \in Nat /\ Base(s) \in Nat /\ Bcasts(s) \in Nat /\ Closed(s) \in 0..Len(Closing)
      /\ Count(s) = Base(s) + Bcasts(s) + Closed(s)
      /\ phase[r] \in {"write", "read"} /\ phase[s] \in {"write", "read"}
      /\ Closed(r) > 0 => at[r] \notin Cut
      /\ Closed(s) > 0 => at[s] \notin Cut
  BY <1>1, CallsType, RankType
<1> DEFINE p == calls[r][k].op
           q == calls[s][k].op
<1>3. k <= Base(r) \/ k <= Base(s) => p = q
  <2>1. /\ k \in 1..Base(r) => p = q
        /\ k \in 1..Base(s) => q = p
    BY <1>1 DEF PhasesInv
  <2> QED
    BY <1>2, <2>1
<1>4. ASSUME k > Base(r), k > Base(s) PROVE p = q
  <2>1. phase[r] = phase[s] /\ Base(r) = Base(s)
    BY <1>1, <1>2, <1>4 DEF PhasesInv
  <2>2. /\ Closed(s) > 0 => Bcasts(r) <= Bcasts(s)
        /\ Closed(r) > 0 => Bcasts(s) <= Bcasts(r)
    BY <1>1, <1>2, <2>1, LongestWins DEF Cut
  <2> DEFINE m == k - Base(r) - Bcasts(r)
             n == k - Base(s) - Bcasts(s)
  <2>3. /\ \/ k <= Base(r) + Bcasts(r) /\ p = "Bcast"
           \/ m \in 1..Closed(r) /\ p = Closing[m]
        /\ \/ k <= Base(s) + Bcasts(s) /\ q = "Bcast"
           \/ n \in 1..Closed(s) /\ q = Closing[n]
    BY <1>1, <1>2, <1>4, CallOp
  <2> HIDE DEF p, q
  <2>4. CASE k <= Base(r) + Bcasts(r)
    <3>1. ~(n \in 1..Closed(s)) /\ ~(m \in 1..Closed(r))
      BY <1>2, <2>1, <2>2, <2>4
    <3> QED
      BY <2>3, <3>1
  <2>5. CASE ~(k <= Base(r) + Bcasts(r))
    <3>1. m \in 1..Closed(r) /\ Bcasts(s) <= Bcasts(r)
      <4>1. m \in 1..Closed(r)
        BY <2>3, <2>5
      <4> QED
        BY <1>2, <2>2, <4>1
    <3>2. ~(k <= Base(s) + Bcasts(s))
      BY <1>2, <2>1, <2>5, <3>1
    <3>3. n \in 1..Closed(s) /\ Bcasts(r) <= Bcasts(s)
      <4>1. n \in 1..Closed(s)
        BY <2>3, <3>2
      <4> QED
        BY <1>2, <2>2, <4>1
    <3>4. m = n
      BY <1>2, <2>1, <3>1, <3>3
    <3> QED
      BY <2>3, <2>5, <3>2, <3>4
  <2> QED
    BY <2>4, <2>5
<1> QED
  BY <1>2, <1>3, <1>4

----------------------------------------------------------------------------
(* What a step of a rank is for the others: it calls nothing, or a Bcast    *)
(* with a transfer, or the next collective that ends the phase, or goes on  *)
(* to the read phase.                                                       *)

Quiet(r) ==
    /\ UNCHANGED calls
    /\ phase'[r] = phase[r] /\ Bcasts(r)' = Bcasts(r) /\ Closed(r)' = Closed(r)
    /\ phase[r] = "write" => at[r] # "phaseEnd"

Broadcasts(r) ==
    /\ at[r] = "transfer" /\ at'[r] = "agree" /\ test.collective /\ phase'[r] = phase[r]
    /\ Bcasts(r)' = Bcasts(r) + 1 /\ Closed(r) = 0 /\ Closed(r)' = 0
    /\ \E value \in Hit(r, pairCnt[r] + 1) : Send(r, "Bcast", value)

Closes(r) ==
    /\ at[r] # "phaseEnd" /\ phase'[r] = phase[r] /\ Bcasts(r)' = Bcasts(r)
    /\ Closed(r)' = Closed(r) + 1 /\ Closed(r) + 1 \in 1..Len(Closing)
    /\ \E value \in Values : Send(r, Closing[Closed(r) + 1], value)

StartsReading(r) ==
    /\ at[r] = "phaseEnd" /\ Ready(r) /\ phase[r] = "write"
    /\ phase'[r] = "read" /\ at'[r] = "segment" /\ iterations'[r] = pairs_accessed[r]
    /\ UNCHANGED <<calls, pairs_accessed>>
    /\ Bcasts(r)' = 0 /\ Closed(r)' = 0

\* Every step is one of these.
LEMMA StepKinds ==
    ASSUME TypeInv, UsualTests, NEW r \in Ranks, LoopInv(r), CallsInv(r), GridInv(r),
           Told(r), Step(r), test' = test
    PROVE  Quiet(r) \/ Broadcasts(r) \/ Closes(r) \/ StartsReading(r)
<1>1. /\ pairCnt[r] \in Nat /\ phase[r] \in {"write", "read"}
      /\ at[r] \in Cut \cup {"reduced", "rest"} \cup Ended
      /\ test.wearOut \in BOOLEAN /\ test.collective \in BOOLEAN
  BY RankType, TestType
<1>2. /\ Closing' = Closing
      /\ IF test.wearOut THEN /\ Len(Closing) = 3 /\ Closing[1] = "Allreduce"
                              /\ Closing[2] = "Reduce" /\ Closing[3] = "Barrier"
         ELSE Len(Closing) = 1 /\ Closing[1] = "Barrier"
  BY <1>1 DEF Closing
<1>3. ASSUME pairCnt'[r] = pairCnt[r] \/ ~test.collective PROVE Bcasts(r)' = Bcasts(r)
  BY <1>3 DEF Bcasts
<1>4. /\ at[r] \in Cut => Closed(r) = 0
      /\ at'[r] \in Cut => Closed(r)' = 0
      /\ at[r] = "reduced" => Closed(r) = 1
      /\ at'[r] = "reduced" => Closed(r)' = 1
      /\ at[r] = "rest" => Closed(r) = 2
      /\ at'[r] = "rest" => Closed(r)' = 2
      /\ at[r] = "finish" => Closed(r) = Len(Closing) - 1
      /\ at'[r] = "finish" => Closed(r)' = Len(Closing) - 1
      /\ at[r] \in {"phaseEnd", "done"} => Closed(r) = Len(Closing)
      /\ at'[r] \in {"phaseEnd", "done"} => Closed(r)' = Len(Closing)
  BY <1>1, <1>2 DEF Closed, Cut, Ended
<1>5. CASE Segment(r)
  <2>1. /\ at[r] = "segment" /\ at'[r] \in {"segment", "transfer", "passDone"}
        /\ pairCnt' = pairCnt /\ phase' = phase /\ UNCHANGED calls
    BY <1>5 DEF Segment, At, GoTo, TypeInv, PlaceType, UsualTests, CallIf, record
  <2> QED
    BY <1>3, <1>4, <2>1 DEF Quiet, Cut
<1>6. CASE Transfer(r)
  <2>1. /\ at[r] = "transfer" /\ phase' = phase /\ pairCnt'[r] = pairCnt[r] + 1
    BY <1>6 DEF Transfer, At, Access, Set, TypeInv, CountType
  <2>2. CASE test.collective
    <3>1. at'[r] = "agree" /\ \E value \in Hit(r, pairCnt[r] + 1) : Send(r, "Bcast", value)
      BY <1>6, <2>2 DEF Transfer, GoTo, TypeInv, PlaceType
    <3>2. Bcasts(r)' = Bcasts(r) + 1
      BY <2>1, <2>2 DEF Bcasts
    <3> QED
      BY <1>4, <2>1, <2>2, <3>1, <3>2 DEF Broadcasts, Cut
  <2>3. CASE ~test.collective
    <3>1. at'[r] \in {"transfer", "segment"} /\ UNCHANGED calls
      BY <1>6, <2>3 DEF Transfer, Advance, GoTo, TypeInv, PlaceType
    <3> QED
      BY <1>3, <1>4, <2>1, <2>3, <3>1 DEF Quiet, Cut
  <2> QED
    BY <2>2, <2>3
<1>7. CASE Agree(r) \/ AnotherPass(r)
  <2>1. /\ at[r] \in {"agree", "passDone"} /\ at'[r] \in {"segment", "transfer", "passDone"}
        /\ pairCnt' = pairCnt /\ phase' = phase /\ UNCHANGED calls
    BY <1>7 DEF Agree, Advance, AnotherPass, At, GoTo, TypeInv, PlaceType, record
  <2> QED
    BY <1>3, <1>4, <2>1 DEF Quiet, Cut
<1>8. CASE LastPass(r)
  <2>1. /\ at[r] = "passDone" /\ pairCnt' = pairCnt /\ phase' = phase
        /\ IF test.wearOut THEN at'[r] = "reduced" /\ Send(r, "Allreduce", pairCnt[r])
           ELSE at'[r] = "finish" /\ UNCHANGED calls
    BY <1>8 DEF LastPass, At, GoTo, TypeInv, PlaceType, loop
  <2>2. pairCnt[r] \in Values
    BY <1>1 DEF Values
  <2>0. Bcasts(r)' = Bcasts(r) /\ Closed(r) = 0
    BY <1>3, <1>4, <2>1 DEF Cut
  <2>3. CASE test.wearOut
    <3>1. Len(Closing) = 3 /\ Closing[1] = "Allreduce" /\ Closed(r)' = 1 /\ 0 + 1 = 1 /\ 1 \in 1..3
      BY <1>2, <1>4, <2>1, <2>3
    <3>2. Closed(r)' = Closed(r) + 1 /\ Closed(r) + 1 \in 1..Len(Closing)
          /\ Closing[Closed(r) + 1] = "Allreduce"
      BY <2>0, <3>1
    <3> QED
      BY <2>0, <2>1, <2>2, <2>3, <3>2 DEF Closes
  <2>4. CASE ~test.wearOut
    <3>1. at'[r] = "finish" /\ Len(Closing) = 1 /\ 1 - 1 = 0
      BY <1>2, <2>1, <2>4
    <3>2. Closed(r)' = 0
      BY <1>4, <3>1
    <3> QED
      BY <2>0, <2>1, <2>4, <3>2 DEF Quiet
  <2> QED
    BY <2>3, <2>4
<1>9. CASE Reduced(r)
  <2>1. /\ at[r] = "reduced" /\ pairCnt' = pairCnt /\ phase' = phase
        /\ at'[r] \in {"rest", "finish"} /\ Send(r, "Reduce", 0)
    BY <1>9 DEF Reduced, At, GoTo, TypeInv, PlaceType, Call
  <2>2. test.wearOut /\ 0 \in Values
    BY <2>1 DEF CallsInv, Values
  <2>3. Len(Closing) = 3 /\ Closing[2] = "Reduce"
    BY <1>2, <2>2
  <2>4. Closed(r) = 1 /\ Closed(r)' = 2
    BY <1>4, <2>1, <2>3
  <2>5. Bcasts(r)' = Bcasts(r)
    BY <1>3, <2>1
  <2>6. Closed(r)' = Closed(r) + 1 /\ Closed(r) + 1 \in 1..Len(Closing)
        /\ Closing[Closed(r) + 1] = "Reduce"
    BY <2>3, <2>4
  <2> QED
    BY <2>1, <2>2, <2>5, <2>6 DEF Closes
<1>10. CASE Rest(r)
  <2>1. /\ at[r] = "rest" /\ phase' = phase /\ at'[r] \in {"rest", "finish"} /\ UNCHANGED calls
    BY <1>10 DEF Rest, At, GoTo, TypeInv, PlaceType
  <2>2. test.wearOut /\ (pairCnt'[r] = pairCnt[r] \/ ~test.collective)
    BY <2>1 DEF CallsInv, GridInv
  <2>3. Len(Closing) = 3 /\ Bcasts(r)' = Bcasts(r)
    BY <1>2, <1>3, <2>2
  <2>4. Closed(r) = 2 /\ Closed(r)' = 2
    BY <1>4, <2>1, <2>3
  <2> QED
    BY <2>1, <2>3, <2>4 DEF Quiet
<1>11. CASE Finish(r)
  <2>1. /\ at[r] = "finish" /\ pairCnt' = pairCnt /\ phase' = phase
        /\ at'[r] = "phaseEnd" /\ Send(r, "Barrier", 0) /\ 0 \in Values
    BY <1>11 DEF Finish, At, GoTo, TypeInv, PlaceType, Call, loop, record, Values
  <2> QED
    BY <1>1, <1>2, <1>3, <1>4, <2>1 DEF Closes
<1>12. CASE NextPhase(r)
  <2>1. at[r] = "phaseEnd" /\ Ready(r) /\ UNCHANGED <<calls, pairs_accessed>>
    BY <1>12 DEF NextPhase, At
  <2>2. CASE phase[r] = "write"
    <3>1. /\ phase'[r] = "read" /\ at'[r] = "segment" /\ iterations'[r] = pairs_accessed[r]
          /\ pairCnt'[r] = 0
      BY <1>12, <2>2 DEF NextPhase, GoTo, Set, TypeInv, PlaceType, CountType
    <3>2. Bcasts(r)' = 0
      BY <3>1 DEF Bcasts
    <3> QED
      BY <1>4, <2>1, <2>2, <3>1, <3>2 DEF StartsReading, Cut
  <2>3. CASE phase[r] = "read"
    <3>1. at'[r] = "done" /\ phase' = phase /\ pairCnt' = pairCnt
      BY <1>12, <2>3 DEF NextPhase, GoTo, TypeInv, PlaceType, loop
    <3> QED
      BY <1>3, <1>4, <2>1, <2>3, <3>1 DEF Quiet
  <2> QED
    BY <1>1, <2>2, <2>3
<1> QED
  BY <1>5, <1>6, <1>7, <1>8, <1>9, <1>10, <1>11, <1>12 DEF Step

\* What each kind of step does to the numbers of calls.
LEMMA KindsCount ==
    ASSUME TypeInv, NEW r \in Ranks, CallsInv(r), TypeInv', test' = test
    PROVE  /\ Quiet(r) => Base(r)' = Base(r) /\ Count(r)' = Count(r)
           /\ Broadcasts(r) => /\ Base(r)' = Base(r) /\ Count(r)' = Count(r) + 1
                               /\ \E value \in Hit(r, pairCnt[r] + 1) :
                                     calls'[r][Count(r) + 1] = [op |-> "Bcast", value |-> value]
           /\ Closes(r) => /\ Base(r)' = Base(r) /\ Count(r)' = Count(r) + 1
                           /\ calls'[r][Count(r) + 1].op = Closing[Closed(r) + 1]
           /\ StartsReading(r) => Base(r)' = Count(r) /\ Count(r)' = Count(r)
           /\ Quiet(r) \/ Broadcasts(r) \/ Closes(r) \/ StartsReading(r) =>
                 \A s \in Ranks : /\ Count(s)' >= Count(s)
                                  /\ \A k \in 1..Count(s) : calls'[s][k] = calls[s][k]
<1>1. /\ Count(r) \in Nat /\ Base(r) \in Nat /\ Bcasts(r) \in Nat /\ Closed(r) \in Nat
      /\ Count(r) = Base(r) + Bcasts(r) + Closed(r)
      /\ calls \in CallsIn(Values) /\ \A s \in Ranks : Count(s) \in Nat
  BY CallsType, CountIsNat DEF TypeInv
<1>2. /\ Base(r)' = Count(r)' - Bcasts(r)' - Closed(r)'
      /\ UNCHANGED calls => Count(r)' = Count(r)
  BY DEF Base, Count
<1>3. UNCHANGED calls => \A s \in Ranks : /\ Count(s)' >= Count(s)
                                          /\ \A k \in 1..Count(s) : calls'[s][k] = calls[s][k]
  BY <1>1 DEF Count
<1>4. Quiet(r) => Base(r)' = Base(r) /\ Count(r)' = Count(r)
  BY <1>1, <1>2 DEF Quiet
<1>5. ASSUME Broadcasts(r)
      PROVE  /\ Base(r)' = Base(r) /\ Count(r)' = Count(r) + 1
             /\ \E value \in Hit(r, pairCnt[r] + 1) :
                   calls'[r][Count(r) + 1] = [op |-> "Bcast", value |-> value]
             /\ \A s \in Ranks : /\ Count(s)' >= Count(s)
                                 /\ \A k \in 1..Count(s) : calls'[s][k] = calls[s][k]
  <2>1. PICK value \in Hit(r, pairCnt[r] + 1) : Send(r, "Bcast", value)
    BY <1>5 DEF Broadcasts
  <2>2. value \in Values /\ "Bcast" \in Collectives
    BY DEF Hit, Values, Stops, Collectives
  <2>3. Count(r)' = Count(r) + 1 /\ calls'[r][Count(r) + 1] = [op |-> "Bcast", value |-> value]
    BY <1>1, <2>1, <2>2, SendStep
  <2>4. \A s \in Ranks : Count(s)' >= Count(s) /\ \A k \in 1..Count(s) : calls'[s][k] = calls[s][k]
    BY <1>1, <2>1, <2>2, CallsStay
  <2>5. Bcasts(r)' = Bcasts(r) + 1 /\ Closed(r) = 0 /\ Closed(r)' = 0
    BY <1>5 DEF Broadcasts
  <2> QED
    BY <1>1, <1>2, <2>3, <2>4, <2>5
<1>6. ASSUME Closes(r)
      PROVE  /\ Base(r)' = Base(r) /\ Count(r)' = Count(r) + 1
             /\ calls'[r][Count(r) + 1].op = Closing[Closed(r) + 1]
             /\ \A s \in Ranks : /\ Count(s)' >= Count(s)
                                 /\ \A k \in 1..Count(s) : calls'[s][k] = calls[s][k]
  <2> DEFINE c == Closing[Closed(r) + 1]
  <2>1. PICK value \in Values : Send(r, c, value)
    BY <1>6 DEF Closes
  <2>2. c \in Collectives
    BY <1>6, TestType, ClosingOps DEF Closes
  <2>3. Bcasts(r)' = Bcasts(r) /\ Closed(r)' = Closed(r) + 1
    BY <1>6 DEF Closes
  <2> HIDE DEF c
  <2>4. Count(r)' = Count(r) + 1 /\ calls'[r][Count(r) + 1] = [op |-> c, value |-> value]
    BY <1>1, <2>1, <2>2, SendStep
  <2>5. \A s \in Ranks : Count(s)' >= Count(s) /\ \A k \in 1..Count(s) : calls'[s][k] = calls[s][k]
    BY <1>1, <2>1, <2>2, CallsStay
  <2>6. calls'[r][Count(r) + 1].op = c
    BY <2>4
  <2>7. Base(r)' = Base(r)
    BY <1>1, <1>2, <2>3, <2>4
  <2> QED
    BY <2>4, <2>5, <2>6, <2>7 DEF c
<1>7. StartsReading(r) => Base(r)' = Count(r) /\ Count(r)' = Count(r)
  BY <1>1, <1>2 DEF StartsReading
<1>8. Quiet(r) \/ StartsReading(r) => UNCHANGED calls
  BY DEF Quiet, StartsReading
<1> QED
  BY <1>3, <1>4, <1>5, <1>6, <1>7, <1>8

\* What a rank has called is what its place in the loops says.
LEMMA CallsStep ==
    ASSUME TypeInv, NEW r \in Ranks, CallsInv(r), TypeInv', test' = test,
           Quiet(r) \/ Broadcasts(r) \/ Closes(r) \/ StartsReading(r),
           GridInv(r), Step(r)
    PROVE  CallsInv(r)'
<1>1. /\ Count(r) \in Nat /\ Base(r) \in Nat /\ Bcasts(r) \in Nat /\ Closed(r) \in Nat
      /\ Count(r) = Base(r) + Bcasts(r) + Closed(r)
      /\ phase[r] \in {"write", "read"}
  BY CallsType, RankType
<1>2. \A k \in 1..Count(r) : calls'[r][k] = calls[r][k]
  BY KindsCount
<1>3. Closing' = Closing
  BY DEF Closing
<1>4. /\ phase[r] = "write" => Base(r) = 0
      /\ \A k \in 1..Bcasts(r) : calls[r][Base(r) + k].op = "Bcast"
      /\ \A k \in 1..Closed(r) : calls[r][Base(r) + Bcasts(r) + k].op = Closing[k]
  BY DEF CallsInv
<1>5. /\ \A k \in 1..Bcasts(r) : Base(r) + k \in 1..Count(r)
      /\ \A k \in 1..Closed(r) : Base(r) + Bcasts(r) + k \in 1..Count(r)
  BY <1>1
<1>6. /\ \A k \in 1..Bcasts(r) : calls'[r][Base(r) + k].op = "Bcast"
      /\ \A k \in 1..Closed(r) : calls'[r][Base(r) + Bcasts(r) + k].op = Closing[k]
  BY <1>2, <1>4, <1>5
<1>7. /\ Base(r)' \in Nat /\ (phase'[r] = "write" => Base(r)' = 0)
      /\ \A k \in 1..Bcasts(r)' : calls'[r][Base(r)' + k].op = "Bcast"
      /\ \A k \in 1..Closed(r)' : calls'[r][Base(r)' + Bcasts(r)' + k].op = Closing[k]
  <2>1. CASE Quiet(r)
    <3>1. Base(r)' = Base(r) /\ phase'[r] = phase[r] /\ Bcasts(r)' = Bcasts(r) /\ Closed(r)' = Closed(r)
      BY <2>1, KindsCount DEF Quiet
    <3> QED
      BY <1>1, <1>4, <1>6, <3>1
  <2>2. CASE Broadcasts(r)
    <3>1. /\ Base(r)' = Base(r) /\ phase'[r] = phase[r] /\ Bcasts(r)' = Bcasts(r) + 1
          /\ Closed(r)' = 0 /\ Closed(r) = 0
          /\ calls'[r][Count(r) + 1].op = "Bcast"
      <4>1. PICK value : calls'[r][Count(r) + 1] = [op |-> "Bcast", value |-> value]
        BY <2>2, KindsCount
      <4>2. calls'[r][Count(r) + 1].op = "Bcast"
        BY <4>1
      <4>3. Base(r)' = Base(r)
        BY <2>2, KindsCount
      <4> QED
        BY <2>2, <4>2, <4>3 DEF Broadcasts
    <3>2. Base(r) + (Bcasts(r) + 1) = Count(r) + 1
      BY <1>1, <3>1
    <3>3. \A k \in 1..(Bcasts(r) + 1) : k \in 1..Bcasts(r) \/ k = Bcasts(r) + 1
      BY <1>1
    <3>4. \A k \in 1..(Bcasts(r) + 1) : calls'[r][Base(r) + k].op = "Bcast"
      BY <1>6, <3>1, <3>2, <3>3
    <3>5. \A k \in 1..0 : FALSE
      OBVIOUS
    <3> QED
      BY <1>1, <1>4, <3>1, <3>4, <3>5
  <2>3. CASE Closes(r)
    <3>1. /\ Base(r)' = Base(r) /\ phase'[r] = phase[r] /\ Bcasts(r)' = Bcasts(r)
          /\ Closed(r)' = Closed(r) + 1
          /\ calls'[r][Count(r) + 1].op = Closing[Closed(r) + 1]
      BY <2>3, KindsCount DEF Closes
    <3>2. Base(r) + Bcasts(r) + (Closed(r) + 1) = Count(r) + 1
      BY <1>1, <3>1
    <3>3. \A k \in 1..(Closed(r) + 1) : k \in 1..Closed(r) \/ k = Closed(r) + 1
      BY <1>1
    <3>4. \A k \in 1..(Closed(r) + 1) : calls'[r][Base(r) + Bcasts(r) + k].op = Closing[k]
      BY <1>6, <3>1, <3>2, <3>3
    <3> QED
      BY <1>1, <1>4, <1>6, <3>1, <3>4
  <2>4. CASE StartsReading(r)
    <3>1. /\ Base(r)' = Count(r) /\ phase'[r] = "read" /\ Bcasts(r)' = 0 /\ Closed(r)' = 0
      BY <2>4, KindsCount DEF StartsReading
    <3>2. \A k \in 1..0 : FALSE
      OBVIOUS
    <3> QED
      BY <1>1, <3>1, <3>2
  <2> QED
    BY <2>1, <2>2, <2>3, <2>4
<1>8. /\ at'[r] \in {"reduced", "rest"} => test.wearOut
      /\ at'[r] = "agree" => test.collective
      /\ at'[r] = "done" => phase'[r] = "read"
  <2>1. at[r] = "reduced" \/ at[r] = "rest" => test.wearOut
    BY DEF CallsInv
  <2>2. CASE Segment(r) \/ Agree(r) \/ AnotherPass(r)
    BY <2>2 DEF Segment, Agree, AnotherPass, Advance, At, GoTo, TypeInv, PlaceType
  <2>3. CASE Transfer(r)
    BY <2>3 DEF Transfer, Advance, At, GoTo, TypeInv, PlaceType
  <2>4. CASE LastPass(r) \/ Finish(r)
    BY <2>4 DEF LastPass, Finish, At, GoTo, TypeInv, PlaceType
  <2>5. CASE Reduced(r) \/ Rest(r)
    BY <2>1, <2>5 DEF Reduced, Rest, At, GoTo, TypeInv, PlaceType
  <2>6. CASE NextPhase(r)
    BY <1>1, <2>6 DEF NextPhase, At, GoTo, TypeInv, PlaceType
  <2> QED
    BY <2>2, <2>3, <2>4, <2>5, <2>6 DEF Step
<1> QED
  BY <1>3, <1>7, <1>8 DEF CallsInv

\* Collective transfers go once through the segments.
LEMMA GridStep ==
    ASSUME TypeInv, UsualTests, NEW r \in Ranks, LoopInv(r), CallsInv(r), GridInv(r), Told(r),
           Step(r), test' = test
    PROVE  GridInv(r)'
<1> DEFINE O == Offs(r)
           c == pairCnt[r]
<1>0. SUFFICES ASSUME test.collective PROVE GridInv(r)'
  BY DEF GridInv
<1>1. /\ i[r] \in 0..S /\ j[r] \in Nat /\ O \in Nat /\ S \in Nat \ {0} /\ c \in Nat
      /\ stop[r] \in Stops /\ at[r] \in Cut \cup {"reduced", "rest"} \cup Ended
  BY RankType DEF LoopInv
<1>2. Offs(r)' = O
  BY SamePairs
<1>3. c <= S * O /\ at[r] # "rest"
  BY <1>0 DEF GridInv
<1>4. GridInv(r)' <=> /\ at'[r] # "rest" /\ c' <= S * O
                      /\ at'[r] = "segment" /\ stop'[r] = "no" => c' = i'[r] * O
                      /\ at'[r] = "transfer" => c' = i'[r] * O + j'[r]
                      /\ at'[r] = "agree" => c' = i'[r] * O + j'[r] + 1
                      /\ at'[r] \notin {"segment", "transfer", "agree"} /\ stop'[r] = "no"
                            => c' = S * O
  BY <1>0, <1>2 DEF GridInv, c
<1> HIDE DEF O, c
<1>5. ASSUME at'[r] \notin {"segment", "transfer", "agree", "rest"}, c' = c, stop'[r] = stop[r],
             stop[r] = "no" => c = S * O
      PROVE  GridInv(r)'
  BY <1>3, <1>4, <1>5
<1>6. CASE Segment(r)
  <2>1. /\ at[r] = "segment" /\ c' = c /\ stop'[r] = stop[r]
        /\ \/ i[r] < S /\ stop[r] = "no" /\ O > 0 /\ i'[r] = i[r] /\ j'[r] = 0 /\ at'[r] = "transfer"
           \/ i[r] < S /\ stop[r] = "no" /\ O = 0 /\ i'[r] = i[r] + 1 /\ at'[r] = "segment"
           \/ ~(i[r] < S /\ stop[r] = "no") /\ at'[r] = "passDone"
    BY <1>1, <1>6 DEF Segment, TypeInv, CountType, PlaceType, At, GoTo, Set, O, c
  <2>2. stop[r] = "no" => c = i[r] * O
    BY <1>0, <2>1 DEF GridInv, O, c
  <2>3. CASE at'[r] = "transfer"
    BY <1>1, <1>3, <1>4, <2>1, <2>2, <2>3
  <2>4. CASE at'[r] = "segment"
    <3>1. O = 0 /\ c = 0
      BY <2>1, <2>4 DEF LoopInv, O, c
    <3> QED
      BY <1>1, <1>3, <1>4, <2>1, <2>4, <3>1
  <2>5. CASE at'[r] = "passDone"
    <3>1. stop[r] = "no" => i[r] = S
      BY <1>1, <2>1, <2>5
    <3> QED
      BY <1>5, <2>1, <2>2, <2>5, <3>1
  <2> QED
    BY <2>1, <2>3, <2>4, <2>5
<1>7. CASE Transfer(r)
  <2>1. /\ at[r] = "transfer" /\ c' = c + 1 /\ at'[r] = "agree" /\ i'[r] = i[r] /\ j'[r] = j[r]
        /\ i[r] < S /\ j[r] < O
    BY <1>0, <1>7 DEF Transfer, Access, Set, TypeInv, CountType, PlaceType, At, GoTo, LoopInv, O, c
  <2>2. c = i[r] * O + j[r]
    BY <1>0, <2>1 DEF GridInv, O, c
  <2>3. i[r] * O + O <= S * O
    <3>1. i[r] * O + O = (i[r] + 1) * O /\ i[r] + 1 <= S
      BY <1>1, <2>1
    <3>2. (i[r] + 1) * O <= S * O
      BY <1>1, <3>1
    <3> QED
      BY <3>1, <3>2
  <2>4. c' <= S * O
    <3> DEFINE p == i[r] * O
               q == S * O
    <3>1. p \in Int /\ q \in Int
      BY <1>1
    <3> HIDE DEF p, q
    <3>2. c' <= q
      BY <1>1, <2>1, <2>2, <2>3, <3>1 DEF p, q
    <3> QED
      BY <3>2 DEF q
  <2> QED
    BY <1>4, <2>1, <2>2, <2>4
<1>8. CASE Agree(r)
  <2>1. /\ at[r] = "agree" /\ c' = c
        /\ \/ j[r] + 1 < O /\ i'[r] = i[r] /\ j'[r] = j[r] + 1 /\ at'[r] = "transfer"
           \/ (j[r] + 1 < O => stop'[r] # "no") /\ i'[r] = i[r] + 1 /\ at'[r] = "segment"
    BY <1>8 DEF Agree, Advance, Set, TypeInv, CountType, PlaceType, At, GoTo, O, c
  <2>2. c = i[r] * O + j[r] + 1 /\ j[r] < O
    BY <1>0, <2>1 DEF GridInv, LoopInv, O, c
  <2>3. CASE at'[r] = "transfer"
    BY <1>1, <1>3, <1>4, <2>1, <2>2, <2>3
  <2>4. CASE at'[r] = "segment"
    <3>1. stop'[r] = "no" => c = (i[r] + 1) * O
      <4>1. ASSUME stop'[r] = "no" PROVE j[r] + 1 = O
        BY <1>1, <2>1, <2>2, <2>4, <4>1
      <4>2. (i[r] + 1) * O = i[r] * O + O
        BY <1>1
      <4> QED
        BY <1>1, <2>2, <4>1, <4>2
    <3> QED
      BY <1>3, <1>4, <2>1, <2>4, <3>1
  <2> QED
    BY <2>1, <2>3, <2>4
<1>9. CASE AnotherPass(r)
  <2>1. test.minTime = "none"
    BY <1>0, StoneWallAssumption DEF TypeInv
  <2> QED
    BY <1>9, <2>1 DEF AnotherPass, TimeLeft
<1>10. CASE LastPass(r) \/ Reduced(r) \/ Finish(r)
  <2>1. /\ at[r] \in {"passDone", "reduced", "finish"} /\ at'[r] \in {"reduced", "finish", "phaseEnd"}
        /\ c' = c /\ stop'[r] = stop[r]
    BY <1>0, <1>10 DEF LastPass, Reduced, Finish, loop, record, TypeInv, PlaceType, At, GoTo, Told, c
  <2>2. stop[r] = "no" => c = S * O
    BY <1>0, <2>1 DEF GridInv, O, c
  <2> QED
    BY <1>5, <2>1, <2>2
<1>11. CASE Rest(r)
  BY <1>3, <1>11 DEF Rest, At
<1>12. CASE NextPhase(r)
  <2>1. /\ at[r] = "phaseEnd"
        /\ \/ c' = 0 /\ i'[r] = 0 /\ at'[r] = "segment"
           \/ c' = c /\ stop'[r] = stop[r] /\ at'[r] = "done"
    BY <1>12 DEF NextPhase, loop, TypeInv, PlaceType, CountType, At, GoTo, Set, c
  <2>2. stop[r] = "no" => c = S * O
    BY <1>0, <2>1 DEF GridInv, O, c
  <2>3. 0 = 0 * O /\ 0 <= S * O
    BY <1>1
  <2> QED
    BY <1>4, <1>5, <2>1, <2>2, <2>3
<1> QED
  BY <1>6, <1>7, <1>8, <1>9, <1>10, <1>11, <1>12 DEF Step

----------------------------------------------------------------------------
(* What the ranks have in common.                                          *)

\* Who goes on to the read phase has met all ranks at the barrier between the phases.
LEMMA AtBarrier ==
    ASSUME SWInv, NEW r \in Ranks, StartsReading(r), NEW s \in Ranks
    PROVE  /\ Count(s) >= Count(r) /\ \A k \in 1..Count(r) : calls[r][k].op = calls[s][k].op
           /\ phase[s] = "read" => Base(s) = Count(r)
           /\ phase[s] = "write" => /\ at[s] = "phaseEnd" /\ Count(s) = Count(r)
                                    /\ Bcasts(s) = Bcasts(r) /\ Base(s) = Base(r)
<1>1. TypeInv /\ CallsInv(r) /\ CallsInv(s) /\ PhasesInv(r, s) /\ PhasesInv(s, r)
  BY DEF SWInv, RankInv
<1>2. /\ Count(r) \in Nat /\ Base(r) \in Nat /\ Bcasts(r) \in Nat /\ Closed(r) \in 0..Len(Closing)
      /\ Count(r) = Base(r) + Bcasts(r) + Closed(r)
      /\ Count(s) \in Nat /\ Base(s) \in Nat /\ Bcasts(s) \in Nat /\ Closed(s) \in 0..Len(Closing)
      /\ Count(s) = Base(s) + Bcasts(s) + Closed(s)
      /\ Closed(s) = Len(Closing) => at[s] \in {"phaseEnd", "done"}
      /\ phase[s] \in {"write", "read"} /\ Len(Closing) \in Nat /\ Len(Closing) > 0
  <2>1. Len(Closing) = IF test.wearOut THEN 3 ELSE 1
    BY <1>1, CallsType
  <2>2. Len(Closing) \in Nat /\ Len(Closing) > 0
    BY <2>1
  <2> QED
    BY <1>1, <2>2, CallsType, RankType
<1>3. /\ at[r] = "phaseEnd" /\ Ready(r) /\ phase[r] = "write" /\ Closed(r) = Len(Closing)
      /\ Closing[Closed(r)] = "Barrier" /\ Count(r) > 0 /\ calls[r][Count(r)].op = "Barrier"
  BY <1>1, LastCall DEF StartsReading
<1>4. Count(s) >= Count(r) /\ calls[s][Count(r)].op = "Barrier"
  BY <1>3, ReadyMeans DEF Synchronizing
<1>5. CASE phase[s] = "read"
  <2>1. Base(s) = Count(r) /\ \A k \in 1..Base(s) : calls[s][k].op = calls[r][k].op
    BY <1>1, <1>3, <1>5 DEF PhasesInv
  <2>2. \A k \in 1..Count(r) : calls[r][k].op = calls[s][k].op
    BY <2>1
  <2> QED
    BY <1>4, <1>5, <2>1, <2>2
<1>6. CASE phase[s] = "write"
  <2>1. Base(s) = Base(r) /\ Base(r) = 0
    BY <1>1, <1>3, <1>6 DEF PhasesInv, CallsInv
  <2>2. Bcasts(s) = Bcasts(r) /\ Closed(s) >= Closed(r)
    BY <1>1, <1>2, <1>3, <1>4, <2>1, Meeting
  <2>3. Closed(s) = Closed(r) /\ Count(s) = Count(r)
    BY <1>2, <1>3, <2>1, <2>2
  <2>4. at[s] = "phaseEnd"
    BY <1>1, <1>2, <1>3, <1>6, <2>3 DEF CallsInv
  <2>5. ASSUME NEW k \in 1..Count(r) PROVE calls[r][k].op = calls[s][k].op
    <3> DEFINE p == calls[r][k].op
               q == calls[s][k].op
               m == k - Base(r) - Bcasts(r)
               n == k - Base(s) - Bcasts(s)
    <3>1. /\ \/ k <= Base(r) + Bcasts(r) /\ p = "Bcast"
             \/ m \in 1..Closed(r) /\ p = Closing[m]
          /\ \/ k <= Base(s) + Bcasts(s) /\ q = "Bcast"
             \/ n \in 1..Closed(s) /\ q = Closing[n]
      <4>1. k \in Nat /\ Base(r) < k /\ k <= Count(r) /\ Base(s) < k /\ k <= Count(s)
        BY <1>2, <1>4, <2>1
      <4>2. (k <= Base(r) + Bcasts(r) /\ p = "Bcast") \/ (m \in 1..Closed(r) /\ p = Closing[m])
        BY <1>1, <4>1, CallOp
      <4>3. (k <= Base(s) + Bcasts(s) /\ q = "Bcast") \/ (n \in 1..Closed(s) /\ q = Closing[n])
        BY <1>1, <4>1, CallOp
      <4> QED
        BY <4>2, <4>3
    <3>2. m = n /\ (k <= Base(r) + Bcasts(r) <=> ~(m \in 1..Closed(r)))
      BY <1>2, <2>1, <2>2
    <3>3. k <= Base(s) + Bcasts(s) <=> ~(n \in 1..Closed(s))
      BY <1>2, <2>1, <2>2, <2>3
    <3> HIDE DEF p, q, m, n
    <3>4. p = q
      BY <2>1, <2>2, <3>1, <3>2, <3>3
    <3> QED
      BY <3>4 DEF p, q
  <2> QED
    BY <1>4, <1>6, <2>1, <2>2, <2>3, <2>4, <2>5
<1> QED
  BY <1>2, <1>5, <1>6

\* The ranks go from phase to phase together.
LEMMA PhasesStep ==
    ASSUME SWInv, NEW r \in Ranks, TypeInv', test' = test, CallsInv(r)',
           Quiet(r) \/ Broadcasts(r) \/ Closes(r) \/ StartsReading(r),
           \A s \in Ranks \ {r} : SameRank(s)
    PROVE  \A s, t \in Ranks : PhasesInv(s, t)'
<1>1. TypeInv /\ \A s \in Ranks : CallsInv(s)
  BY DEF SWInv, RankInv
<1>2. \A s \in Ranks : Count(s) \in Nat /\ Base(s) \in Nat /\ phase[s] \in {"write", "read"}
  BY <1>1, CallsType, RankType
<1>3. \A s \in Ranks : Count(s)' >= Count(s) /\ \A k \in 1..Count(s) : calls'[s][k] = calls[s][k]
  BY <1>1, KindsCount
<1>4. \A s \in Ranks \ {r} : /\ Base(s)' = Base(s) /\ Count(s)' = Count(s)
                             /\ phase'[s] = phase[s] /\ at'[s] = at[s] /\ calls'[s] = calls[s]
  BY <1>1, OtherRank DEF SameRank
<1>5. /\ Count(r)' \in Nat /\ Base(r)' \in Nat /\ Base(r)' <= Count(r)' /\ phase'[r] \in {"write", "read"}
  <2>1. /\ Base(r)' = Base(r) \/ Base(r)' = Count(r)
        /\ Count(r)' = Count(r) \/ Count(r)' = Count(r) + 1
    BY <1>1, KindsCount
  <2>2. Base(r) <= Count(r)
    BY <1>1, CallsType
  <2>3. phase'[r] \in {"write", "read"}
    BY DEF TypeInv, PlaceType
  <2> QED
    BY <1>2, <2>1, <2>2, <2>3
<1>6. \A s, t \in Ranks : PhasesInv(s, t)
  BY DEF SWInv
<1>7. PhasesInv(r, r)'
  BY <1>5 DEF PhasesInv
<1>8. ASSUME NEW s \in Ranks \ {r}, NEW t \in Ranks \ {r} PROVE PhasesInv(s, t)'
  BY <1>4, <1>6 DEF PhasesInv
<1>9. ASSUME NEW s \in Ranks \ {r}, ~StartsReading(r) PROVE PhasesInv(r, s)' /\ PhasesInv(s, r)'
  <2>1. /\ Base(r)' = Base(r) /\ phase'[r] = phase[r] /\ (phase[r] = "write" => at[r] # "phaseEnd")
    BY <1>1, <1>9, KindsCount DEF Quiet, Broadcasts, Closes
  <2>2. phase[r] = phase[s] => Base(r) = Base(s)
    BY <1>6 DEF PhasesInv
  <2>3. /\ ~(phase[r] = "write" /\ phase[s] = "read")
        /\ phase[s] = "write" /\ phase[r] = "read" => at[s] = "phaseEnd" /\ Count(s) = Base(r)
    BY <1>6, <2>1 DEF PhasesInv
  <2>4. /\ Base(r) <= Count(s) /\ \A k \in 1..Base(r) : calls[r][k].op = calls[s][k].op
        /\ Base(s) <= Count(r) /\ \A k \in 1..Base(s) : calls[s][k].op = calls[r][k].op
        /\ Base(r) <= Count(r) /\ Base(s) <= Count(s)
    BY <1>6 DEF PhasesInv
  <2>5. /\ Base(r) <= Count(s)' /\ Base(s) <= Count(r)'
        /\ \A k \in 1..Base(r) : calls'[r][k].op = calls'[s][k].op
        /\ \A k \in 1..Base(s) : calls'[s][k].op = calls'[r][k].op
    <3>1. Base(r) <= Count(s)' /\ Base(s) <= Count(r)'
      BY <1>2, <1>3, <1>4, <1>5, <2>4
    <3>2. \A k \in 1..Base(r) : k \in 1..Count(r) /\ k \in 1..Count(s)
      BY <1>2, <2>4
    <3>3. \A k \in 1..Base(s) : k \in 1..Count(r) /\ k \in 1..Count(s)
      BY <1>2, <2>4
    <3> QED
      BY <1>3, <2>4, <3>1, <3>2, <3>3
  <2>6. Base(s)' = Base(s) /\ phase'[s] = phase[s] /\ at'[s] = at[s] /\ Count(s)' = Count(s)
    BY <1>4
  <2>7. PhasesInv(r, s)'
    BY <2>1, <2>2, <2>3, <2>5, <2>6 DEF PhasesInv
  <2>8. PhasesInv(s, r)'
    BY <2>1, <2>2, <2>3, <2>5, <2>6 DEF PhasesInv
  <2> QED
    BY <2>7, <2>8
<1>10. ASSUME NEW s \in Ranks \ {r}, StartsReading(r) PROVE PhasesInv(r, s)' /\ PhasesInv(s, r)'
  <2>1. /\ Base(r)' = Count(r) /\ Count(r)' = Count(r) /\ phase'[r] = "read" /\ calls' = calls
    BY <1>1, <1>10, KindsCount DEF StartsReading
  <2>2. /\ Count(s) >= Count(r) /\ \A k \in 1..Count(r) : calls[r][k].op = calls[s][k].op
        /\ phase[s] = "read" => Base(s) = Count(r)
        /\ phase[s] = "write" => at[s] = "phaseEnd" /\ Count(s) = Count(r)
    BY <1>10, AtBarrier
  <2>3. Base(s) <= Count(r) /\ \A k \in 1..Base(s) : calls[s][k].op = calls[r][k].op
    BY <1>6 DEF PhasesInv
  <2>4. Base(s)' = Base(s) /\ phase'[s] = phase[s] /\ at'[s] = at[s] /\ Count(s)' = Count(s)
    BY <1>4
  <2>5. phase[s] \in {"write", "read"} /\ Count(r) \in Nat /\ Count(s) \in Nat
    BY <1>2
  <2>6. PhasesInv(r, s)'
    BY <2>1, <2>2, <2>4, <2>5 DEF PhasesInv
  <2>7. PhasesInv(s, r)'
    BY <2>1, <2>2, <2>3, <2>4, <2>5 DEF PhasesInv
  <2> QED
    BY <2>6, <2>7
<1> QED
  BY <1>7, <1>8, <1>9, <1>10

\* When a rank learns that it has to stop.
LEMMA StopStep ==
    ASSUME TypeInv, NEW r \in Ranks, Step(r),
           Quiet(r) \/ Broadcasts(r) \/ Closes(r) \/ StartsReading(r)
    PROVE  \/ StartsReading(r)
           \/ /\ phase'[r] = phase[r] /\ iterations' = iterations
              /\ test.collective => \/ at[r] # "agree" /\ stop'[r] = stop[r]
                                    \/ /\ at[r] = "agree" /\ at'[r] # "agree" /\ Ready(r)
                                       /\ stop'[r] = Sent(0, r)
<1>1. /\ phase[r] \in {"write", "read"}
  BY RankType
<1>2. CASE Segment(r) \/ AnotherPass(r) \/ LastPass(r) \/ Reduced(r) \/ Rest(r) \/ Finish(r)
  BY <1>2 DEF Segment, AnotherPass, LastPass, Reduced, Rest, Finish, At, loop, record
<1>3. CASE Transfer(r)
  BY <1>3 DEF Transfer, At
<1>4. CASE Agree(r)
  BY <1>4 DEF Agree, Advance, At, GoTo, Set, record, TypeInv, PlaceType
<1>5. CASE NextPhase(r)
  <2>1. CASE phase[r] = "write"
    BY <1>5, <2>1 DEF NextPhase, At, Quiet, Broadcasts, Closes
  <2>2. CASE phase[r] = "read"
    BY <1>5, <2>2 DEF NextPhase, At, loop
  <2> QED
    BY <1>1, <2>1, <2>2
<1> QED
  BY <1>2, <1>3, <1>4, <1>5 DEF Step

\* Rank 0 decides for all ranks.
LEMMA VotesStep ==
    ASSUME SWInv, NEW r \in Ranks, TypeInv', test' = test, Step(r), CallsInv(r)',
           Quiet(r) \/ Broadcasts(r) \/ Closes(r) \/ StartsReading(r),
           \A s \in Ranks \ {r} : SameRank(s)
    PROVE  \A s \in Ranks : VotesInv(s)'
<1> SUFFICES ASSUME test.collective PROVE \A s \in Ranks : VotesInv(s)'
  BY DEF VotesInv
<1>1. TypeInv /\ 0 \in Ranks /\ \A s \in Ranks : CallsInv(s) /\ VotesInv(s) /\ LoopInv(s)
  BY TestType DEF SWInv, RankInv
<1>2. \A s \in Ranks : /\ Count(s) \in Nat /\ Base(s) \in Nat /\ Bcasts(s) \in Nat
                       /\ Base(s) + Bcasts(s) <= Count(s)
  <2> SUFFICES ASSUME NEW s \in Ranks
               PROVE  /\ Count(s) \in Nat /\ Base(s) \in Nat /\ Bcasts(s) \in Nat
                      /\ Base(s) + Bcasts(s) <= Count(s)
    OBVIOUS
  <2>1. /\ Count(s) \in Nat /\ Base(s) \in Nat /\ Bcasts(s) \in Nat /\ Closed(s) \in 0..Len(Closing)
        /\ Count(s) = Base(s) + Bcasts(s) + Closed(s)
    BY <1>1, CallsType
  <2> QED
    BY <2>1
<1>3. /\ Count(0)' >= Count(0)
      /\ \A k \in 1..Count(0) : calls'[0][k] = calls[0][k]
  BY <1>1, KindsCount
<1>4. ASSUME NEW s \in Ranks, Base(s)' = Base(s), NEW n \in Nat \ {0}, Base(s) + n <= Count(0)
      PROVE  Vote(s, n)' = Vote(s, n) /\ Base(s)' + n <= Count(0)'
  <2>1. Base(s) + n \in 1..Count(0)
    BY <1>1, <1>2, <1>4
  <2>2. calls'[0][Base(s)' + n] = calls[0][Base(s) + n]
    BY <1>3, <1>4, <2>1
  <2>3. Count(0)' \in Nat
    <3>1. Count(0)' = Count(0) \/ Count(0)' = Count(0) + 1
      BY <1>1, KindsCount, OtherRank
    <3> QED
      BY <1>1, <1>2, <3>1
  <2> QED
    BY <1>1, <1>2, <1>3, <1>4, <2>2, <2>3 DEF Vote
<1>5. \A s \in Ranks : /\ \A n \in 1..(Bcasts(s) - 1) : Base(s) + n <= Count(0) /\ Vote(s, n) = "no"
                       /\ at[s] # "agree" /\ Bcasts(s) > 0
                            => Base(s) + Bcasts(s) <= Count(0) /\ Vote(s, Bcasts(s)) = stop[s]
                       /\ s = 0 => \A n \in 1..Bcasts(0) : Vote(0, n) \in Hit(0, n)
  BY <1>1 DEF VotesInv
<1>6. ASSUME NEW s \in Ranks, Base(s)' = Base(s), Bcasts(s)' = Bcasts(s), iterations'[s] = iterations[s],
             \/ at[s] # "agree" /\ stop'[s] = stop[s]
             \/ at[s] = "agree" /\ at'[s] = "agree"
             \/ /\ at[s] = "agree" /\ at'[s] # "agree" /\ Bcasts(s) > 0
                /\ Base(s) + Bcasts(s) <= Count(0) /\ Vote(s, Bcasts(s)) = stop'[s]
      PROVE  VotesInv(s)'
  <2>1. \A n \in 1..(Bcasts(s) - 1) : Base(s)' + n <= Count(0)' /\ Vote(s, n)' = "no"
    <3>1. \A n \in 1..(Bcasts(s) - 1) : n \in Nat \ {0}
      BY <1>2
    <3> QED
      BY <1>4, <1>5, <1>6, <3>1
  <2>2. at'[s] # "agree" /\ Bcasts(s) > 0
            => Base(s)' + Bcasts(s) <= Count(0)' /\ Vote(s, Bcasts(s))' = stop'[s]
    <3> SUFFICES ASSUME at'[s] # "agree", Bcasts(s) > 0
                 PROVE  Base(s)' + Bcasts(s) <= Count(0)' /\ Vote(s, Bcasts(s))' = stop'[s]
      OBVIOUS
    <3>1. /\ Bcasts(s) \in Nat \ {0} /\ Base(s) + Bcasts(s) <= Count(0)
          /\ Vote(s, Bcasts(s)) = stop'[s]
      BY <1>2, <1>5, <1>6
    <3>2. Vote(s, Bcasts(s))' = calls'[0][Base(s)' + Bcasts(s)].value
      BY <1>6 DEF Vote
    <3>3. \A n : Vote(s, n)' = calls'[0][Base(s)' + n].value
      BY DEF Vote
    <3> QED
      BY <1>4, <1>6, <3>1, <3>2, <3>3
  <2>3. s = 0 => \A n \in 1..Bcasts(0) : Vote(0, n)' \in Hit(0, n)'
    <3> SUFFICES ASSUME s = 0, NEW n \in 1..Bcasts(0) PROVE Vote(0, n)' \in Hit(0, n)'
      OBVIOUS
    <3>1. n \in Nat \ {0} /\ Base(0) + n <= Count(0)
      BY <1>1, <1>2
    <3>2. Vote(0, n)' = Vote(0, n) /\ Vote(0, n) \in Hit(0, n)
      BY <1>1, <1>4, <1>5, <1>6, <3>1
    <3> QED
      BY <1>6, <3>2 DEF Hit
  <2>4. /\ \A n : Vote(s, n)' = calls'[0][Base(s)' + n].value
        /\ Bcasts(0)' = Bcasts(0) \/ s # 0
    BY <1>6 DEF Vote
  <2> QED
    BY <1>6, <2>1, <2>2, <2>3, <2>4 DEF VotesInv
<1>7. ASSUME NEW s \in Ranks \ {r} PROVE VotesInv(s)'
  <2>1. /\ Base(s)' = Base(s) /\ Bcasts(s)' = Bcasts(s) /\ iterations'[s] = iterations[s]
        /\ at'[s] = at[s] /\ stop'[s] = stop[s]
    BY <1>1, <1>7, OtherRank DEF SameRank
  <2> QED
    BY <1>6, <2>1
<1>8. VotesInv(r)'
  <2>1. CASE StartsReading(r)
    <3>1. Bcasts(r)' = 0
      BY <2>1 DEF StartsReading
    <3>2. \A n \in 1..(0 - 1) : FALSE
      OBVIOUS
    <3>3. \A n \in 1..0 : FALSE
      OBVIOUS
    <3> QED
      BY <3>1, <3>2, <3>3 DEF VotesInv
  <2>2. ASSUME ~StartsReading(r)
        PROVE  /\ iterations' = iterations /\ Base(r)' = Base(r)
               /\ \/ at[r] # "agree" /\ stop'[r] = stop[r]
                  \/ at[r] = "agree" /\ at'[r] # "agree" /\ Ready(r) /\ stop'[r] = Sent(0, r)
    BY <1>1, <2>2, StopStep, KindsCount
  <2>3. CASE Quiet(r) \/ Closes(r)
    <3>1. Bcasts(r)' = Bcasts(r) /\ ~StartsReading(r)
      BY <2>3 DEF Quiet, Closes, StartsReading
    <3>2. ASSUME at[r] = "agree", Ready(r), stop'[r] = Sent(0, r)
          PROVE  Bcasts(r) > 0 /\ Base(r) + Bcasts(r) <= Count(0) /\ Vote(r, Bcasts(r)) = stop'[r]
      <4>1. Bcasts(r) > 0
        BY <1>1, <3>2 DEF LoopInv, Bcasts
      <4>2. Count(r) = Base(r) + Bcasts(r) /\ calls[r][Count(r)].op = "Bcast"
        BY <1>1, <3>2, <4>1, LastCall
      <4>3. Count(r) > 0
        BY <1>2, <4>1, <4>2
      <4>4. Count(0) >= Count(r)
        BY <3>2, <4>2, <4>3, BcastMeans
      <4> QED
        BY <1>1, <1>2, <3>2, <4>1, <4>2, <4>4 DEF Vote, Sent
    <3> QED
      BY <1>6, <2>2, <3>1, <3>2
  <2>4. CASE Broadcasts(r)
    <3>1. /\ at[r] = "transfer" /\ at'[r] = "agree" /\ Bcasts(r)' = Bcasts(r) + 1 /\ Closed(r) = 0
          /\ ~StartsReading(r)
      BY <2>4 DEF Broadcasts, StartsReading
    <3>2. stop[r] = "no" /\ pairCnt[r] = Bcasts(r) /\ iterations' = iterations /\ Base(r)' = Base(r)
      BY <1>1, <2>2, <3>1 DEF LoopInv, Bcasts
    <3>3. \A n \in 1..Bcasts(r) : Base(r) + n <= Count(0) /\ Vote(r, n) = "no"
      <4>1. \A n \in 1..Bcasts(r) : n \in 1..(Bcasts(r) - 1) \/ (n = Bcasts(r) /\ Bcasts(r) > 0)
        BY <1>2
      <4> QED
        BY <1>5, <3>1, <3>2, <4>1
    <3>4. \A n \in 1..Bcasts(r) : Base(r)' + n <= Count(0)' /\ Vote(r, n)' = "no"
      <4>1. \A n \in 1..Bcasts(r) : n \in Nat \ {0}
        BY <1>2
      <4> QED
        BY <1>4, <3>2, <3>3, <4>1
    <3>5. (Bcasts(r) + 1) - 1 = Bcasts(r)
      BY <1>2
    <3>6. r = 0 => \A n \in 1..(Bcasts(0) + 1) : Vote(0, n)' \in Hit(0, n)'
      <4> SUFFICES ASSUME r = 0, NEW n \in 1..(Bcasts(0) + 1) PROVE Vote(0, n)' \in Hit(0, n)'
        OBVIOUS
      <4>1. \A k : Hit(0, k)' = Hit(0, k)
        BY <3>2 DEF Hit
      <4>2. CASE n \in 1..Bcasts(0)
        <5>1. n \in Nat \ {0} /\ Base(0) + n <= Count(0)
          BY <1>1, <1>2, <4>2
        <5> QED
          BY <1>1, <1>4, <1>5, <3>2, <4>1, <4>2, <5>1
      <4>3. CASE n = Bcasts(0) + 1
        <5>1. PICK value \in Hit(0, pairCnt[0] + 1) :
                    calls'[0][Count(0) + 1] = [op |-> "Bcast", value |-> value]
          BY <1>1, <2>4, KindsCount
        <5>2. Count(0) = Base(0) + Bcasts(0)
          <6>1. Count(r) = Base(r) + Bcasts(r) + 0 /\ Base(r) \in Nat /\ Bcasts(r) \in Nat
            BY <1>1, <3>1, CallsType
          <6> QED
            BY <6>1
        <5>3. Base(0)' + n = Count(0) + 1 /\ pairCnt[0] + 1 = n
          BY <1>1, <1>2, <3>2, <4>3, <5>2
        <5>4. Vote(0, n)' = value
          BY <5>1, <5>3 DEF Vote
        <5> QED
          BY <4>1, <5>3, <5>4
      <4> QED
        BY <1>1, <1>2, <4>2, <4>3
    <3>7. \A n : Vote(r, n)' = calls'[0][Base(r)' + n].value
      BY DEF Vote
    <3> QED
      BY <3>1, <3>4, <3>5, <3>6, <3>7 DEF VotesInv
  <2> QED
    BY <2>1, <2>3, <2>4
<1> QED
  BY <1>7, <1>8

\* The largest value of an Allreduce that all ranks have called stays what it is.
LEMMA SameMaximum ==
    ASSUME NEW k, \A s \in Ranks : calls'[s][k] = calls[s][k]
    PROVE  MaxAt(k)' = MaxAt(k)
<1>1. {calls'[s][k].value : s \in Ranks} = {calls[s][k].value : s \in Ranks}
  OBVIOUS
<1>2. \A v : (\A s \in Ranks : calls'[s][k].value <= v) <=> (\A s \in Ranks : calls[s][k].value <= v)
  OBVIOUS
<1> QED
  BY <1>1, <1>2 DEF MaxAt

\* What the ranks agree on is the largest number of transfers.
LEMMA ReductionStep ==
    ASSUME SWInv, NEW r \in Ranks, TypeInv', test' = test, Step(r), CallsInv(r)',
           Quiet(r) \/ Broadcasts(r) \/ Closes(r) \/ StartsReading(r),
           \A s \in Ranks \ {r} : SameRank(s)
    PROVE  \A s \in Ranks : ReductionInv(s)'
<1> SUFFICES ASSUME test.wearOut PROVE \A s \in Ranks : ReductionInv(s)'
  BY DEF ReductionInv
<1>1. TypeInv /\ \A s \in Ranks : CallsInv(s) /\ ReductionInv(s) /\ GridInv(s) /\ WorkInv(s)
  BY DEF SWInv, RankInv
<1>2. \A s \in Ranks : Count(s) \in Nat /\ Base(s) \in Nat /\ Bcasts(s) \in Nat /\ Reduction(s) \in Nat \ {0}
  <2>1. \A s \in Ranks : Count(s) \in Nat /\ Base(s) \in Nat /\ Bcasts(s) \in Nat
    BY <1>1, CallsType
  <2> QED
    BY <2>1 DEF Reduction
<1>3. \A s \in Ranks : Count(s)' >= Count(s) /\ \A k \in 1..Count(s) : calls'[s][k] = calls[s][k]
  BY <1>1, KindsCount
<1>4. \A s \in Ranks : Count(s)' \in Nat
  <2>1. \A s \in Ranks \ {r} : Count(s)' = Count(s)
    BY <1>1, OtherRank
  <2>2. Count(r)' = Count(r) \/ Count(r)' = Count(r) + 1
    BY <1>1, KindsCount
  <2> QED
    BY <1>2, <2>1, <2>2
<1>5. ASSUME NEW s \in Ranks, Reduction(s)' = Reduction(s),
             \A t \in Ranks : Count(t) >= Reduction(s) /\ calls[t][Reduction(s)].op = "Allreduce"
      PROVE  /\ \A t \in Ranks : Count(t)' >= Reduction(s)' /\ calls'[t][Reduction(s)'].op = "Allreduce"
             /\ MaxAt(Reduction(s))' = MaxAt(Reduction(s))
  <2> DEFINE k == Reduction(s)
  <2>1. \A t \in Ranks : k \in 1..Count(t)
    BY <1>2, <1>5
  <2>2. \A t \in Ranks : calls'[t][k] = calls[t][k]
    BY <1>3, <2>1
  <2>3. \A t \in Ranks : Count(t)' >= k
    BY <1>2, <1>3, <1>4, <1>5
  <2>4. Reduction(s)' = k
    BY <1>5
  <2>5. \A t \in Ranks : calls'[t][k].op = "Allreduce"
    BY <1>5, <2>2
  <2> HIDE DEF k
  <2>6. MaxAt(Reduction(s))' = MaxAt(k)
    BY <2>2, <2>4, SameMaximum DEF MaxAt
  <2> QED
    BY <2>3, <2>4, <2>5, <2>6 DEF k
<1>6. ASSUME NEW s \in Ranks \ {r} PROVE ReductionInv(s)'
  <2>1. /\ Base(s)' = Base(s) /\ Bcasts(s)' = Bcasts(s) /\ iterations'[s] = iterations[s]
        /\ at'[s] = at[s] /\ phase'[s] = phase[s] /\ calls'[s] = calls[s]
        /\ pairs_accessed'[s] = pairs_accessed[s] /\ pairCnt'[s] = pairCnt[s]
    BY <1>1, <1>6, OtherRank DEF SameRank
  <2>2. Reduction(s)' = Reduction(s) /\ WorkSent(s)' = WorkSent(s)
    BY <2>1 DEF Reduction, WorkSent
  <2>3. at[s] \in {"rest"} \cup Ended =>
            /\ \A t \in Ranks : /\ Count(t)' >= Reduction(s)'
                                /\ calls'[t][Reduction(s)'].op = "Allreduce"
            /\ pairs_accessed[s] = MaxAt(Reduction(s))'
    BY <1>1, <1>5, <2>2 DEF ReductionInv
  <2>4. at[s] \notin Cut =>
            /\ WorkSent(s) \in Nat /\ (phase[s] = "read" => WorkSent(s) <= iterations[s])
            /\ at[s] = "reduced" \/ test.collective => WorkSent(s) = pairCnt[s]
    BY <1>1 DEF ReductionInv
  <2> QED
    BY <2>1, <2>2, <2>3, <2>4 DEF ReductionInv
<1>7. ASSUME at'[r] \notin Cut, at[r] \in Cut PROVE ReductionInv(r)'
  <2>1. /\ LastPass(r) /\ at[r] = "passDone" /\ at'[r] = "reduced" /\ Send(r, "Allreduce", pairCnt[r])
        /\ UNCHANGED <<pairCnt, phase, iterations>>
    BY <1>1, <1>7 DEF Step, Segment, Transfer, Agree, AnotherPass, LastPass, Reduced, Rest, Finish,
       NextPhase, Advance, At, GoTo, TypeInv, PlaceType, Cut, loop
  <2>2. Closed(r) = 0 /\ Count(r) = Base(r) + Bcasts(r) + Closed(r) /\ pairCnt[r] \in Nat
    BY <1>1, <1>7, CallsType, RankType
  <2>3. Base(r)' = Base(r) /\ Bcasts(r)' = Bcasts(r)
    <3>1. ~Broadcasts(r) /\ ~StartsReading(r)
      BY <2>1 DEF Broadcasts, StartsReading
    <3>2. Bcasts(r)' = Bcasts(r)
      BY <3>1 DEF Quiet, Closes
    <3> QED
      BY <1>1, <3>1, <3>2, KindsCount
  <2>4. Reduction(r)' = Count(r) + 1
    BY <1>2, <2>2, <2>3 DEF Reduction
  <2>5. calls'[r][Count(r) + 1] = [op |-> "Allreduce", value |-> pairCnt[r]]
    <3>1. "Allreduce" \in Collectives /\ pairCnt[r] \in Values
      BY <2>2 DEF Collectives, Synchronizing, Values
    <3> QED
      BY <1>1, <2>1, <3>1, SendStep DEF TypeInv
  <2>6. WorkSent(r)' = pairCnt[r]
    BY <2>4, <2>5 DEF WorkSent
  <2>7. phase[r] = "read" => pairCnt[r] <= iterations[r]
    BY <1>1 DEF WorkInv
  <2> QED
    BY <2>1, <2>2, <2>6, <2>7 DEF ReductionInv, Ended
<1>8. ASSUME at'[r] \notin Cut, at[r] \notin Cut PROVE ReductionInv(r)'
  <2>1. /\ at'[r] # "reduced" /\ ~Broadcasts(r) /\ ~StartsReading(r)
        /\ UNCHANGED <<phase, iterations>>
    BY <1>8 DEF Step, Segment, Transfer, Agree, AnotherPass, LastPass, Reduced, Rest, Finish,
       NextPhase, Advance, At, GoTo, TypeInv, PlaceType, Cut, loop, record, Broadcasts, StartsReading
  <2>2. Base(r)' = Base(r) /\ Bcasts(r)' = Bcasts(r)
    <3>1. Bcasts(r)' = Bcasts(r)
      BY <2>1 DEF Quiet, Closes
    <3> QED
      BY <1>1, <2>1, <3>1, KindsCount
  <2>3. Reduction(r)' = Reduction(r)
    BY <2>2 DEF Reduction
  <2>4. Reduction(r) \in 1..Count(r)
    <3>1. Closed(r) > 0 /\ Count(r) = Base(r) + Bcasts(r) + Closed(r) /\ Closed(r) \in Nat
      BY <1>1, <1>8, CallsType
    <3> QED
      BY <1>2, <3>1 DEF Reduction
  <2>5. WorkSent(r)' = WorkSent(r)
    <3>1. calls'[r][Reduction(r)] = calls[r][Reduction(r)]
      BY <1>3, <2>4
    <3> QED
      BY <2>3, <3>1 DEF WorkSent
  <2>6. test.collective => pairCnt'[r] = pairCnt[r]
    BY <2>2 DEF Bcasts
  <2>7. /\ WorkSent(r) \in Nat /\ (phase[r] = "read" => WorkSent(r) <= iterations[r])
        /\ test.collective => WorkSent(r) = pairCnt[r]
    BY <1>1, <1>8 DEF ReductionInv
  <2>8. /\ \A t \in Ranks : Count(t) >= Reduction(r) /\ calls[t][Reduction(r)].op = "Allreduce"
        /\ pairs_accessed'[r] = MaxAt(Reduction(r))
    <3>1. CASE at[r] = "reduced"
      <4>1. Ready(r) /\ pairs_accessed'[r] = MaxSent(r)
        BY <3>1 DEF Step, Segment, Transfer, Agree, AnotherPass, LastPass, Reduced, Rest, Finish,
           NextPhase, At, Set, TypeInv, CountType
      <4>2. Count(r) = Reduction(r) /\ calls[r][Count(r)].op = "Allreduce"
        BY <1>1, <3>1, LastCall
      <4>3. \A t \in Ranks : Count(t) >= Count(r) /\ calls[t][Count(r)].op = "Allreduce"
        <5>1. Count(r) > 0
          BY <2>4, <4>2
        <5> QED
          BY <4>1, <4>2, <5>1, ReadyMeans DEF Synchronizing
      <4> QED
        BY <4>1, <4>2, <4>3 DEF MaxSent, MaxSentIn, MaxAt, Sent
    <3>2. CASE at[r] # "reduced"
      <4>1. at[r] \in {"rest"} \cup Ended
        BY <1>1, <1>8, <3>2, RankType
      <4>2. pairs_accessed' = pairs_accessed
        BY <1>8, <3>2 DEF Step, Segment, Transfer, Agree, AnotherPass, LastPass, Reduced, Rest, Finish,
           NextPhase, At, record, Cut
      <4> QED
        BY <1>1, <4>1, <4>2 DEF ReductionInv
    <3> QED
      BY <3>1, <3>2
  <2>9. /\ \A t \in Ranks : Count(t)' >= Reduction(r)' /\ calls'[t][Reduction(r)'].op = "Allreduce"
        /\ pairs_accessed'[r] = MaxAt(Reduction(r))'
    BY <1>5, <2>3, <2>8
  <2> QED
    BY <2>1, <2>5, <2>6, <2>7, <2>9 DEF ReductionInv
<1>9. ASSUME at'[r] \in Cut PROVE ReductionInv(r)'
  BY <1>9 DEF ReductionInv, Cut, Ended
<1> QED
  BY <1>6, <1>7, <1>8, <1>9

\* What the read phase is told is what all ranks have done.
LEMMA RecordStep ==
    ASSUME SWInv, NEW r \in Ranks, TypeInv', test' = test, Step(r), CallsInv(r)',
           Quiet(r) \/ Broadcasts(r) \/ Closes(r) \/ StartsReading(r),
           \A s \in Ranks \ {r} : SameRank(s)
    PROVE  \A s, t \in Ranks : RecordInv(s, t)'
<1> SUFFICES ASSUME test.wearOut \/ test.collective PROVE \A s, t \in Ranks : RecordInv(s, t)'
  BY DEF RecordInv
<1>1. TypeInv /\ \A s \in Ranks : CallsInv(s) /\ ReductionInv(s) /\ WorkInv(s)
  BY DEF SWInv, RankInv
<1>2. \A s, t \in Ranks : PhasesInv(s, t) /\ RecordInv(s, t)
  BY DEF SWInv
<1>3. \A s \in Ranks : phase[s] \in {"write", "read"}
  BY <1>1, RankType
<1>4. \A s, t \in Ranks : /\ phase[s] = "read" /\ phase[t] = "read" => iterations[s] = iterations[t]
                          /\ phase[s] = "write" /\ phase[t] = "read" =>
                                iterations[t] = pairs_accessed[s]
  BY <1>2 DEF RecordInv
<1>5. \A s \in Ranks \ {r} : /\ phase'[s] = phase[s] /\ iterations'[s] = iterations[s]
                              /\ pairs_accessed'[s] = pairs_accessed[s]
  BY DEF SameRank
<1>6. CASE StartsReading(r)
  <2>1. /\ phase[r] = "write" /\ phase'[r] = "read" /\ at[r] = "phaseEnd"
        /\ iterations'[r] = pairs_accessed[r] /\ pairs_accessed' = pairs_accessed
    BY <1>6 DEF StartsReading
  <2>2. ASSUME NEW s \in Ranks, phase[s] = "write" PROVE pairs_accessed[s] = pairs_accessed[r]
    <3>1. at[s] = "phaseEnd" /\ Count(s) = Count(r) /\ Bcasts(s) = Bcasts(r) /\ Base(s) = Base(r)
      BY <1>6, <2>2, AtBarrier
    <3>2. CASE test.wearOut
      <4>1. pairs_accessed[s] = MaxAt(Reduction(s)) /\ pairs_accessed[r] = MaxAt(Reduction(r))
        BY <1>1, <2>1, <3>1, <3>2 DEF ReductionInv, Ended
      <4>2. Reduction(s) = Reduction(r)
        BY <3>1 DEF Reduction
      <4> QED
        BY <4>1, <4>2
    <3>3. CASE test.collective
      <4>1. pairs_accessed[s] = pairCnt[s] /\ pairs_accessed[r] = pairCnt[r]
        BY <1>1, <2>1, <3>1 DEF WorkInv, Ended
      <4> QED
        BY <3>1, <3>3, <4>1 DEF Bcasts
    <3> QED
      BY <3>2, <3>3
  <2>3. \A s \in Ranks : phase[s] = "read" => iterations[s] = pairs_accessed[r]
    BY <1>4, <2>1
  <2>4. \A s, t \in Ranks : /\ phase'[s] = "read" /\ phase'[t] = "read" => iterations'[s] = iterations'[t]
                            /\ phase'[s] = "write" /\ phase'[t] = "read" =>
                                  iterations'[t] = pairs_accessed'[s]
    BY <1>5, <2>1, <2>2, <2>3
  <2> QED
    BY <2>4 DEF RecordInv
<1>7. CASE ~StartsReading(r)
  <2>1. phase'[r] = phase[r] /\ iterations' = iterations /\ (phase[r] = "write" => at[r] # "phaseEnd")
    BY <1>1, <1>7, StopStep DEF Quiet, Broadcasts, Closes
  <2>2. \A t \in Ranks : phase[r] = "write" => phase[t] # "read"
    BY <1>2, <2>1 DEF PhasesInv
  <2>3. \A s, t \in Ranks : /\ phase'[s] = "read" /\ phase'[t] = "read" => iterations'[s] = iterations'[t]
                            /\ phase'[s] = "write" /\ phase'[t] = "read" =>
                                  iterations'[t] = pairs_accessed'[s]
    BY <1>4, <1>5, <2>1, <2>2
  <2> QED
    BY <2>3 DEF RecordInv
<1> QED
  BY <1>6, <1>7

----------------------------------------------------------------------------
(* The invariant, and what follows from it.                                *)

\* The ranks start at the first transfer, and have called nothing.
LEMMA SWInit ==
    ASSUME UsualTests, Init
    PROVE  SWInv
<1>1. TypeInv
  <2>1. test \in Tests /\ PlaceType /\ CountType
    BY DEF Init, PlaceType, CountType, Zero, Cut, Ended, Stops
  <2>2. LogType /\ calls \in CallsIn(Values)
    BY DEF Init, LogType, CallsIn, NoCalls
  <2> QED
    BY <2>1, <2>2 DEF TypeInv
<1>2. ASSUME NEW r \in Ranks PROVE RankInv(r) /\ Base(r) = 0 /\ phase[r] = "write"
  <2>1. /\ at[r] = "segment" /\ phase[r] = "write" /\ i[r] = 0 /\ j[r] = 0 /\ pairCnt[r] = 0
        /\ stop[r] = "no" /\ iterations[r] = 0 /\ seen[r] = << >> /\ calls[r] = << >>
        /\ S \in Nat \ {0} /\ Offs(r) \in Nat
    BY <1>1, TestType DEF Init, Zero, NoCalls
  <2>2. \A n \in 1..0 : FALSE
    OBVIOUS
  <2>3. LoopInv(r)
    <3>1. Offs(r) > 0 => Pair(r, 1) = <<0, 0>>
      BY <2>1, FirstPair
    <3> QED
      BY <2>1, <3>1 DEF LoopInv, NextIs, Wrap
  <2>4. HistoryInv(r)
    BY <2>1, <2>2 DEF HistoryInv
  <2>5. WorkInv(r)
    BY <2>1 DEF WorkInv, Ended
  <2>6. Bcasts(r) = 0 /\ Closed(r) = 0 /\ Count(r) = 0 /\ Base(r) = 0
    BY <2>1 DEF Bcasts, Closed, Cut, Count, Base
  <2>7. CallsInv(r)
    BY <2>1, <2>2, <2>6 DEF CallsInv
  <2>8. GridInv(r)
    <3>1. 0 * Offs(r) = 0 /\ 0 <= S * Offs(r)
      BY <2>1
    <3> QED
      BY <2>1, <3>1 DEF GridInv
  <2>9. VotesInv(r)
    <3>1. \A n \in 1..(0 - 1) : FALSE
      OBVIOUS
    <3>2. r = 0 => Bcasts(0) = 0
      BY <2>6
    <3> QED
      BY <2>2, <2>6, <3>1, <3>2 DEF VotesInv
  <2>10. ReductionInv(r)
    BY <2>1 DEF ReductionInv, Cut, Ended
  <2> QED
    BY <2>1, <2>3, <2>4, <2>5, <2>6, <2>7, <2>8, <2>9, <2>10 DEF RankInv
<1>3. ASSUME NEW r \in Ranks, NEW s \in Ranks PROVE PhasesInv(r, s) /\ RecordInv(r, s)
  <2>1. /\ Base(r) = 0 /\ Base(s) = 0 /\ phase[r] = "write" /\ phase[s] = "write" /\ Count(s) \in Nat
    BY <1>1, <1>2, CountIsNat DEF TypeInv
  <2>2. \A n \in 1..0 : FALSE
    OBVIOUS
  <2> QED
    BY <2>1, <2>2 DEF PhasesInv, RecordInv
<1> QED
  BY <1>1, <1>2, <1>3 DEF SWInv

\* A step of a rank keeps the invariant.
LEMMA SWStep ==
    ASSUME UsualTests, SWInv, NEW r \in Ranks, Step(r)
    PROVE  SWInv'
<1>1. /\ TypeInv /\ LoopInv(r) /\ HistoryInv(r) /\ WorkInv(r) /\ CallsInv(r) /\ GridInv(r)
  BY DEF SWInv, RankInv
<1>2. Told(r)
  BY ToldHolds
<1>3. TypeInv' /\ test' = test /\ \A s \in Ranks \ {r} : SameRank(s)
  BY <1>1, <1>2, TypeStep
<1>4. Quiet(r) \/ Broadcasts(r) \/ Closes(r) \/ StartsReading(r)
  BY <1>1, <1>2, <1>3, StepKinds
<1>5. /\ LoopInv(r)' /\ HistoryInv(r)' /\ WorkInv(r)' /\ CallsInv(r)' /\ GridInv(r)'
  <2>1. LoopInv(r)'
    BY <1>1, <1>2, LoopStep
  <2>2. HistoryInv(r)'
    BY <1>1, <1>2, HistoryStep
  <2>3. WorkInv(r)'
    BY <1>1, <1>2, WorkStep
  <2>4. CallsInv(r)'
    BY <1>1, <1>3, <1>4, CallsStep
  <2>5. GridInv(r)'
    BY <1>1, <1>2, <1>3, GridStep
  <2> QED
    BY <2>1, <2>2, <2>3, <2>4, <2>5
<1>6. ASSUME NEW s \in Ranks \ {r}
      PROVE  LoopInv(s)' /\ HistoryInv(s)' /\ WorkInv(s)' /\ CallsInv(s)' /\ GridInv(s)'
  <2>1. LoopInv(s) /\ HistoryInv(s) /\ WorkInv(s) /\ CallsInv(s) /\ GridInv(s)
    BY DEF SWInv, RankInv
  <2> QED
    BY <1>1, <1>3, <2>1, OtherRank
<1>7. \A s \in Ranks : VotesInv(s)'
  BY <1>3, <1>4, <1>5, VotesStep
<1>8. \A s \in Ranks : ReductionInv(s)'
  BY <1>3, <1>4, <1>5, ReductionStep
<1>9. \A s, t \in Ranks : PhasesInv(s, t)'
  BY <1>3, <1>4, <1>5, PhasesStep
<1>10. \A s, t \in Ranks : RecordInv(s, t)'
  BY <1>3, <1>4, <1>5, RecordStep
<1>11. \A s \in Ranks : RankInv(s)'
  BY <1>5, <1>6, <1>7, <1>8 DEF RankInv
<1> QED
  BY <1>3, <1>9, <1>10, <1>11 DEF SWInv

\* Where nothing changes, the invariant stays.
LEMMA SWStutter ==
    ASSUME SWInv, UNCHANGED vars
    PROVE  SWInv'
<1>1. /\ test' = test /\ at' = at /\ calls' = calls /\ phase' = phase /\ i' = i /\ j' = j
      /\ pairCnt' = pairCnt /\ stop' = stop /\ seen' = seen /\ iterations' = iterations
      /\ pairs_accessed' = pairs_accessed /\ written' = written
  BY DEF vars, loop, record
<1>2. TypeInv /\ \A s \in Ranks : RankInv(s)
  BY DEF SWInv
<1>3. TypeInv'
  BY <1>1, <1>2 DEF TypeInv, PlaceType, CountType, LogType
<1>4. \A s \in Ranks : SameRank(s)
  BY <1>1 DEF SameRank
<1>5. \A s \in Ranks : /\ LoopInv(s)' /\ HistoryInv(s)' /\ WorkInv(s)' /\ CallsInv(s)' /\ GridInv(s)'
                       /\ Base(s)' = Base(s) /\ Bcasts(s)' = Bcasts(s) /\ Count(s)' = Count(s)
  BY <1>1, <1>2, <1>4, OtherRank DEF RankInv
<1>6. 0 \in Ranks
  BY <1>2, TestType
<1>7. \A s \in Ranks : VotesInv(s)'
  BY <1>1, <1>2, <1>5, <1>6 DEF RankInv, VotesInv, Vote, Hit
<1>8. \A s \in Ranks : Reduction(s)' = Reduction(s)
  BY <1>5 DEF Reduction
<1>9. ASSUME NEW s \in Ranks PROVE ReductionInv(s)'
  <2>1. WorkSent(s)' = WorkSent(s) /\ \A t \in Ranks : Count(t)' = Count(t)
    BY <1>1, <1>5, <1>8 DEF WorkSent
  <2>2. MaxAt(Reduction(s))' = MaxAt(Reduction(s))
    BY <1>1, <1>8 DEF MaxAt
  <2> QED
    BY <1>1, <1>2, <1>8, <2>1, <2>2 DEF RankInv, ReductionInv
<1>10. \A s, t \in Ranks : PhasesInv(s, t)' /\ RecordInv(s, t)'
  BY <1>1, <1>5 DEF SWInv, PhasesInv, RecordInv
<1> QED
  BY <1>3, <1>5, <1>7, <1>9, <1>10 DEF SWInv, RankInv

\* The invariant holds in every state.
THEOREM StoneWallInvariant ==
    ASSUME UsualTests
    PROVE  Spec => []SWInv
<1>1. Init => SWInv
  BY SWInit
<1>2. SWInv /\ [Next]_vars => SWInv'
  BY SWStep, SWStutter DEF Next, Done
<1> QED
  BY <1>1, <1>2, PTL DEF Spec

\* The ranks meet in the same collectives, wherever the deadline finds each of them: the
\* Bcast of a collective transfer, the Allreduce and the Reduce of -l, and the Barrier.
THEOREM StoneWallCollectivesMatch ==
    ASSUME UsualTests
    PROVE  Spec => []CollectivesMatch
<1>1. SWInv => CollectivesMatch
  BY SameCalls DEF CollectivesMatch
<1> QED
  BY <1>1, StoneWallInvariant, PTL

\* The transfers of a rank are in order, without a gap: after the stonewall, and after
\* the loops that do the rest.
THEOREM TransfersInOrder ==
    ASSUME UsualTests
    PROVE  Spec => []InOrder
<1>1. SWInv => InOrder
  BY DEF SWInv, RankInv, HistoryInv, InOrder
<1> QED
  BY <1>1, StoneWallInvariant, PTL

\* With -l the ranks do as many transfers as any of them has done at the deadline.
THEOREM WearOutIsEqual ==
    ASSUME UsualTests
    PROVE  Spec => []EqualWork
<1>1. ASSUME SWInv, NEW r \in Ranks, NEW s \in Ranks, test.wearOut, phase[r] = phase[s],
             at[r] \in Ended, at[s] \in Ended
      PROVE  pairCnt[r] = pairs_accessed[s]
  <2>1. /\ TypeInv /\ RankInv(r) /\ RankInv(s) /\ PhasesInv(r, s) /\ PhasesInv(s, r)
    BY <1>1 DEF SWInv
  <2>2. Base(r) = Base(s)
    BY <1>1, <2>1 DEF PhasesInv
  <2>3. Bcasts(r) = Bcasts(s)
    <3>1. Bcasts(r) <= Bcasts(s) /\ Bcasts(s) <= Bcasts(r)
      BY <1>1, <2>1, LongestWins DEF Ended
    <3>2. Bcasts(r) \in Nat /\ Bcasts(s) \in Nat
      BY <2>1, CallsType DEF RankInv
    <3> QED
      BY <3>1, <3>2
  <2>4. pairs_accessed[r] = MaxAt(Reduction(r)) /\ pairs_accessed[s] = MaxAt(Reduction(s))
    BY <1>1, <2>1 DEF RankInv, ReductionInv
  <2>5. pairCnt[r] = pairs_accessed[r]
    BY <1>1, <2>1 DEF RankInv, WorkInv
  <2> QED
    BY <2>2, <2>3, <2>4, <2>5 DEF Reduction
<1>2. SWInv => EqualWork
  BY <1>1 DEF EqualWork, Ended
<1> QED
  BY <1>2, StoneWallInvariant, PTL

\* A rank reads the block that another one wrote (-C) only where the ranks have done the
\* same work: the other's is recorded with -l, or is that of the collective transfers.
SafeShift == \A t \in Tests : t.shift # 0 => SameOffsets(t) /\ (t.wearOut \/ t.collective)

\* The read phase never reads what the write phase did not write.
THEOREM ReadPhaseFindsData ==
    ASSUME UsualTests, SafeShift
    PROVE  Spec => []ReadsWritten
<1>1. ASSUME SWInv, NEW r \in Ranks, phase[r] = "read", NEW n \in 1..Len(seen[r])
      PROVE  seen[r][n] \in written[(r + test.shift) % N]
  <2> DEFINE q == (r + test.shift) % N
  <2>1. /\ TypeInv /\ \A s \in Ranks : HistoryInv(s) /\ WorkInv(s)
        /\ \A s, t \in Ranks : PhasesInv(s, t) /\ RecordInv(s, t)
    BY <1>1 DEF SWInv, RankInv
  <2>2. \A s \in Ranks : /\ pairCnt[s] \in Nat /\ iterations[s] \in Nat /\ phase[s] \in {"write", "read"}
    BY <2>1, RankType
  <2>3. seen[r][n] = Pair(r, n) /\ n \in 1..iterations[r]
    BY <1>1, <2>1, <2>2 DEF HistoryInv, WorkInv
  <2>4. q \in Ranks /\ (test.shift = 0 => q = r)
    <3>1. test.shift \in Ranks /\ N \in Nat \ {0}
      BY <2>1, StoneWallAssumption, MpiAssumption DEF TypeInv, Parameters
    <3> QED
      BY <3>1 DEF Ranks
  <2> HIDE DEF q
  <2>5. CASE test.shift = 0
    BY <1>1, <2>1, <2>3, <2>4, <2>5 DEF HistoryInv, q
  <2>6. CASE test.shift # 0
    <3>1. (\A s, t \in Ranks : test.offsets[s] = test.offsets[t]) /\ (test.wearOut \/ test.collective)
      BY <2>1, <2>6 DEF SafeShift, SameOffsets, TypeInv
    <3>2. Pair(q, n) = Pair(r, n)
      BY <2>4, <3>1 DEF Pair, Offs
    <3>3. CASE phase[q] = "read"
      <4>1. iterations[q] = iterations[r]
        BY <1>1, <2>1, <2>4, <3>1, <3>3 DEF RecordInv
      <4> QED
        BY <2>1, <2>3, <2>4, <3>2, <3>3, <4>1 DEF HistoryInv, q
    <3>4. CASE phase[q] = "write"
      <4>1. iterations[r] = pairs_accessed[q] /\ at[q] = "phaseEnd"
        BY <1>1, <2>1, <2>4, <3>1, <3>4 DEF RecordInv, PhasesInv
      <4>2. pairCnt[q] = iterations[r]
        BY <2>1, <2>4, <4>1 DEF WorkInv, Ended
      <4> QED
        BY <2>1, <2>3, <2>4, <3>2, <3>4, <4>2 DEF HistoryInv, q
    <3> QED
      BY <2>2, <2>4, <3>3, <3>4
  <2> QED
    BY <2>5, <2>6
<1>2. SWInv => ReadsWritten
  BY <1>1 DEF ReadsWritten
<1> QED
  BY <1>2, StoneWallInvariant, PTL
=============================================================================
