------------------------- MODULE MdWorkbenchProofs -------------------------
(***************************************************************************)
(* Proofs about md-workbench: a rank finds every object it looks for, the   *)
(* data sets hold what their writers put there and their readers did not    *)
(* take, and each run leaves what the next one needs.                       *)
(***************************************************************************)
EXTENDS MdWorkbench, MpiProofs

\* The working set is created by the first run and by each run after one that
\* removed it, and by no other.
InTurn(runs) ==
    /\ Len(runs) > 0
    /\ "-1" \in runs[1]
    /\ \A k \in 1..(Len(runs) - 1) : ("-1" \in runs[k + 1]) <=> ("-3" \in runs[k])

\* What the theorems assume: such runs, and a position that is not overridden.
Usable == StartItem = 0 /\ \A p \in Plans : InTurn(p.runs)

----------------------------------------------------------------------------
Places == {"start", "position", "begin", "precreate", "reduce", "next",
           "stat", "read", "remove", "create", "write", "roundEnd", "wearout",
           "roundsDone", "agreed", "cleanup", "rmdir", "store", "finished"}

TypeInv ==
    /\ plan \in Plans
    /\ run \in 1..Len(plan.runs)
    /\ at \in [Ranks -> Places]
    /\ calls \in CallsIn(Nat)
    /\ phase \in [Ranks -> {"precreate", "benchmark", "cleanup"}]
    /\ global_iteration \in [Ranks -> Nat]
    /\ f \in [Ranks -> Nat]
    /\ d \in [Ranks -> Nat]
    /\ total_num \in [Ranks -> Nat]
    /\ armed_stone_wall \in [Ranks -> BOOLEAN]
    /\ stonewall_iterations \in [Ranks -> Nat]
    /\ current_index \in [Ranks -> Nat]
    /\ err \in [Ranks -> {0}]
    /\ prefix \in BOOLEAN
    /\ dirs \subseteq Ranks \X DSets
    /\ objects \subseteq Ranks \X DSets \X Nat
    /\ status \in Nat

\* The iterations of a run, and those a rank has completed.
Iterations == IF Given("-2") THEN plan.iterations ELSE 0
Done(r) == IF InBenchmark(r) THEN global_iteration[r] - 1
           ELSE global_iteration[r]

\* The calls before iteration g + 1: a barrier at its start, the Allreduce of
\* the wear-out, and a barrier and one or two reductions at its end.
CallsBefore(g) == (IF Given("-1") THEN 3 ELSE 1)
                  + (IF plan.stonewall THEN 5 * g ELSE 3 * g)

Agreement == IF plan.stonewall THEN 1 ELSE 0

\* Has r called the Allreduce of the iteration it is in?
Voted(r) == plan.stonewall /\ (~armed_stone_wall[r] \/ at[r] = "agreed")

\* How many calls r has made.
Due(r) ==
    LET b == CallsBefore(Done(r))
    IN IF at[r] = "start" \/ (at[r] = "begin" /\ Given("-1")) THEN 0
       ELSE IF at[r] = "precreate" THEN 1
       ELSE IF InBenchmark(r) THEN b + 1 + (IF Voted(r) THEN 1 ELSE 0)
       ELSE IF at[r] = "reduce"
            THEN IF phase[r] = "precreate" THEN 2
                 ELSE IF phase[r] = "benchmark" THEN b - 1 - Agreement ELSE b + 1
       ELSE IF at[r] = "rmdir" \/ (at[r] = "finished" /\ Given("-3")) THEN b + 2 ELSE b

\* At the end of an iteration: the others may still be in it.
Ahead(r) == at[r] = "reduce" /\ phase[r] = "benchmark"

\* Where r can be in this run, and in which iteration.
Where(r) ==
    /\ at[r] = "position" => ~Given("-1")
    /\ at[r] = "precreate" => Given("-1")
    /\ at[r] \in {"start", "position", "begin", "precreate"} => global_iteration[r] = 0
    /\ at[r] = "reduce" /\ phase[r] = "precreate" => Given("-1") /\ global_iteration[r] = 0
    /\ at[r] = "next" => global_iteration[r] <= Iterations
    /\ InBenchmark(r) \/ Ahead(r) => global_iteration[r] \in 1..Iterations
    /\ at[r] \in {"cleanup", "rmdir"} \/ (at[r] = "reduce" /\ phase[r] = "cleanup")
         => Given("-3") /\ global_iteration[r] = Iterations
    /\ at[r] = "store" => ~Given("-3")
    /\ at[r] \in {"store", "finished"} => global_iteration[r] = Iterations

InRound(r) == at[r] \in {"stat", "read", "remove", "create", "write"}

\* The loop counters of r.
Counters(r) ==
    /\ IF InRound(r) \/ at[r] = "cleanup" THEN d[r] < plan.dset_count ELSE d[r] = 0
    /\ InBenchmark(r) =>
          /\ total_num[r] \in 1..plan.num
          /\ armed_stone_wall[r] => plan.stonewall
          /\ armed_stone_wall[r] \/ ~plan.stonewall => total_num[r] = plan.num
          /\ IF at[r] \in {"roundsDone", "agreed"} THEN f[r] = total_num[r]
             ELSE f[r] < total_num[r]
          /\ at[r] = "wearout" => plan.stonewall /\ ~armed_stone_wall[r]
          /\ at[r] \in {"remove", "create", "write"} => ~Given("--read-only")
          /\ ~plan.stonewall => stonewall_iterations[r] = 0
    /\ at[r] = "reduce" => (stonewall_iterations[r] # 0 <=> plan.stonewall /\ Ahead(r))
    /\ at[r] = "cleanup" => stonewall_iterations[r] = 0

\* What r called last.
LastOp(r) ==
    /\ at[r] \in {"precreate", "reduce"} \/ InBenchmark(r)
         => calls[r][Count(r)].op \in {"Barrier", "Allreduce"}
    /\ at[r] = "position" => calls[r][Count(r)].op = "Bcast"
    /\ at[r] = "rmdir" => calls[r][Count(r)].op = "Reduce"

\* The Allreduce of iteration g, and what s passed to it.
VoteNumber(g) == CallsBefore(g - 1) + 2
Vote(s, g) == calls[s][VoteNumber(g)].value

Votes(r) ==
    LET g == global_iteration[r]
    IN plan.stonewall =>
        /\ (InBenchmark(r) /\ Voted(r)) \/ Ahead(r) => Vote(r, g) \in 1..plan.num
        /\ at[r] = "wearout" => Vote(r, g) = f[r] + 1
        /\ at[r] = "agreed" /\ armed_stone_wall[r] => Vote(r, g) = plan.num

\* What holds of r whatever the others do.
Local(r) == /\ Count(r) = Due(r)
            /\ Where(r)
            /\ Counters(r)
            /\ LastOp(r)
            /\ Votes(r)

\* Everybody has called the Allreduce of iteration g, and its result is v.
IsResult(v, g) ==
    /\ \A s \in Ranks : Count(s) >= VoteNumber(g) /\ Vote(s, g) <= v
    /\ \E s \in Ranks : Vote(s, g) = v

\* Every rank does v rounds in iteration g.
Rounds(v, g) == IF plan.stonewall THEN IsResult(v, g) ELSE v = plan.num

\* A rank that knows the result will do so many rounds.
Outvoted ==
    \A r \in Ranks : InBenchmark(r) /\ ~armed_stone_wall[r] /\ at[r] # "wearout"
                       => Rounds(total_num[r], global_iteration[r])

\* The index that r starts its rounds from; in a run without -1, the stored
\* one until r has read it.
Early(r) == ~Given("-1") /\ at[r] \in {"start", "position"}
Position(r) == IF Early(r) THEN status ELSE current_index[r]

\* t is at the end of the iteration that s is in.
Follows(s, t) ==
    /\ Ahead(t)
    /\ InBenchmark(s)
    /\ global_iteration[t] = global_iteration[s]
    /\ \E v \in 1..plan.num :
          /\ Rounds(v, global_iteration[s])
          /\ Position(t) = Position(s) + (IF Given("--read-only") THEN 0 ELSE v)

\* Ranks that have completed equally many iterations start from the same
\* index, and nobody is further than the end of an iteration others are in.
Together ==
    \A r, s \in Ranks : \/ Done(r) = Done(s) /\ Position(r) = Position(s)
                        \/ Follows(r, s)
                        \/ Follows(s, r)

\* Everybody is in the iteration r is in, or at its end.
AllIn(r) == \A s \in Ranks : /\ InBenchmark(s) \/ Ahead(s)
                             /\ global_iteration[s] = global_iteration[r]

Begun(r) == InBenchmark(r) /\ ~(at[r] = "stat" /\ f[r] = 0 /\ d[r] = 0)

BegunTogether == \A r \in Ranks : Begun(r) => AllIn(r)

\* The position in the status file does not change before all have read it.
Stored ==
    /\ \A r \in Ranks : Early(r) /\ Count(0) > 0 => calls[0][1].value = status
    /\ at[0] = "finished" /\ ~Given("-3") => status = current_index[0]
    /\ \A r \in Ranks : Given("-1") /\ Done(r) = 0 => current_index[r] = 0

\* The data sets of q are there from q's precreation until its cleanup.
Created(q) == Given("-1") => at[q] \notin {"start", "begin", "precreate"}
Removed(q) == \/ at[q] = "reduce" /\ phase[q] = "cleanup"
              \/ at[q] = "rmdir"
              \/ at[q] = "finished" /\ Given("-3")
Exists(q, n) == Created(q) /\ ~Removed(q) /\ ~(at[q] = "cleanup" /\ n < d[q])

\* Nobody is past the precreation before all have created their data sets.
Settled(r) == /\ at[r] \notin {"start", "begin", "precreate"}
              /\ ~(at[r] = "reduce" /\ phase[r] = "precreate")

CreatedTogether ==
    Given("-1") /\ (\E r \in Ranks : Settled(r)) => \A s \in Ranks : Created(s)

\* The oldest object that r has left in data set n of another rank, and the
\* first one that it has not put into the set n of a third.
Bottom(r, n) == IF Early(r) THEN status ELSE Taken(r, n)
Top(r, n) == precreate + (IF Early(r) THEN status ELSE Put(r, n))

InWindow(q, n, i) == /\ Exists(q, n)
                     /\ Bottom(WriteRank(q, n), n) <= i
                     /\ i < Top(ReadRank(q, n), n)

\* The objects that are being written.
Unfinished == {New(r) : r \in {s \in Ranks : at[s] = "write"}}

PrefixIs == prefix <=> /\ Given("-1") => at[0] \notin {"start", "begin"}
                       /\ ~(at[0] = "finished" /\ Given("-3"))

Storage ==
    /\ \A q \in Ranks, n \in DSets : <<q, n>> \in dirs <=> Exists(q, n)
    /\ \A q \in Ranks, n \in DSets : \A i \in Nat : <<q, n, i>> \in objects <=> InWindow(q, n, i)
    /\ complete = objects \ Unfinished
    /\ PrefixIs

Inv == /\ TypeInv
       /\ \A r \in Ranks : Local(r)
       /\ Outvoted
       /\ Together
       /\ BegunTogether
       /\ CreatedTogether
       /\ Stored
       /\ Storage

----------------------------------------------------------------------------
(* The numbers of a run.                                                   *)

\* What a plan is.
LEMMA PlanIs ==
    ASSUME TypeInv
    PROVE  /\ plan.dset_count \in Nat \ {0}
           /\ plan.num \in Nat \ {0} /\ plan.num <= precreate
           /\ plan.iterations \in Nat \ {0}
           /\ plan.stonewall \in BOOLEAN /\ plan.wearOut \in BOOLEAN
           /\ plan.runs \in Seq(SUBSET {"-1", "-2", "-3", "--read-only"})
           /\ Iterations \in Nat
           /\ precreate \in Nat \ {0}
<1>1. plan \in PlanType
  BY WorkbenchAssumption DEF TypeInv
<1>2. plan.num \in 1..precreate
  BY <1>1 DEF PlanType
<1>3. plan.iterations \in Nat \ {0}
  BY <1>1 DEF PlanType
<1> QED
  BY <1>1, <1>2, <1>3, WorkbenchAssumption DEF PlanType, Iterations

\* A plan has a number of runs.
LEMMA RunsAre ==
    ASSUME NEW p \in Plans
    PROVE  Len(p.runs) \in Nat
<1> DEFINE S == SUBSET {"-1", "-2", "-3", "--read-only"}
<1>1. p \in PlanType
  BY WorkbenchAssumption
<1>2. p.runs \in Seq(S)
  BY <1>1 DEF PlanType
<1> HIDE DEF S
<1> QED
  BY <1>2

\* There is at least one data set.
LEMMA DSetsAre ==
    ASSUME TypeInv
    PROVE  /\ 0 \in DSets
           /\ \A n : n \in DSets <=> n \in Nat /\ n < plan.dset_count
BY PlanIs DEF DSets

\* How the number of calls grows with the iterations.
LEMMA CallsGrow ==
    ASSUME TypeInv
    PROVE  /\ Agreement \in {0, 1}
           /\ Agreement = 1 <=> plan.stonewall
           /\ \A g \in Nat : CallsBefore(g) \in Nat
           /\ CallsBefore(0) = IF Given("-1") THEN 3 ELSE 1
           /\ \A g \in Nat : CallsBefore(g + 1) = CallsBefore(g) + 3 + Agreement + Agreement
           /\ \A g, h \in Nat : g < h => CallsBefore(g) + 3 + Agreement + Agreement <= CallsBefore(h)
<1>1. CASE plan.stonewall
  BY <1>1 DEF Agreement, CallsBefore
<1>2. CASE ~plan.stonewall
  BY <1>2 DEF Agreement, CallsBefore
<1> QED
  BY <1>1, <1>2

\* Where a rank is determines which iterations it has completed.
LEMMA DoneIs ==
    ASSUME TypeInv, NEW r \in Ranks, Local(r)
    PROVE  /\ Done(r) \in Nat
           /\ Count(r) \in Nat
           /\ InBenchmark(r) => /\ global_iteration[r] = Done(r) + 1
                                /\ Done(r) + 1 <= Iterations
           /\ ~InBenchmark(r) => global_iteration[r] = Done(r)
           /\ Done(r) <= Iterations
           /\ Ahead(r) => Done(r) > 0 /\ ~InBenchmark(r)
<1>1. global_iteration[r] \in Nat /\ at[r] \in Places /\ phase[r] \in {"precreate", "benchmark", "cleanup"}
  BY DEF TypeInv
<1>2. Iterations \in Nat
  BY PlanIs
<1>3. Count(r) \in Nat
  BY CountIsNat DEF TypeInv
<1>4. Where(r)
  BY DEF Local
<1>5. CASE InBenchmark(r)
  BY <1>1, <1>2, <1>3, <1>4, <1>5 DEF Where, Done, InBenchmark, Ahead
<1>6. CASE ~InBenchmark(r)
  BY <1>1, <1>2, <1>3, <1>4, <1>6 DEF Where, Done, InBenchmark, Ahead, Places
<1> QED
  BY <1>5, <1>6

\* A rank that is between two iterations has made all the calls of those it
\* has completed; one in an iteration has made one or two more.
LEMMA CountRange ==
    ASSUME TypeInv, NEW r \in Ranks, Local(r)
    PROVE  /\ Count(r) <= CallsBefore(Done(r)) + 2
           /\ ~InBenchmark(r) /\ Done(r) < Iterations => Count(r) <= CallsBefore(Done(r))
           /\ InBenchmark(r) => /\ Count(r) <= CallsBefore(Done(r)) + 1 + Agreement
                                /\ Count(r) >= CallsBefore(Done(r)) + 1
           /\ Ahead(r) => Count(r) = CallsBefore(Done(r)) - 1 - Agreement
           /\ ~InBenchmark(r) /\ ~Ahead(r) /\ at[r] \notin {"start", "begin", "precreate"}
                 /\ ~(at[r] = "reduce" /\ phase[r] = "precreate")
                => Count(r) >= CallsBefore(Done(r))
<1> DEFINE b == CallsBefore(Done(r))
<1>1. b \in Nat /\ b > 0 /\ (Given("-1") => b >= 3)
  <2>1. Done(r) \in Nat
    BY DoneIs
  <2>2. b \in Nat /\ b >= CallsBefore(0)
    <3>1. CASE Done(r) = 0
      BY <3>1, CallsGrow
    <3>2. CASE Done(r) > 0
      <4>1. Agreement \in {0, 1} /\ CallsBefore(0) \in Nat /\ b \in Nat
        BY <2>1, CallsGrow
      <4>2. CallsBefore(0) + 3 + Agreement + Agreement <= b
        BY <2>1, <3>2, CallsGrow
      <4> HIDE DEF b
      <4> QED
        BY <4>1, <4>2
    <3>3. Done(r) = 0 \/ Done(r) > 0
      BY <2>1
    <3> QED
      BY <3>1, <3>2, <3>3
  <2>3. CallsBefore(0) = IF Given("-1") THEN 3 ELSE 1
    BY CallsGrow
  <2> HIDE DEF b
  <2> QED
    BY <2>2, <2>3
<1>2. /\ Agreement \in {0, 1} /\ (Agreement = 1 <=> plan.stonewall)
  BY CallsGrow
<1>3. Count(r) = Due(r) /\ Where(r) /\ Counters(r)
  BY DEF Local
<1>4. at[r] \in Places /\ phase[r] \in {"precreate", "benchmark", "cleanup"}
  BY DEF TypeInv
<1>5. Done(r) = Iterations \/ ~(at[r] = "reduce" /\ phase[r] = "cleanup")
  BY <1>3 DEF Where, Done, InBenchmark
<1>6. at[r] \in {"rmdir", "finished"} => Done(r) = Iterations
  BY <1>3 DEF Where, Done, InBenchmark
<1>7. Voted(r) => plan.stonewall
  BY DEF Voted
<1>8. at[r] = "precreate" \/ (at[r] = "reduce" /\ phase[r] = "precreate") => Given("-1")
  BY <1>3 DEF Where
<1> HIDE DEF b
<1>9. Count(r) = IF at[r] = "start" \/ (at[r] = "begin" /\ Given("-1")) THEN 0
                 ELSE IF at[r] = "precreate" THEN 1
                 ELSE IF InBenchmark(r) THEN b + 1 + (IF Voted(r) THEN 1 ELSE 0)
                 ELSE IF at[r] = "reduce"
                      THEN IF phase[r] = "precreate" THEN 2
                           ELSE IF phase[r] = "benchmark" THEN b - 1 - Agreement ELSE b + 1
                 ELSE IF at[r] = "rmdir" \/ (at[r] = "finished" /\ Given("-3")) THEN b + 2 ELSE b
  BY <1>3 DEF Due, b
<1>10. CASE InBenchmark(r)
  <2>1. Count(r) = b + 1 + (IF Voted(r) THEN 1 ELSE 0)
    BY <1>9, <1>10 DEF InBenchmark
  <2> QED
    BY <1>1, <1>2, <1>7, <1>10, <2>1 DEF InBenchmark, Ahead, b
<1>11. CASE ~InBenchmark(r) /\ at[r] = "reduce"
  <2>1. Count(r) = IF phase[r] = "precreate" THEN 2
                   ELSE IF phase[r] = "benchmark" THEN b - 1 - Agreement ELSE b + 1
    BY <1>9, <1>11
  <2>2. phase[r] = "cleanup" => Done(r) = Iterations
    BY <1>5, <1>11
  <2>3. Done(r) < Iterations => phase[r] # "cleanup"
    BY <2>2, DoneIs, PlanIs
  <2> QED
    BY <1>1, <1>2, <1>4, <1>8, <1>11, <2>1, <2>3 DEF Ahead, b
<1>12. CASE ~InBenchmark(r) /\ at[r] # "reduce"
  <2>1. Done(r) < Iterations => at[r] \notin {"rmdir", "finished"}
    BY <1>6, DoneIs, PlanIs
  <2>2. Count(r) = IF at[r] = "start" \/ (at[r] = "begin" /\ Given("-1")) THEN 0
                   ELSE IF at[r] = "precreate" THEN 1
                   ELSE IF at[r] = "rmdir" \/ (at[r] = "finished" /\ Given("-3")) THEN b + 2 ELSE b
    BY <1>9, <1>12
  <2> QED
    BY <1>1, <1>12, <2>1, <2>2 DEF Ahead, b
<1> QED
  BY <1>10, <1>11, <1>12
----------------------------------------------------------------------------
(* What a barrier tells.                                                   *)

\* Who works in an iteration works in it with all the others.
LEMMA AllAreIn ==
    ASSUME TypeInv, \A s \in Ranks : Local(s), Together,
           NEW r \in Ranks, InBenchmark(r), Ready(r)
    PROVE  AllIn(r)
<1>1. Local(r)
  OBVIOUS
<1>2. Count(r) >= CallsBefore(Done(r)) + 1 /\ CallsBefore(Done(r)) \in Nat /\ Count(r) \in Nat
      /\ Done(r) < Iterations /\ ~Ahead(r) /\ global_iteration[r] = Done(r) + 1 /\ Done(r) \in Nat
  <2>1. /\ Done(r) \in Nat /\ Count(r) \in Nat /\ global_iteration[r] = Done(r) + 1
        /\ Done(r) + 1 <= Iterations /\ ~Ahead(r)
    BY <1>1, DoneIs
  <2>2. Count(r) >= CallsBefore(Done(r)) + 1
    BY <1>1, CountRange
  <2>3. CallsBefore(Done(r)) \in Nat /\ Iterations \in Nat
    BY <2>1, CallsGrow, PlanIs
  <2> QED
    BY <2>1, <2>2, <2>3
<1>3. calls[r][Count(r)].op \in Synchronizing
  BY <1>1 DEF Local, LastOp, Synchronizing
<1>4. \A s \in Ranks : Count(s) >= Count(r)
  BY <1>2, <1>3, ReadyMeans
<1> SUFFICES ASSUME NEW s \in Ranks
             PROVE  /\ InBenchmark(s) \/ Ahead(s)
                    /\ global_iteration[s] = global_iteration[r]
  BY DEF AllIn
<1>5. CASE Done(r) = Done(s)
  <2>1. Local(s) /\ Count(s) >= Count(r)
    BY <1>4
  <2>2. InBenchmark(s)
    BY <1>2, <1>5, <2>1, CountRange, DoneIs
  <2>3. global_iteration[s] = Done(s) + 1
    BY <2>1, <2>2, DoneIs
  <2> QED
    BY <1>2, <1>5, <2>2, <2>3
<1>6. CASE Follows(r, s)
  BY <1>6 DEF Follows
<1>7. CASE Follows(s, r)
  BY <1>2, <1>7 DEF Follows
<1> QED
  BY <1>5, <1>6, <1>7 DEF Together

\* Who passes the barrier at the end of an iteration leaves nobody in it.
LEMMA NobodyInside ==
    ASSUME TypeInv, \A s \in Ranks : Local(s), Together,
           NEW r \in Ranks, Ahead(r), Ready(r)
    PROVE  \A s \in Ranks : Done(s) = Done(r) /\ Position(s) = Position(r)
<1>1. Local(r)
  OBVIOUS
<1>2. /\ Done(r) \in Nat /\ Done(r) > 0 /\ Count(r) = CallsBefore(Done(r)) - 1 - Agreement
      /\ ~InBenchmark(r) /\ Count(r) \in Nat
  BY <1>1, CountRange, DoneIs
<1>3. /\ Agreement \in {0, 1} /\ CallsBefore(Done(r) - 1) \in Nat /\ CallsBefore(Done(r)) \in Nat
      /\ CallsBefore(Done(r) - 1) + 3 + Agreement + Agreement <= CallsBefore(Done(r))
  <2>1. Done(r) - 1 \in Nat /\ Done(r) - 1 < Done(r) /\ Done(r) \in Nat
    BY <1>2
  <2> QED
    BY <2>1, CallsGrow
<1>4. Count(r) > 0
  BY <1>2, <1>3
<1>5. calls[r][Count(r)].op \in Synchronizing
  BY <1>1 DEF Local, LastOp, Synchronizing, Ahead
<1>6. \A s \in Ranks : Count(s) >= Count(r)
  BY <1>4, <1>5, ReadyMeans
<1> SUFFICES ASSUME NEW s \in Ranks, Follows(s, r)
             PROVE  FALSE
  BY <1>2 DEF Together, Follows
<1>7. InBenchmark(s) /\ global_iteration[s] = global_iteration[r] /\ Local(s)
  BY DEF Follows
<1>8. Done(s) = Done(r) - 1
  BY <1>1, <1>2, <1>7, DoneIs
<1>9. Count(s) <= CallsBefore(Done(s)) + 1 + Agreement /\ Count(s) \in Nat
  BY <1>7, CountRange, DoneIs
<1>10. Count(s) >= Count(r)
  BY <1>6
<1> QED
  BY <1>2, <1>3, <1>8, <1>9, <1>10

\* There is one result only.
LEMMA OneResult ==
    ASSUME TypeInv, NEW v \in Nat, NEW w \in Nat, NEW g, Rounds(v, g), Rounds(w, g)
    PROVE  v = w
<1>1. CASE plan.stonewall
  <2>1. IsResult(v, g) /\ IsResult(w, g)
    BY <1>1 DEF Rounds
  <2>2. PICK s \in Ranks : Vote(s, g) = v
    BY <2>1 DEF IsResult
  <2>3. PICK t \in Ranks : Vote(t, g) = w
    BY <2>1 DEF IsResult
  <2>4. v <= w /\ w <= v
    BY <2>1, <2>2, <2>3 DEF IsResult
  <2> QED
    BY <2>4
<1>2. CASE ~plan.stonewall
  BY <1>2 DEF Rounds
<1> QED
  BY <1>1, <1>2

----------------------------------------------------------------------------
(* A step of one rank.                                                     *)

\* What r has is as it was.
Same(r) ==
    /\ at'[r] = at[r] /\ phase'[r] = phase[r] /\ calls'[r] = calls[r]
    /\ global_iteration'[r] = global_iteration[r] /\ current_index'[r] = current_index[r]
    /\ f'[r] = f[r] /\ d'[r] = d[r] /\ total_num'[r] = total_num[r]
    /\ armed_stone_wall'[r] = armed_stone_wall[r]
    /\ stonewall_iterations'[r] = stonewall_iterations[r]

\* Nobody but r goes on, and it forgets no call.
Alone(r) ==
    /\ plan' = plan /\ run' = run
    /\ \A s \in Ranks \ {r} : Same(s)
    /\ Count(r)' \in Nat /\ Count(r)' >= Count(r)
    /\ \A k \in 1..Count(r) : calls'[r][k] = calls[r][k]

\* The options are those of the run.
LEMMA SameRun ==
    ASSUME plan' = plan, run' = run
    PROVE  /\ \A o : Given(o)' = Given(o)
           /\ \A g : CallsBefore(g)' = CallsBefore(g)
           /\ \A g : VoteNumber(g)' = VoteNumber(g)
           /\ Iterations' = Iterations
           /\ Agreement' = Agreement
           /\ DSets' = DSets
           /\ Careful' = Careful
BY DEF Given, CallsBefore, VoteNumber, Iterations, Agreement, DSets, Careful

\* So are the places of the ranks that do nothing.
LEMMA SamePlace ==
    ASSUME plan' = plan, run' = run, NEW s, Same(s)
    PROVE  /\ Done(s)' = Done(s)
           /\ InBenchmark(s)' = InBenchmark(s)
           /\ Ahead(s)' = Ahead(s)
           /\ Early(s)' = Early(s)
           /\ Count(s)' = Count(s)
           /\ Begun(s)' = Begun(s)
           /\ Voted(s)' = Voted(s)
BY DEF Same, Done, InBenchmark, Ahead, Early, Given, Count, Begun, Voted

\* What holds of them goes on to hold.
LEMMA LocalOfOthers ==
    ASSUME NEW r \in Ranks, Alone(r), NEW s \in Ranks \ {r}, Local(s)
    PROVE  Local(s)'
<1>1. plan' = plan /\ run' = run /\ Same(s)
  BY DEF Alone
<1>2. /\ Done(s)' = Done(s) /\ InBenchmark(s)' = InBenchmark(s) /\ Ahead(s)' = Ahead(s)
      /\ Count(s)' = Count(s) /\ Voted(s)' = Voted(s)
  BY <1>1, SamePlace
<1>3. /\ \A o : Given(o)' = Given(o)
      /\ \A g : CallsBefore(g)' = CallsBefore(g)
      /\ \A g : VoteNumber(g)' = VoteNumber(g)
      /\ Iterations' = Iterations
      /\ Agreement' = Agreement
      /\ DSets' = DSets
  BY <1>1, SameRun
<1>4. Due(s)' = Due(s)
  BY <1>1, <1>2, <1>3 DEF Due, Same
<1>5. Where(s)'
  BY <1>1, <1>2, <1>3 DEF Local, Where, Same
<1>6. Counters(s)'
  BY <1>1, <1>2, <1>3 DEF Local, Counters, InRound, Same
<1>7. LastOp(s)'
  BY <1>1, <1>2, <1>3 DEF Local, LastOp, Same
<1>8. Votes(s)'
  BY <1>1, <1>2, <1>3 DEF Local, Votes, Vote, Same
<1> QED
  BY <1>2, <1>4, <1>5, <1>6, <1>7, <1>8 DEF Local

\* No call is forgotten.
LEMMA CallsKept ==
    ASSUME TypeInv, NEW r \in Ranks, Alone(r)
    PROVE  \A s \in Ranks : /\ Count(s) \in Nat /\ Count(s)' \in Nat /\ Count(s)' >= Count(s)
                            /\ \A k \in 1..Count(s) : calls'[s][k] = calls[s][k]
<1>1. \A s \in Ranks : Count(s) \in Nat
  BY CountIsNat DEF TypeInv
<1> SUFFICES ASSUME NEW s \in Ranks
             PROVE  Count(s)' \in Nat /\ Count(s)' >= Count(s) /\ \A k \in 1..Count(s) : calls'[s][k] = calls[s][k]
  BY <1>1
<1>2. CASE s = r
  BY <1>2 DEF Alone
<1>3. CASE s # r
  <2>1. calls'[s] = calls[s]
    BY <1>3 DEF Alone, Same
  <2> QED
    BY <1>1, <2>1 DEF Count
<1> QED
  BY <1>2, <1>3

\* A result stays the result.
LEMMA RoundsStay ==
    ASSUME TypeInv, NEW r \in Ranks, Alone(r), NEW v \in Nat, NEW g \in Nat \ {0}, Rounds(v, g)
    PROVE  Rounds(v, g)'
<1>1. plan' = plan /\ run' = run
  BY DEF Alone
<1>2. VoteNumber(g)' = VoteNumber(g)
  BY <1>1, SameRun
<1>3. CASE plan.stonewall
  <2>1. IsResult(v, g)
    BY <1>3 DEF Rounds
  <2>2. VoteNumber(g) \in Nat \ {0}
    <3>1. g - 1 \in Nat
      OBVIOUS
    <3>2. CallsBefore(g - 1) \in Nat
      BY <3>1, CallsGrow
    <3> QED
      BY <3>2 DEF VoteNumber
  <2>3. ASSUME NEW s \in Ranks
        PROVE  Count(s)' >= VoteNumber(g)' /\ Vote(s, g)' = Vote(s, g)
    <3>1. /\ Count(s) \in Nat /\ Count(s) >= VoteNumber(g) /\ Count(s)' >= Count(s)
          /\ \A k \in 1..Count(s) : calls'[s][k] = calls[s][k]
      BY <2>1, CallsKept DEF IsResult
    <3>2. Count(s)' \in Nat
      BY CallsKept
    <3>3. VoteNumber(g) \in 1..Count(s)
      BY <2>2, <3>1
    <3>4. calls'[s][VoteNumber(g)] = calls[s][VoteNumber(g)]
      BY <3>1, <3>3
    <3> QED
      BY <1>2, <2>2, <3>1, <3>2, <3>4 DEF Vote
  <2>4. IsResult(v, g)'
    BY <2>1, <2>3 DEF IsResult
  <2> QED
    BY <1>1, <1>3, <2>4 DEF Rounds
<1>4. CASE ~plan.stonewall
  BY <1>1, <1>4 DEF Rounds
<1> QED
  BY <1>3, <1>4

\* Who knew the result still knows it.
LEMMA OutvotedStays ==
    ASSUME TypeInv, \A s \in Ranks : Local(s), Outvoted, NEW r \in Ranks, Alone(r),
           (InBenchmark(r) /\ ~armed_stone_wall[r] /\ at[r] # "wearout")'
              => Rounds(total_num[r], global_iteration[r])'
    PROVE  Outvoted'
<1> SUFFICES ASSUME NEW s \in Ranks \ {r}, InBenchmark(s)', ~armed_stone_wall'[s], at'[s] # "wearout"
             PROVE  Rounds(total_num[s], global_iteration[s])'
  BY DEF Outvoted
<1>1. plan' = plan /\ run' = run /\ Same(s)
  BY DEF Alone
<1>2. InBenchmark(s) /\ ~armed_stone_wall[s] /\ at[s] # "wearout"
  BY <1>1, SamePlace DEF Same
<1>3. Rounds(total_num[s], global_iteration[s])
  BY <1>2 DEF Outvoted
<1>4. PICK v \in Nat, g \in Nat \ {0} : v = total_num[s] /\ g = global_iteration[s]
  <2>1. total_num[s] \in Nat /\ global_iteration[s] = Done(s) + 1 /\ Done(s) \in Nat
    BY <1>2, DoneIs DEF TypeInv
  <2> QED
    BY <2>1
<1>5. Rounds(v, g)'
  BY <1>3, <1>4, RoundsStay
<1>6. v = total_num'[s] /\ g = global_iteration'[s]
  BY <1>1, <1>4 DEF Same
<1> QED
  BY <1>5, <1>6

\* The ranks stay together when none of them changes its index or completes
\* an iteration.
LEMMA TogetherStays ==
    ASSUME TypeInv, \A s \in Ranks : Local(s), Together, NEW r \in Ranks, Alone(r),
           \A s \in Ranks : Position(s)' = Position(s),
           Done(r)' = Done(r), Ahead(r) => Ahead(r)', InBenchmark(r) => InBenchmark(r)',
           InBenchmark(r) \/ Ahead(r) => global_iteration'[r] = global_iteration[r]
    PROVE  Together'
<1>1. plan' = plan /\ run' = run
  BY DEF Alone
<1>2. ASSUME NEW s \in Ranks
      PROVE  /\ Done(s)' = Done(s) /\ (Ahead(s) => Ahead(s)') /\ (InBenchmark(s) => InBenchmark(s)')
             /\ InBenchmark(s) \/ Ahead(s) => global_iteration'[s] = global_iteration[s]
  <2>1. CASE s = r
    BY <2>1
  <2>2. CASE s # r
    <3>1. Same(s)
      BY <2>2 DEF Alone
    <3> QED
      BY <1>1, <3>1, SamePlace DEF Same
  <2> QED
    BY <2>1, <2>2
<1>3. ASSUME NEW s \in Ranks, NEW t \in Ranks, Follows(s, t)
      PROVE  Follows(s, t)'
  <2>1. /\ Ahead(t) /\ InBenchmark(s) /\ global_iteration[t] = global_iteration[s]
    BY <1>3 DEF Follows
  <2>2. /\ Ahead(t)' /\ InBenchmark(s)' /\ global_iteration'[t] = global_iteration'[s]
        /\ global_iteration'[s] = global_iteration[s]
    BY <1>2, <2>1
  <2>3. PICK v \in 1..plan.num :
               /\ Rounds(v, global_iteration[s])
               /\ Position(t) = Position(s) + (IF Given("--read-only") THEN 0 ELSE v)
    BY <1>3 DEF Follows
  <2>4. PICK g \in Nat \ {0} : g = global_iteration[s]
    <3>1. global_iteration[s] = Done(s) + 1 /\ Done(s) \in Nat
      BY <2>1, DoneIs
    <3> QED
      BY <3>1
  <2>5. v \in Nat
    BY <2>3, PlanIs
  <2>6. Rounds(v, g)'
    BY <2>3, <2>4, <2>5, RoundsStay
  <2>7. g = global_iteration'[s]
    BY <2>2, <2>4
  <2>8. Rounds(v, global_iteration[s])'
    BY <2>6, <2>7
  <2>9. Position(t)' = Position(s)' + (IF Given("--read-only")' THEN 0 ELSE v)
    BY <1>1, <2>3, SameRun
  <2>10. v \in 1..plan'.num
    BY <1>1, <2>3
  <2> QED
    BY <2>2, <2>8, <2>9, <2>10 DEF Follows
<1> SUFFICES ASSUME NEW s \in Ranks, NEW t \in Ranks
             PROVE  \/ Done(s)' = Done(t)' /\ Position(s)' = Position(t)'
                    \/ Follows(s, t)'
                    \/ Follows(t, s)'
  BY DEF Together
<1>4. \/ Done(s) = Done(t) /\ Position(s) = Position(t)
      \/ Follows(s, t)
      \/ Follows(t, s)
  BY DEF Together
<1> QED
  BY <1>2, <1>3, <1>4

\* Nobody has begun the iteration's rounds, and r does not either.
LEMMA NobodyBegins ==
    ASSUME NEW r \in Ranks, Alone(r), \A s \in Ranks : ~Begun(s), ~Begun(r)'
    PROVE  BegunTogether'
<1> SUFFICES ASSUME NEW s \in Ranks, Begun(s)'
             PROVE  FALSE
  BY DEF BegunTogether
<1>1. CASE s = r
  BY <1>1
<1>2. CASE s # r
  <2>1. plan' = plan /\ run' = run /\ Same(s)
    BY <1>2 DEF Alone
  <2> QED
    BY <2>1, SamePlace
<1> QED
  BY <1>1, <1>2

\* Somebody who is between the iterations has nobody begin the rounds of one.
LEMMA NobodyHasBegun ==
    ASSUME BegunTogether, NEW r \in Ranks, ~InBenchmark(r), ~Ahead(r)
    PROVE  \A s \in Ranks : ~Begun(s)
BY DEF BegunTogether, AllIn

\* Everybody is in the iteration of r, and r stays in it.
LEMMA AllStayIn ==
    ASSUME NEW r \in Ranks, Alone(r), AllIn(r), InBenchmark(r)' \/ Ahead(r)',
           global_iteration'[r] = global_iteration[r]
    PROVE  BegunTogether'
<1>1. ASSUME NEW s \in Ranks
      PROVE  /\ InBenchmark(s)' \/ Ahead(s)'
             /\ global_iteration'[s] = global_iteration[r]
  <2>1. CASE s = r
    BY <2>1
  <2>2. CASE s # r
    <3>1. plan' = plan /\ run' = run /\ Same(s)
      BY <2>2 DEF Alone
    <3>2. InBenchmark(s)' = InBenchmark(s) /\ Ahead(s)' = Ahead(s)
      BY <3>1, SamePlace
    <3> QED
      BY <3>1, <3>2 DEF AllIn, Same
  <2> QED
    BY <2>1, <2>2
<1> QED
  BY <1>1 DEF BegunTogether, AllIn

\* The status file stays as it is.
LEMMA StoredStays ==
    ASSUME TypeInv, Stored, NEW r \in Ranks, Alone(r), status' = status,
           ~Given("-1") /\ Count(0) = 0 /\ Count(0)' > 0 => calls'[0][1].value = status,
           Early(r)' => Early(r),
           r = 0 => at'[0] # "finished" \/ Given("-3"),
           Given("-1") /\ Done(r)' = 0 => current_index'[r] = 0
    PROVE  Stored'
<1>1. plan' = plan /\ run' = run
  BY DEF Alone
<1>2. 0 \in Ranks
  BY MpiAssumption DEF Ranks
<1>3. ASSUME NEW s \in Ranks, Early(s)', Count(0)' > 0
      PROVE  calls'[0][1].value = status'
  <2>1. Early(s) /\ ~Given("-1")
    <3>1. CASE s = r
      BY <1>3, <3>1 DEF Early
    <3>2. CASE s # r
      <4>1. Same(s)
        BY <3>2 DEF Alone
      <4> QED
        BY <1>1, <1>3, <4>1, SamePlace DEF Early
    <3> QED
      BY <3>1, <3>2
  <2>2. CASE Count(0) = 0
    BY <1>3, <2>1, <2>2
  <2>3. CASE Count(0) # 0
    <3>1. Count(0) \in Nat /\ \A k \in 1..Count(0) : calls'[0][k] = calls[0][k]
      BY <1>2, CallsKept
    <3>2. 1 \in 1..Count(0) /\ Count(0) > 0
      BY <2>3, <3>1
    <3>3. calls'[0][1] = calls[0][1]
      BY <3>1, <3>2
    <3> QED
      BY <2>1, <3>2, <3>3 DEF Stored
  <2> QED
    BY <2>2, <2>3
<1>4. ASSUME at'[0] = "finished", ~Given("-3")'
      PROVE  status' = current_index'[0]
  <2>1. ~Given("-3")
    BY <1>1, <1>4, SameRun
  <2>2. r # 0
    BY <1>4, <2>1
  <2>3. Same(0)
    BY <1>2, <2>2 DEF Alone
  <2> QED
    BY <1>4, <2>1, <2>3 DEF Stored, Same
<1>5. ASSUME NEW s \in Ranks, Given("-1")', Done(s)' = 0
      PROVE  current_index'[s] = 0
  <2>1. Given("-1")
    BY <1>1, <1>5, SameRun
  <2>2. CASE s = r
    BY <1>5, <2>1, <2>2
  <2>3. CASE s # r
    <3>1. Same(s)
      BY <2>3 DEF Alone
    <3>2. Done(s)' = Done(s)
      BY <1>1, <3>1, SamePlace
    <3> QED
      BY <1>5, <2>1, <3>1, <3>2 DEF Stored, Same
  <2> QED
    BY <2>2, <2>3
<1> QED
  BY <1>3, <1>4, <1>5 DEF Stored

----------------------------------------------------------------------------
(* Readers and writers of the data sets.                                   *)

\* Quotient and remainder of any number.
LEMMA Remainder ==
    ASSUME NEW n \in Int
    PROVE  n % N \in 0..(N - 1) /\ n \div N \in Int /\ n = N * (n \div N) + (n % N)
BY MpiAssumption

\* Adding and subtracting the same number goes round and comes back.
LEMMA ThereAndBack ==
    ASSUME NEW k \in Nat, NEW r \in Ranks
    PROVE  /\ (r + k) % N \in Ranks /\ (r - k) % N \in Ranks
           /\ (((r + k) % N) - k) % N = r
           /\ (((r - k) % N) + k) % N = r
<1>1. r \in 0..(N - 1) /\ N \in Nat \ {0}
  BY MpiAssumption DEF Ranks
<1>2. ASSUME NEW m \in Int
      PROVE  /\ (r + m) % N \in 0..(N - 1)
             /\ (((r + m) % N) - m) % N = r
  <2> DEFINE a == (r + m) % N
             q == (r + m) \div N
             b == (a - m) % N
             p == (a - m) \div N
  <2>1. a \in 0..(N - 1) /\ q \in Int /\ r + m = N * q + a
    BY <1>1, Remainder
  <2>2. b \in 0..(N - 1) /\ p \in Int /\ a - m = N * p + b
    <3>1. a - m \in Int
      BY <2>1
    <3> QED
      BY <3>1, Remainder
  <2> HIDE DEF a, q, b, p
  <2>3. N * p + b = N * (-q) + r
    <3>1. N * (-q) = -(N * q)
      BY <1>1, <2>1
    <3>2. N * q \in Int /\ N * p \in Int
      BY <1>1, <2>1, <2>2
    <3> QED
      BY <1>1, <2>1, <2>2, <3>1, <3>2
  <2>4. -q \in Int
    BY <2>1
  <2>5. b = r
    BY <1>1, <2>2, <2>3, <2>4, DivModUnique
  <2> QED
    BY <2>1, <2>5 DEF a, b
<1>3. -k \in Int /\ k \in Int /\ r + (-k) = r - k
  BY <1>1
<1>4. /\ (r + k) % N \in 0..(N - 1) /\ (((r + k) % N) - k) % N = r
  BY <1>2, <1>3
<1>5. /\ (r + (-k)) % N \in 0..(N - 1) /\ (((r + (-k)) % N) - (-k)) % N = r
  BY <1>2, <1>3
<1>6. ((r - k) % N) - (-k) = ((r - k) % N) + k
  BY <1>3, <1>5
<1> QED
  BY <1>3, <1>4, <1>5, <1>6 DEF Ranks

\* Each data set has one reader and one writer, and each rank reads from one
\* and writes to one of its number.
LEMMA OneReaderOneWriter ==
    ASSUME TypeInv, NEW n \in DSets, NEW r \in Ranks
    PROVE  /\ ReadRank(r, n) \in Ranks /\ WriteRank(r, n) \in Ranks
           /\ WriteRank(ReadRank(r, n), n) = r
           /\ ReadRank(WriteRank(r, n), n) = r
<1>1. n \in Nat
  BY DSetsAre
<1>2. Offset * (n + 1) \in Nat
  BY <1>1, WorkbenchAssumption
<1> QED
  BY <1>2, ThereAndBack DEF ReadRank, WriteRank

----------------------------------------------------------------------------
(* The window of a data set.                                               *)

\* Its ends are numbers; in the rounds they are at most one round's object,
\* and no more than -I objects, from the index.
LEMMA WindowIs ==
    ASSUME TypeInv, NEW r \in Ranks, Local(r), NEW n \in Nat
    PROVE  /\ Bottom(r, n) \in Nat /\ Top(r, n) \in Nat
           /\ Taken(r, n) >= current_index[r] /\ Put(r, n) >= current_index[r]
           /\ Taken(r, n) <= current_index[r] + plan.num
           /\ Put(r, n) <= current_index[r] + plan.num
           /\ Taken(r, n) \in Nat /\ Put(r, n) \in Nat
<1>1. /\ current_index[r] \in Nat /\ f[r] \in Nat /\ total_num[r] \in Nat /\ status \in Nat
      /\ plan.num \in Nat /\ precreate \in Nat
  BY PlanIs DEF TypeInv
<1>2. ASSUME NEW places
      PROVE  /\ Progress(r, n, places) \in Nat
             /\ Progress(r, n, places) >= current_index[r]
             /\ Progress(r, n, places) <= current_index[r] + plan.num
  <2>1. RoundPart(r, n, places) \in {0, 1}
    BY DEF RoundPart
  <2>2. at[r] \in {"roundsDone", "agreed"} => RoundPart(r, n, places) = 0
    BY DEF RoundPart
  <2>3. InBenchmark(r) => f[r] + RoundPart(r, n, places) <= plan.num
    <3>1. SUFFICES ASSUME InBenchmark(r)
                   PROVE  f[r] + RoundPart(r, n, places) <= plan.num
      OBVIOUS
    <3>2. /\ total_num[r] \in 1..plan.num
          /\ IF at[r] \in {"roundsDone", "agreed"} THEN f[r] = total_num[r] ELSE f[r] < total_num[r]
      BY <3>1 DEF Local, Counters
    <3> HIDE DEF RoundPart
    <3> QED
      BY <1>1, <2>1, <2>2, <3>2
  <2> HIDE DEF RoundPart
  <2> QED
    BY <1>1, <2>1, <2>3 DEF Progress
<1>3. /\ Taken(r, n) \in Nat /\ Taken(r, n) >= current_index[r]
      /\ Taken(r, n) <= current_index[r] + plan.num
  BY <1>2 DEF Taken
<1>4. /\ Put(r, n) \in Nat /\ Put(r, n) >= current_index[r]
      /\ Put(r, n) <= current_index[r] + plan.num
  BY <1>2 DEF Put
<1> QED
  BY <1>1, <1>3, <1>4 DEF Bottom, Top

\* The others do not move it.
LEMMA SameWindow ==
    ASSUME plan' = plan, run' = run, NEW s, Same(s), Early(s) => status' = status
    PROVE  /\ \A n : Bottom(s, n)' = Bottom(s, n) /\ Top(s, n)' = Top(s, n)
           /\ \A n : Exists(s, n)' = Exists(s, n)
           /\ New(s)' = New(s)
           /\ Position(s)' = Position(s)
<1>1. \A o : Given(o)' = Given(o)
  BY SameRun
<1>2. Early(s)' = Early(s) /\ InBenchmark(s)' = InBenchmark(s)
  BY SamePlace
<1>3. \A n : Taken(s, n)' = Taken(s, n)
  BY <1>1, <1>2 DEF Taken, Progress, RoundPart, Same
<1>4. \A n : Put(s, n)' = Put(s, n)
  BY <1>1, <1>2 DEF Put, Progress, RoundPart, Same
<1>5. \A n : Exists(s, n)' = Exists(s, n)
  BY <1>1 DEF Exists, Created, Removed, Same
<1>6. New(s)' = New(s)
  BY DEF New, WriteRank, Same
<1> QED
  BY <1>2, <1>3, <1>4, <1>5, <1>6 DEF Bottom, Top, Position, Same

\* While somebody works in an iteration, nobody is more than the iteration's
\* rounds from the index it is at.
LEMMA WindowBounds ==
    ASSUME TypeInv, \A s \in Ranks : Local(s), Together, NEW r \in Ranks, AllIn(r), InBenchmark(r),
           NEW s \in Ranks, NEW n \in Nat
    PROVE  /\ Top(s, n) >= precreate + current_index[r]
           /\ Bottom(s, n) <= precreate + current_index[r]
           /\ ~Early(s) /\ Exists(s, n)
<1>1. Local(s) /\ Local(r)
  OBVIOUS
<1>2. (InBenchmark(s) \/ Ahead(s)) /\ global_iteration[s] = global_iteration[r]
  BY DEF AllIn
<1>3. ~Early(s) /\ ~Early(r) /\ Exists(s, n) /\ ~Ahead(r)
  BY <1>2 DEF InBenchmark, Ahead, Early, Exists, Created, Removed
<1>4. Top(s, n) = precreate + Put(s, n) /\ Bottom(s, n) = Taken(s, n)
      /\ Position(s) = current_index[s] /\ Position(r) = current_index[r]
  BY <1>3 DEF Top, Bottom, Position
<1>5. /\ Taken(s, n) >= current_index[s] /\ Put(s, n) >= current_index[s]
      /\ Taken(s, n) <= current_index[s] + plan.num
      /\ Taken(s, n) \in Nat /\ Put(s, n) \in Nat
  BY <1>1, WindowIs
<1>6. plan.num \in Nat /\ plan.num <= precreate /\ precreate \in Nat
      /\ current_index[s] \in Nat /\ current_index[r] \in Nat
  BY PlanIs DEF TypeInv
<1>7. CASE Position(s) = Position(r)
  BY <1>3, <1>4, <1>5, <1>6, <1>7
<1>8. CASE Follows(r, s)
  <2>1. PICK v \in 1..plan.num : Position(s) = Position(r) + (IF Given("--read-only") THEN 0 ELSE v)
    BY <1>8 DEF Follows
  <2>2. ~InBenchmark(s)
    BY <1>8 DEF Follows, Ahead, InBenchmark
  <2>3. Taken(s, n) = current_index[s] /\ Put(s, n) = current_index[s]
    BY <2>2 DEF Taken, Put, Progress
  <2>4. current_index[s] >= current_index[r] /\ current_index[s] <= current_index[r] + plan.num
    BY <1>4, <1>6, <2>1
  <2>5. /\ Top(s, n) >= precreate + current_index[r]
        /\ Bottom(s, n) <= precreate + current_index[r]
    BY <1>4, <1>6, <2>3, <2>4
  <2> QED
    BY <1>3, <2>5
<1>9. CASE Follows(s, r)
  BY <1>3, <1>9 DEF Follows
<1> QED
  BY <1>7, <1>8, <1>9 DEF Together

\* Only rank 0 creates and removes the output directory.
LEMMA PrefixStays ==
    ASSUME NEW r \in Ranks, Alone(r), prefix' = prefix, PrefixIs,
           (Given("-1") => at'[r] \notin {"start", "begin"}) <=> (Given("-1") => at[r] \notin {"start", "begin"}),
           (at'[r] = "finished" /\ Given("-3")) <=> (at[r] = "finished" /\ Given("-3"))
    PROVE  PrefixIs'
<1>1. \A o : Given(o)' = Given(o)
  BY SameRun DEF Alone
<1>2. CASE r = 0
  BY <1>1, <1>2 DEF PrefixIs
<1>3. CASE r # 0
  <2>1. 0 \in Ranks
    BY MpiAssumption DEF Ranks
  <2>2. at'[0] = at[0]
    BY <1>3, <2>1 DEF Alone, Same
  <2> QED
    BY <1>1, <2>2 DEF PrefixIs
<1> QED
  BY <1>2, <1>3

\* The windows do not move, whether their data sets are there or not.
LEMMA WindowsStay ==
    ASSUME TypeInv, NEW r \in Ranks, Alone(r), \A s \in Ranks : Early(s) => status' = status,
           \A n \in DSets : Bottom(r, n)' = Bottom(r, n) /\ Top(r, n)' = Top(r, n)
    PROVE  /\ \A q \in Ranks, n \in DSets, i \in Nat :
                 InWindow(q, n, i)' <=> /\ Exists(q, n)'
                                        /\ Bottom(WriteRank(q, n), n) <= i
                                        /\ i < Top(ReadRank(q, n), n)
           /\ \A q \in Ranks \ {r}, n \in DSets : Exists(q, n)' = Exists(q, n)
<1>1. plan' = plan /\ run' = run
  BY DEF Alone
<1>2. \A s \in Ranks \ {r}, n \in DSets :
         /\ Bottom(s, n)' = Bottom(s, n) /\ Top(s, n)' = Top(s, n)
         /\ Exists(s, n)' = Exists(s, n)
  BY <1>1, SameWindow DEF Alone
<1>3. \A s \in Ranks, n \in DSets : Bottom(s, n)' = Bottom(s, n) /\ Top(s, n)' = Top(s, n)
  BY <1>2
<1>4. ASSUME NEW q \in Ranks, NEW n \in DSets, NEW i \in Nat
      PROVE  InWindow(q, n, i)' <=> /\ Exists(q, n)'
                                    /\ Bottom(WriteRank(q, n), n) <= i
                                    /\ i < Top(ReadRank(q, n), n)
  <2>1. ReadRank(q, n) \in Ranks /\ WriteRank(q, n) \in Ranks
    BY OneReaderOneWriter
  <2>2. PICK a \in Ranks, b \in Ranks : a = ReadRank(q, n) /\ b = WriteRank(q, n)
    BY <2>1
  <2>3. a = ReadRank(q, n)' /\ b = WriteRank(q, n)'
    BY <2>2 DEF ReadRank, WriteRank
  <2>4. Bottom(b, n)' = Bottom(b, n) /\ Top(a, n)' = Top(a, n)
    BY <1>3
  <2> QED
    BY <2>2, <2>3, <2>4 DEF InWindow
<1> QED
  BY <1>2, <1>4

\* Who does not write leaves what is being written.
LEMMA UnfinishedStays ==
    ASSUME NEW r \in Ranks, Alone(r), at[r] # "write", at'[r] # "write"
    PROVE  Unfinished' = Unfinished
<1>1. \A s \in Ranks : at'[s] = "write" <=> at[s] = "write"
  BY DEF Alone, Same
<1>2. \A s \in Ranks : at[s] = "write" => New(s)' = New(s)
  BY DEF Alone, Same, New, WriteRank
<1> QED
  BY <1>1, <1>2 DEF Unfinished

\* A step that touches neither the objects nor the window of the rank.
LEMMA StorageStays ==
    ASSUME TypeInv, Storage, NEW r \in Ranks, Alone(r),
           dirs' = dirs, objects' = objects, complete' = complete, PrefixIs',
           \A s \in Ranks : Early(s) => status' = status,
           \A n \in DSets : /\ Bottom(r, n)' = Bottom(r, n) /\ Top(r, n)' = Top(r, n)
                            /\ Exists(r, n)' = Exists(r, n),
           at[r] # "write", at'[r] # "write"
    PROVE  Storage'
<1>1. DSets' = DSets
  BY SameRun DEF Alone
<1>2. /\ \A q \in Ranks, n \in DSets, i \in Nat :
                 InWindow(q, n, i)' <=> /\ Exists(q, n)'
                                        /\ Bottom(WriteRank(q, n), n) <= i
                                        /\ i < Top(ReadRank(q, n), n)
      /\ \A q \in Ranks, n \in DSets : Exists(q, n)' = Exists(q, n)
  BY WindowsStay
<1>3. \A q \in Ranks, n \in DSets, i \in Nat : InWindow(q, n, i)' <=> InWindow(q, n, i)
  BY <1>2 DEF InWindow
<1>4. \A q \in Ranks, n \in DSets : <<q, n>> \in dirs' <=> Exists(q, n)'
  BY <1>2 DEF Storage
<1>5. \A q \in Ranks, n \in DSets : \A i \in Nat : <<q, n, i>> \in objects' <=> InWindow(q, n, i)'
  <2> SUFFICES ASSUME NEW q \in Ranks, NEW n \in DSets, NEW i \in Nat
               PROVE  <<q, n, i>> \in objects' <=> InWindow(q, n, i)'
    OBVIOUS
  <2>1. <<q, n, i>> \in objects <=> InWindow(q, n, i)
    BY DEF Storage
  <2> QED
    BY <1>3, <2>1
<1>6. complete' = objects' \ Unfinished'
  BY UnfinishedStays DEF Storage
<1> QED
  BY <1>1, <1>4, <1>5, <1>6 DEF Storage

----------------------------------------------------------------------------
(* The steps, one by one.                                                  *)

\* What has to be shown of a step of r.
LEMMA StepKeeps ==
    ASSUME Inv, NEW r \in Ranks, Alone(r), TypeInv', Local(r)', Outvoted', Together',
           BegunTogether', CreatedTogether', Stored', Storage'
    PROVE  Inv'
<1>1. \A s \in Ranks : Local(s)'
  BY LocalOfOthers DEF Inv
<1> QED
  BY <1>1 DEF Inv

\* A call, or none, makes the calls longer by one, or leaves them.
LEMMA Called ==
    ASSUME TypeInv, NEW r \in Ranks, NEW op \in Collectives, NEW value \in Nat,
           Send(r, op, value)
    PROVE  /\ calls' \in CallsIn(Nat)
           /\ Count(r) \in Nat /\ Count(r)' = Count(r) + 1
           /\ Count(r)' \in Nat /\ Count(r)' >= Count(r)
           /\ calls'[r][Count(r)'].op = op /\ calls'[r][Count(r)'].value = value
           /\ \A k \in 1..Count(r) : calls'[r][k] = calls[r][k]
           /\ \A s \in Ranks \ {r} : calls'[s] = calls[s]
<1>1. calls \in CallsIn(Nat)
  BY DEF TypeInv
<1>2. Count(r) \in Nat
  BY <1>1, CountIsNat
<1>3. /\ calls' \in CallsIn(Nat)
      /\ Count(r)' = Count(r) + 1
      /\ calls'[r][Count(r) + 1] = [op |-> op, value |-> value]
      /\ \A k \in 1..Count(r) : calls'[r][k] = calls[r][k]
      /\ \A s \in Ranks \ {r} : calls'[s] = calls[s]
  BY <1>1, SendStep
<1>4. calls'[r][Count(r)'] = [op |-> op, value |-> value]
  BY <1>3
<1> QED
  BY <1>2, <1>3, <1>4

\* No call leaves them as they are.
LEMMA NotCalled ==
    ASSUME TypeInv, NEW r \in Ranks, UNCHANGED calls
    PROVE  /\ calls' \in CallsIn(Nat)
           /\ Count(r) \in Nat /\ Count(r)' = Count(r)
           /\ Count(r)' \in Nat /\ Count(r)' >= Count(r)
           /\ \A s \in Ranks : calls'[s] = calls[s]
<1>1. calls \in CallsIn(Nat)
  BY DEF TypeInv
<1>2. Count(r) \in Nat
  BY <1>1, CountIsNat
<1> QED
  BY <1>1, <1>2 DEF Count


\* Nobody else changes the index it starts from.
LEMMA PositionsStay ==
    ASSUME NEW r \in Ranks, Alone(r), Position(r)' = Position(r),
           \A s \in Ranks : Early(s) => status' = status
    PROVE  \A s \in Ranks : Position(s)' = Position(s)
<1> SUFFICES ASSUME NEW s \in Ranks \ {r}
             PROVE  Position(s)' = Position(s)
  OBVIOUS
<1> QED
  BY SameWindow DEF Alone

\* Who has created its data sets has done so.
LEMMA CreatedStays ==
    ASSUME CreatedTogether, NEW r \in Ranks, Alone(r),
           Given("-1") => /\ Created(r) => Created(r)'
                          /\ Settled(r)' => Settled(r) \/ \A s \in Ranks : Created(s)
    PROVE  CreatedTogether'
<1>1. \A o : Given(o)' = Given(o)
  BY SameRun DEF Alone
<1>2. \A s \in Ranks \ {r} : Settled(s)' = Settled(s) /\ Created(s)' = Created(s)
  BY <1>1 DEF Alone, Same, Settled, Created
<1> SUFFICES ASSUME Given("-1"), NEW q \in Ranks, Settled(q)', NEW s \in Ranks
             PROVE  Created(s)'
  BY <1>1 DEF CreatedTogether
<1>3. \A t \in Ranks : Created(t)
  BY <1>2 DEF CreatedTogether
<1> QED
  BY <1>2, <1>3

\* A step from one place between the iterations to another.
LEMMA OutsideKeeps ==
    ASSUME Inv, NEW r \in Ranks, Alone(r), ~InBenchmark(r), ~Ahead(r), ~InBenchmark(r)',
           Done(r)' = Done(r), \A s \in Ranks : Position(s)' = Position(s),
           Given("-1") => /\ Created(r) => Created(r)'
                          /\ Settled(r)' => Settled(r) \/ \A s \in Ranks : Created(s)
    PROVE  Outvoted' /\ Together' /\ BegunTogether' /\ CreatedTogether'
<1>1. /\ TypeInv /\ Outvoted /\ Together /\ BegunTogether /\ \A s \in Ranks : Local(s)
      /\ CreatedTogether
  BY DEF Inv
<1>2. Outvoted'
  BY <1>1, OutvotedStays
<1>3. Together'
  BY <1>1, TogetherStays
<1>4. BegunTogether'
  <2>1. \A s \in Ranks : ~Begun(s)
    BY <1>1, NobodyHasBegun
  <2>2. ~Begun(r)'
    BY DEF Begun
  <2> QED
    BY <2>1, <2>2, NobodyBegins
<1>5. CreatedTogether'
  BY <1>1, CreatedStays
<1> QED
  BY <1>2, <1>3, <1>4, <1>5

\* A step within an iteration.
LEMMA InsideKeeps ==
    ASSUME Inv, NEW r \in Ranks, Alone(r), InBenchmark(r), AllIn(r), InBenchmark(r)',
           global_iteration'[r] = global_iteration[r], current_index'[r] = current_index[r],
           (~armed_stone_wall[r] /\ at[r] # "wearout")'
              => Rounds(total_num[r], global_iteration[r])'
    PROVE  Outvoted' /\ Together' /\ BegunTogether' /\ CreatedTogether'
<1>1. /\ TypeInv /\ Outvoted /\ Together /\ BegunTogether /\ \A s \in Ranks : Local(s)
      /\ CreatedTogether
  BY DEF Inv
<1>2. ~Early(r) /\ ~Early(r)' /\ ~Ahead(r)
  BY DEF InBenchmark, Early, Ahead
<1>3. \A s \in Ranks : ~Early(s)
  BY DEF AllIn, InBenchmark, Ahead, Early
<1>4. Position(r)' = Position(r) /\ Done(r)' = Done(r)
  BY <1>2 DEF Position, Done
<1>5. \A s \in Ranks : Position(s)' = Position(s)
  BY <1>3, <1>4, PositionsStay
<1>6. Outvoted'
  BY <1>1, OutvotedStays
<1>7. Together'
  BY <1>1, <1>2, <1>4, <1>5, TogetherStays
<1>8. BegunTogether'
  BY AllStayIn
<1>9. CreatedTogether'
  <2>1. Created(r)' /\ Settled(r)
    BY DEF InBenchmark, Created, Settled
  <2> QED
    BY <1>1, <2>1, CreatedStays
<1> QED
  BY <1>6, <1>7, <1>8, <1>9

\* Start: a rank takes the first position, or calls the Bcast of the stored one.
LEMMA StartKeeps ==
    ASSUME Usable, Inv, NEW r \in Ranks, Start(r)
    PROVE  Inv'
<1>1. /\ TypeInv /\ Outvoted /\ Together /\ BegunTogether /\ Stored /\ Storage
      /\ \A s \in Ranks : Local(s)
  BY DEF Inv
<1>2. at[r] = "start" /\ StartItem = 0
  BY DEF Start, At, Usable
<1>3. /\ plan' = plan /\ run' = run /\ UNCHANGED storage
      /\ UNCHANGED <<phase, global_iteration, f, d, total_num, armed_stone_wall,
                     stonewall_iterations, err>>
  BY DEF Start, counters
<1>4. global_iteration[r] = 0 /\ Count(r) = 0 /\ Local(r) /\ d[r] = 0
  <2>1. Local(r)
    BY <1>1
  <2>2. global_iteration[r] = 0 /\ Count(r) = Due(r)
    BY <1>2, <2>1 DEF Local, Where
  <2>3. d[r] = 0
    BY <1>2, <2>1 DEF Local, Counters, InRound
  <2> QED
    BY <1>2, <2>1, <2>2, <2>3 DEF Due
<1>5. ~InBenchmark(r) /\ ~Ahead(r) /\ Done(r) = 0
  BY <1>2, <1>4 DEF InBenchmark, Ahead, Done
<1>6. Given("-1") => current_index[r] = 0
  BY <1>1, <1>5 DEF Stored
<1>7. \E next \in {"begin", "position"} :
         /\ at' = [at EXCEPT ![r] = next]
         /\ next = "begin" <=> Given("-1")
         /\ current_index' = current_index
         /\ IF Given("-1") THEN UNCHANGED calls ELSE Send(r, "Bcast", status)
  <2>1. CASE Given("-1")
    <3>1. current_index' = [current_index EXCEPT ![r] = 0]
      BY <1>2, <2>1 DEF Start
    <3>2. current_index' = current_index
      BY <1>1, <1>6, <2>1, <3>1 DEF TypeInv
    <3> QED
      BY <2>1, <3>2 DEF Start, GoTo
  <2>2. CASE ~Given("-1")
    BY <2>2 DEF Start, GoTo
  <2> QED
    BY <2>1, <2>2
<1>8. PICK next \in {"begin", "position"} :
         /\ at' = [at EXCEPT ![r] = next]
         /\ next = "begin" <=> Given("-1")
         /\ current_index' = current_index
         /\ IF Given("-1") THEN UNCHANGED calls ELSE Send(r, "Bcast", status)
  BY <1>7
<1>9. /\ calls' \in CallsIn(Nat) /\ Count(r)' \in Nat /\ Count(r)' >= Count(r)
      /\ Count(r)' = IF Given("-1") THEN 0 ELSE 1
      /\ ~Given("-1") => calls'[r][1].op = "Bcast" /\ calls'[r][1].value = status
      /\ \A s \in Ranks \ {r} : calls'[s] = calls[s]
  <2>1. CASE Given("-1")
    BY <1>1, <1>4, <1>8, <2>1, NotCalled
  <2>2. CASE ~Given("-1")
    <3>1. "Bcast" \in Collectives /\ status \in Nat
      BY <1>1 DEF Collectives, TypeInv
    <3> QED
      BY <1>1, <1>4, <1>8, <2>2, <3>1, Called
  <2> QED
    BY <2>1, <2>2
<1>10. at \in [Ranks -> Places] /\ at' \in [Ranks -> Places] /\ at'[r] = next
       /\ \A s \in Ranks \ {r} : at'[s] = at[s]
  BY <1>1, <1>8 DEF TypeInv, Places
<1>11. Alone(r)
  BY <1>3, <1>4, <1>8, <1>9, <1>10 DEF Alone, Same
<1>12. TypeInv'
  BY <1>1, <1>3, <1>8, <1>9, <1>10 DEF TypeInv, storage, DSets
<1>13. /\ \A o : Given(o)' = Given(o)
       /\ \A g : CallsBefore(g)' = CallsBefore(g)
       /\ CallsBefore(0) = IF Given("-1") THEN 3 ELSE 1
  BY <1>1, <1>3, SameRun, CallsGrow
<1>14. ~InBenchmark(r)' /\ ~Ahead(r)' /\ Done(r)' = 0 /\ (Early(r)' <=> Early(r))
  BY <1>2, <1>3, <1>4, <1>8, <1>10, <1>13 DEF InBenchmark, Ahead, Done, Early
<1>15. Local(r)'
  <2>1. Due(r)' = Count(r)'
    BY <1>8, <1>9, <1>10, <1>13, <1>14 DEF Due
  <2>2. Where(r)'
    BY <1>3, <1>4, <1>8, <1>10, <1>13, <1>14 DEF Where
  <2>3. Counters(r)'
    BY <1>3, <1>4, <1>10, <1>14 DEF Counters, InRound
  <2>4. LastOp(r)'
    BY <1>8, <1>9, <1>10, <1>14 DEF LastOp
  <2>5. Votes(r)'
    BY <1>10, <1>14 DEF Votes
  <2> QED
    BY <2>1, <2>2, <2>3, <2>4, <2>5 DEF Local
<1>16. \A s \in Ranks : Position(s)' = Position(s)
  <2>1. Position(r)' = Position(r)
    BY <1>3, <1>8, <1>14 DEF Position, storage
  <2>2. \A s \in Ranks \ {r} : Position(s)' = Position(s)
    BY <1>3, <1>11, SameWindow DEF Alone, storage
  <2> QED
    BY <2>1, <2>2
<1>17. Outvoted' /\ Together' /\ BegunTogether' /\ CreatedTogether'
  <2>1. Given("-1") => (Created(r) => Created(r)') /\ (Settled(r)' => Settled(r))
    BY <1>2, <1>8, <1>10 DEF Created, Settled
  <2> QED
    BY <1>5, <1>11, <1>14, <1>16, <2>1, OutsideKeeps
<1>18. Stored'
  <2>1. ~Given("-1") /\ Count(0) = 0 /\ Count(0)' > 0 => calls'[0][1].value = status
    <3>1. CASE r = 0
      BY <1>9, <3>1
    <3>2. CASE r # 0
      <4>1. 0 \in Ranks
        BY MpiAssumption DEF Ranks
      <4>2. Count(0)' = Count(0)
        BY <1>9, <3>2, <4>1 DEF Count
      <4> QED
        BY <4>2
    <3> QED
      BY <3>1, <3>2
  <2>2. Given("-1") => current_index'[r] = 0
    BY <1>6, <1>8
  <2> QED
    BY <1>1, <1>3, <1>10, <1>11, <1>14, <2>1, <2>2, StoredStays DEF storage
<1>19. Storage'
  <2>1. ASSUME NEW n \in DSets
        PROVE  /\ Bottom(r, n)' = Bottom(r, n) /\ Top(r, n)' = Top(r, n)
               /\ Exists(r, n)' = Exists(r, n)
    <3>1. Taken(r, n)' = Taken(r, n) /\ Put(r, n)' = Put(r, n)
      BY <1>5, <1>8, <1>14 DEF Taken, Put, Progress
    <3>2. Exists(r, n)' = Exists(r, n)
      BY <1>2, <1>8, <1>10, <1>13 DEF Exists, Created, Removed
    <3> QED
      BY <1>3, <1>14, <3>1, <3>2 DEF Bottom, Top, storage
  <2>2. PrefixIs'
    <3>1. prefix' = prefix /\ PrefixIs
      BY <1>1, <1>3 DEF Storage, storage
    <3>2. /\ (Given("-1") => at'[r] \notin {"start", "begin"}) <=> (Given("-1") => at[r] \notin {"start", "begin"})
          /\ (at'[r] = "finished" /\ Given("-3")) <=> (at[r] = "finished" /\ Given("-3"))
      BY <1>2, <1>8, <1>10
    <3> QED
      BY <1>11, <3>1, <3>2, PrefixStays
  <2> QED
    BY <1>1, <1>2, <1>3, <1>8, <1>10, <1>11, <2>1, <2>2, StorageStays DEF storage
<1> QED
  BY <1>11, <1>12, <1>15, <1>17, <1>18, <1>19, StepKeeps

\* Once a rank has started, the status file stays until rank 0 stores a position.
LEMMA StoredKeeps ==
    ASSUME Inv, NEW r \in Ranks, Alone(r), status' = status, at[r] # "start",
           Early(r)' => Early(r),
           r = 0 => at'[0] # "finished" \/ Given("-3"),
           Given("-1") /\ Done(r)' = 0 => current_index'[r] = 0
    PROVE  Stored'
<1>1. TypeInv /\ Stored /\ Local(r)
  BY DEF Inv
<1>2. ~Given("-1") => Count(r) > 0
  <2>1. SUFFICES ASSUME ~Given("-1") PROVE Count(r) > 0
    OBVIOUS
  <2>2. at[r] \notin {"start", "begin", "precreate"} => Count(r) >= CallsBefore(Done(r)) \/ Ahead(r) \/ InBenchmark(r)
    <3>1. ~(at[r] = "reduce" /\ phase[r] = "precreate") /\ at[r] # "precreate"
      BY <1>1, <2>1 DEF Local, Where
    <3> QED
      BY <1>1, <3>1, CountRange
  <2>3. /\ Done(r) \in Nat /\ CallsBefore(Done(r)) \in Nat /\ Count(r) \in Nat
        /\ Ahead(r) => Done(r) > 0
    BY <1>1, DoneIs, CallsGrow
  <2>4. CallsBefore(Done(r)) > 0
    <3>1. CASE Done(r) = 0
      BY <1>1, <2>1, <3>1, CallsGrow
    <3>2. CASE Done(r) > 0
      <4>1. CallsBefore(0) + 3 + Agreement + Agreement <= CallsBefore(Done(r)) /\ Agreement \in {0, 1}
            /\ CallsBefore(0) \in Nat
        BY <1>1, <2>3, <3>2, CallsGrow
      <4> QED
        BY <2>3, <4>1
    <3> QED
      BY <2>3, <3>1, <3>2
  <2>5. CASE InBenchmark(r)
    <3>1. Count(r) >= CallsBefore(Done(r)) + 1
      BY <1>1, <2>5, CountRange
    <3> QED
      BY <2>3, <3>1
  <2>6. CASE Ahead(r)
    <3>1. Count(r) = CallsBefore(Done(r)) - 1 - Agreement /\ Done(r) > 0
      BY <1>1, <2>3, <2>6, CountRange
    <3>2. CallsBefore(0) + 3 + Agreement + Agreement <= CallsBefore(Done(r)) /\ Agreement \in {0, 1}
          /\ CallsBefore(0) \in Nat
      BY <1>1, <2>3, <3>1, CallsGrow
    <3> QED
      BY <2>3, <3>1, <3>2
  <2>7. CASE at[r] = "begin"
    <3>1. Count(r) = CallsBefore(Done(r))
      BY <1>1, <2>1, <2>7 DEF Local, Due, InBenchmark
    <3> QED
      BY <2>4, <3>1
  <2>8. CASE ~InBenchmark(r) /\ ~Ahead(r) /\ at[r] # "begin"
    <3>1. at[r] # "precreate"
      BY <1>1, <2>1 DEF Local, Where
    <3> QED
      BY <2>2, <2>3, <2>4, <2>8, <3>1
  <2> QED
    BY <2>5, <2>6, <2>7, <2>8
<1>3. ~Given("-1") /\ Count(0) = 0 => Count(0)' = 0
  <2>1. CASE r = 0
    BY <1>2, <2>1
  <2>2. CASE r # 0
    <3>1. 0 \in Ranks
      BY MpiAssumption DEF Ranks
    <3>2. calls'[0] = calls[0]
      BY <2>2, <3>1 DEF Alone, Same
    <3> QED
      BY <3>2 DEF Count
  <2> QED
    BY <2>1, <2>2
<1>4. ~Given("-1") /\ Count(0) = 0 /\ Count(0)' > 0 => calls'[0][1].value = status
  BY <1>3
<1> QED
  BY <1>1, <1>4, StoredStays

\* return_position: the rank takes what rank 0 has found in the status file.
LEMMA PositionKeeps ==
    ASSUME Usable, Inv, NEW r \in Ranks, return_position(r)
    PROVE  Inv'
<1>1. /\ TypeInv /\ Outvoted /\ Together /\ BegunTogether /\ Stored /\ Storage
      /\ \A s \in Ranks : Local(s)
  BY DEF Inv
<1>2. at[r] = "position" /\ StartItem = 0 /\ Ready(r)
  BY DEF return_position, At, Usable
<1>3. /\ plan' = plan /\ run' = run /\ UNCHANGED storage /\ UNCHANGED calls
      /\ UNCHANGED <<phase, global_iteration, f, d, total_num, armed_stone_wall,
                     stonewall_iterations, err>>
      /\ at' = [at EXCEPT ![r] = "begin"]
      /\ current_index' = [current_index EXCEPT ![r] = Sent(0, r)]
  BY <1>2 DEF return_position, counters, GoTo
<1>4. /\ global_iteration[r] = 0 /\ Count(r) = 1 /\ d[r] = 0 /\ ~Given("-1") /\ Early(r)
      /\ ~InBenchmark(r) /\ ~Ahead(r) /\ Done(r) = 0
  <2>1. Local(r)
    BY <1>1
  <2>2. global_iteration[r] = 0 /\ Count(r) = Due(r) /\ ~Given("-1")
    BY <1>2, <2>1 DEF Local, Where
  <2>3. d[r] = 0
    BY <1>2, <2>1 DEF Local, Counters, InRound
  <2>4. ~InBenchmark(r) /\ ~Ahead(r) /\ Done(r) = 0
    BY <1>2, <2>2 DEF InBenchmark, Ahead, Done
  <2>5. Due(r) = 1
    BY <1>1, <1>2, <2>2, <2>4, CallsGrow DEF Due
  <2> QED
    BY <1>2, <2>2, <2>3, <2>4, <2>5 DEF Early
<1>5. Sent(0, r) = status
  <2>1. calls[r][Count(r)].op = "Bcast"
    BY <1>1, <1>2 DEF Local, LastOp
  <2>2. Count(0) >= 1
    BY <1>2, <1>4, <2>1, BcastMeans
  <2>3. Count(0) \in Nat
    BY <1>1, CountIsNat, MpiAssumption DEF TypeInv, Ranks
  <2>4. calls[0][1].value = status
    BY <1>1, <1>4, <2>2, <2>3 DEF Stored
  <2> QED
    BY <1>4, <2>4 DEF Sent
<1>6. /\ calls' \in CallsIn(Nat) /\ Count(r)' \in Nat /\ Count(r)' >= Count(r) /\ Count(r)' = 1
      /\ \A s \in Ranks : calls'[s] = calls[s]
  BY <1>1, <1>3, <1>4, NotCalled
<1>7. /\ at' \in [Ranks -> Places] /\ at'[r] = "begin"
      /\ \A s \in Ranks \ {r} : at'[s] = at[s]
      /\ current_index' \in [Ranks -> Nat] /\ current_index'[r] = status
      /\ \A s \in Ranks \ {r} : current_index'[s] = current_index[s]
  BY <1>1, <1>3, <1>5 DEF TypeInv, Places
<1>8. Alone(r)
  BY <1>3, <1>6, <1>7 DEF Alone, Same
<1>9. TypeInv'
  BY <1>1, <1>3, <1>6, <1>7 DEF TypeInv, storage, DSets
<1>10. /\ \A o : Given(o)' = Given(o)
       /\ \A g : CallsBefore(g)' = CallsBefore(g)
       /\ CallsBefore(0) = 1
  BY <1>1, <1>3, <1>4, SameRun, CallsGrow
<1>11. ~InBenchmark(r)' /\ ~Ahead(r)' /\ Done(r)' = 0 /\ ~Early(r)'
  BY <1>3, <1>4, <1>7 DEF InBenchmark, Ahead, Done, Early
<1>12. Local(r)'
  <2>1. Due(r)' = Count(r)'
    BY <1>4, <1>6, <1>7, <1>10, <1>11 DEF Due
  <2>2. Where(r)'
    BY <1>3, <1>4, <1>7, <1>11 DEF Where
  <2>3. Counters(r)'
    BY <1>3, <1>4, <1>7, <1>11 DEF Counters, InRound
  <2>4. LastOp(r)'
    BY <1>7, <1>11 DEF LastOp
  <2>5. Votes(r)'
    BY <1>7, <1>11 DEF Votes
  <2> QED
    BY <2>1, <2>2, <2>3, <2>4, <2>5 DEF Local
<1>13. \A s \in Ranks : Position(s)' = Position(s)
  <2>1. Position(r)' = Position(r)
    BY <1>4, <1>7, <1>11 DEF Position
  <2> QED
    BY <1>3, <1>8, <2>1, PositionsStay DEF storage
<1>14. Outvoted' /\ Together' /\ BegunTogether' /\ CreatedTogether'
  BY <1>4, <1>8, <1>11, <1>13, OutsideKeeps
<1>15. Stored'
  BY <1>2, <1>3, <1>4, <1>7, <1>8, <1>11, StoredKeeps DEF storage
<1>16. Storage'
  <2>1. ASSUME NEW n \in DSets
        PROVE  /\ Bottom(r, n)' = Bottom(r, n) /\ Top(r, n)' = Top(r, n)
               /\ Exists(r, n)' = Exists(r, n)
    <3>1. Taken(r, n)' = status /\ Put(r, n)' = status
      BY <1>7, <1>11 DEF Taken, Put, Progress
    <3>2. Exists(r, n)' = Exists(r, n)
      BY <1>2, <1>4, <1>7, <1>10 DEF Exists, Created, Removed
    <3> QED
      BY <1>4, <1>11, <3>1, <3>2 DEF Bottom, Top
  <2>2. PrefixIs'
    BY <1>1, <1>2, <1>3, <1>4, <1>7, <1>8, PrefixStays DEF Storage, storage
  <2> QED
    BY <1>1, <1>2, <1>3, <1>7, <1>8, <2>1, <2>2, StorageStays DEF storage
<1> QED
  BY <1>8, <1>9, <1>12, <1>14, <1>15, <1>16, StepKeeps

\* Begin: rank 0 creates the output directory; then the precreation or the
\* first iteration is next.
LEMMA BeginKeeps ==
    ASSUME Inv, NEW r \in Ranks, Begin(r)
    PROVE  Inv'
<1>1. /\ TypeInv /\ Stored /\ Storage /\ Local(r)
  BY DEF Inv
<1>2. at[r] = "begin"
  BY DEF Begin, At
<1>3. /\ plan' = plan /\ run' = run
      /\ UNCHANGED <<phase, global_iteration, f, d, total_num, armed_stone_wall,
                     stonewall_iterations, current_index, err>>
      /\ UNCHANGED <<dirs, objects, complete, status>>
      /\ prefix' = (prefix \/ (Given("-1") /\ r = 0))
      /\ at' = [at EXCEPT ![r] = IF Given("-1") THEN "precreate" ELSE "next"]
      /\ IF Given("-1") THEN Send(r, "Barrier", 0) ELSE UNCHANGED calls
  BY DEF Begin, counters, private, GoTo, CallIf, Call
<1>4. /\ global_iteration[r] = 0 /\ d[r] = 0 /\ ~Early(r)
      /\ ~InBenchmark(r) /\ ~Ahead(r) /\ Done(r) = 0
      /\ Count(r) = IF Given("-1") THEN 0 ELSE 1
  <2>1. global_iteration[r] = 0 /\ Count(r) = Due(r)
    BY <1>1, <1>2 DEF Local, Where
  <2>2. d[r] = 0
    BY <1>1, <1>2 DEF Local, Counters, InRound
  <2>3. ~InBenchmark(r) /\ ~Ahead(r) /\ Done(r) = 0 /\ ~Early(r)
    BY <1>2, <2>1 DEF InBenchmark, Ahead, Done, Early
  <2>4. Due(r) = IF Given("-1") THEN 0 ELSE 1
    BY <1>1, <1>2, <2>1, <2>3, CallsGrow DEF Due
  <2> QED
    BY <2>1, <2>2, <2>3, <2>4
<1>5. /\ calls' \in CallsIn(Nat) /\ Count(r)' \in Nat /\ Count(r)' >= Count(r) /\ Count(r)' = 1
      /\ Given("-1") => calls'[r][1].op = "Barrier"
      /\ \A s \in Ranks \ {r} : calls'[s] = calls[s]
      /\ \A k \in 1..Count(r) : calls'[r][k] = calls[r][k]
  <2>1. CASE Given("-1")
    <3>1. "Barrier" \in Collectives /\ Send(r, "Barrier", 0)
      BY <1>3, <2>1 DEF Collectives, Synchronizing
    <3> QED
      BY <1>1, <1>4, <2>1, <3>1, Called
  <2>2. CASE ~Given("-1")
    BY <1>1, <1>3, <1>4, <2>2, NotCalled
  <2> QED
    BY <2>1, <2>2
<1>6. /\ at' \in [Ranks -> Places] /\ at'[r] = (IF Given("-1") THEN "precreate" ELSE "next")
      /\ \A s \in Ranks \ {r} : at'[s] = at[s]
  BY <1>1, <1>3 DEF TypeInv, Places
<1>7. Alone(r)
  BY <1>3, <1>5, <1>6 DEF Alone, Same
<1>8. TypeInv'
  BY <1>1, <1>3, <1>5, <1>6 DEF TypeInv, DSets
<1>9. /\ \A o : Given(o)' = Given(o)
      /\ \A g : CallsBefore(g)' = CallsBefore(g)
      /\ CallsBefore(0) = (IF Given("-1") THEN 3 ELSE 1)
      /\ Iterations' = Iterations /\ Iterations \in Nat
  BY <1>1, <1>3, SameRun, CallsGrow, PlanIs
<1>10. ~InBenchmark(r)' /\ ~Ahead(r)' /\ Done(r)' = 0 /\ ~Early(r)'
  BY <1>3, <1>4, <1>6 DEF InBenchmark, Ahead, Done, Early
<1>11. Local(r)'
  <2>1. Due(r)' = Count(r)'
    BY <1>5, <1>6, <1>9, <1>10 DEF Due
  <2>2. Where(r)'
    BY <1>3, <1>4, <1>6, <1>9, <1>10 DEF Where
  <2>3. Counters(r)'
    BY <1>3, <1>4, <1>6, <1>10 DEF Counters, InRound
  <2>4. LastOp(r)'
    BY <1>5, <1>6, <1>10 DEF LastOp
  <2>5. Votes(r)'
    BY <1>6, <1>10 DEF Votes
  <2> QED
    BY <2>1, <2>2, <2>3, <2>4, <2>5 DEF Local
<1>12. \A s \in Ranks : Position(s)' = Position(s)
  <2>1. Position(r)' = Position(r)
    BY <1>3, <1>4, <1>10 DEF Position
  <2> QED
    BY <1>3, <1>7, <2>1, PositionsStay
<1>13. Outvoted' /\ Together' /\ BegunTogether' /\ CreatedTogether'
  <2>1. Given("-1") => (Created(r) => Created(r)') /\ (Settled(r)' => Settled(r))
    BY <1>2, <1>6 DEF Created, Settled
  <2> QED
    BY <1>4, <1>7, <1>10, <1>12, <2>1, OutsideKeeps
<1>14. Stored'
  <2>1. Given("-1") /\ Done(r)' = 0 => current_index'[r] = 0
    BY <1>1, <1>3, <1>4 DEF Stored
  <2> QED
    BY <1>2, <1>3, <1>6, <1>7, <1>10, <2>1, StoredKeeps
<1>15. Storage'
  <2>1. ASSUME NEW n \in DSets
        PROVE  /\ Bottom(r, n)' = Bottom(r, n) /\ Top(r, n)' = Top(r, n)
               /\ Exists(r, n)' = Exists(r, n)
    <3>1. Taken(r, n)' = Taken(r, n) /\ Put(r, n)' = Put(r, n)
      BY <1>3, <1>4, <1>10 DEF Taken, Put, Progress
    <3>2. Exists(r, n)' = Exists(r, n)
      BY <1>2, <1>6, <1>9 DEF Exists, Created, Removed
    <3> QED
      BY <1>4, <1>10, <3>1, <3>2 DEF Bottom, Top
  <2>2. PrefixIs'
    <3>1. CASE r = 0
      BY <1>1, <1>2, <1>3, <1>6, <1>9, <3>1 DEF Storage, PrefixIs
    <3>2. CASE r # 0
      <4>1. prefix' = prefix
        BY <1>1, <1>3, <3>2 DEF TypeInv
      <4>2. 0 \in Ranks
        BY MpiAssumption DEF Ranks
      <4>3. at'[0] = at[0]
        BY <1>6, <3>2, <4>2
      <4> QED
        BY <1>1, <1>9, <4>1, <4>3 DEF Storage, PrefixIs
    <3> QED
      BY <3>1, <3>2
  <2> QED
    BY <1>1, <1>2, <1>3, <1>6, <1>7, <2>1, <2>2, StorageStays
<1> QED
  BY <1>7, <1>8, <1>11, <1>13, <1>14, <1>15, StepKeeps

\* run_precreate: r creates its data sets, which are not there yet.
LEMMA PrecreateKeeps ==
    ASSUME Inv, NEW r \in Ranks, run_precreate(r)
    PROVE  Inv'
<1>1. /\ TypeInv /\ Stored /\ Storage /\ CreatedTogether /\ BegunTogether
      /\ \A s \in Ranks : Local(s)
  BY DEF Inv
<1>2. at[r] = "precreate" /\ Ready(r) /\ Local(r)
  BY <1>1 DEF run_precreate, At
<1>3. /\ global_iteration[r] = 0 /\ d[r] = 0 /\ ~Early(r) /\ Given("-1")
      /\ ~InBenchmark(r) /\ ~Ahead(r) /\ Done(r) = 0
      /\ Count(r) = 1 /\ ~Created(r)
  <2>1. global_iteration[r] = 0 /\ Count(r) = Due(r) /\ Given("-1")
    BY <1>2 DEF Local, Where
  <2>2. d[r] = 0
    BY <1>2 DEF Local, Counters, InRound
  <2>3. ~InBenchmark(r) /\ ~Ahead(r) /\ Done(r) = 0 /\ ~Early(r)
    BY <1>2, <2>1 DEF InBenchmark, Ahead, Done, Early
  <2>4. Due(r) = 1
    BY <1>2 DEF Due
  <2> QED
    BY <1>2, <2>1, <2>2, <2>3, <2>4 DEF Created
<1>4. \A s \in Ranks : /\ ~Settled(s) /\ ~InBenchmark(s) /\ ~Early(s)
                       /\ current_index[s] = 0 /\ at[s] # "write"
  <2> SUFFICES ASSUME NEW s \in Ranks
               PROVE  ~Settled(s) /\ ~InBenchmark(s) /\ ~Early(s) /\ current_index[s] = 0 /\ at[s] # "write"
    OBVIOUS
  <2>1. ~Settled(s)
    BY <1>1, <1>3 DEF CreatedTogether
  <2>2. ~InBenchmark(s) /\ ~Early(s) /\ at[s] # "write"
    BY <1>3, <2>1 DEF Settled, InBenchmark, Early
  <2>3. Where(s)
    BY <1>1 DEF Local
  <2>4. Done(s) = 0
    BY <2>1, <2>2, <2>3 DEF Where, Settled, Done
  <2> QED
    BY <1>1, <1>3, <2>1, <2>2, <2>4 DEF Stored
<1>5. prefix
  <2>1. calls[r][Count(r)].op \in Synchronizing
    BY <1>2 DEF Local, LastOp, Synchronizing
  <2>2. 0 \in Ranks
    BY MpiAssumption DEF Ranks
  <2>3. Count(0) >= 1 /\ Count(0) = Due(0)
    BY <1>1, <1>2, <1>3, <2>1, <2>2, ReadyMeans DEF Local
  <2>4. at[0] \notin {"start", "begin"}
    BY <1>3, <2>3 DEF Due
  <2>5. at[0] # "finished"
    BY <1>4, <2>2 DEF Settled
  <2> QED
    BY <1>1, <2>4, <2>5 DEF Storage, PrefixIs
<1>6. dirs \cap ({r} \X DSets) = {}
  <2>1. \A n \in DSets : <<r, n>> \notin dirs
    BY <1>1, <1>3 DEF Storage, Exists
  <2> QED
    BY <2>1
<1> DEFINE new == {r} \X DSets \X (current_index[r]..(precreate - 1))
<1>7. /\ plan' = plan /\ run' = run
      /\ UNCHANGED <<global_iteration, f, d, total_num, armed_stone_wall,
                     current_index, err, prefix, status>>
      /\ dirs' = dirs \cup ({r} \X DSets)
      /\ objects' = objects \cup new
      /\ complete' = complete \cup new
      /\ stonewall_iterations' = [stonewall_iterations EXCEPT ![r] = 0]
      /\ phase' = [phase EXCEPT ![r] = "precreate"]
      /\ at' = [at EXCEPT ![r] = "reduce"]
      /\ Send(r, "Barrier", 0)
  BY <1>5, <1>6 DEF run_precreate, EndPhase, GoTo, Call
<1>8. new = {r} \X DSets \X (0..(precreate - 1))
  BY <1>4
<1> HIDE DEF new
<1>9. /\ calls' \in CallsIn(Nat) /\ Count(r)' \in Nat /\ Count(r)' >= Count(r) /\ Count(r)' = 2
      /\ calls'[r][Count(r)'].op = "Barrier"
      /\ \A s \in Ranks \ {r} : calls'[s] = calls[s]
      /\ \A k \in 1..Count(r) : calls'[r][k] = calls[r][k]
  <2>1. "Barrier" \in Collectives
    BY DEF Collectives, Synchronizing
  <2> QED
    BY <1>1, <1>3, <1>7, <2>1, Called
<1>10. /\ at' \in [Ranks -> Places] /\ at'[r] = "reduce"
       /\ \A s \in Ranks \ {r} : at'[s] = at[s]
       /\ phase' \in [Ranks -> {"precreate", "benchmark", "cleanup"}] /\ phase'[r] = "precreate"
       /\ \A s \in Ranks \ {r} : phase'[s] = phase[s]
       /\ stonewall_iterations' \in [Ranks -> Nat] /\ stonewall_iterations'[r] = 0
       /\ \A s \in Ranks \ {r} : stonewall_iterations'[s] = stonewall_iterations[s]
  BY <1>1, <1>7 DEF TypeInv, Places
<1>11. Alone(r)
  BY <1>7, <1>9, <1>10 DEF Alone, Same
<1>12. TypeInv'
  <2>1. new \subseteq Ranks \X DSets \X Nat
    BY <1>8
  <2>2. dirs' \subseteq Ranks \X DSets /\ objects' \subseteq Ranks \X DSets \X Nat
    BY <1>1, <1>7, <2>1 DEF TypeInv
  <2> QED
    BY <1>1, <1>7, <1>9, <1>10, <2>2 DEF TypeInv, DSets
<1>13. /\ \A o : Given(o)' = Given(o)
       /\ \A g : CallsBefore(g)' = CallsBefore(g)
  BY <1>7, SameRun
<1>14. ~InBenchmark(r)' /\ ~Ahead(r)' /\ Done(r)' = 0 /\ ~Early(r)'
  BY <1>3, <1>7, <1>10 DEF InBenchmark, Ahead, Done, Early
<1>15. Local(r)'
  <2>1. Due(r)' = Count(r)'
    BY <1>9, <1>10, <1>14 DEF Due
  <2>2. Where(r)'
    BY <1>3, <1>7, <1>10, <1>13, <1>14 DEF Where
  <2>3. Counters(r)'
    BY <1>3, <1>7, <1>10, <1>14 DEF Counters, InRound
  <2>4. LastOp(r)'
    BY <1>9, <1>10, <1>14 DEF LastOp
  <2>5. Votes(r)'
    BY <1>10, <1>14 DEF Votes
  <2> QED
    BY <2>1, <2>2, <2>3, <2>4, <2>5 DEF Local
<1>16. \A s \in Ranks : Position(s)' = Position(s)
  <2>1. Position(r)' = Position(r)
    BY <1>3, <1>7, <1>14 DEF Position
  <2> QED
    BY <1>7, <1>11, <2>1, PositionsStay
<1>17. Outvoted' /\ Together' /\ BegunTogether' /\ CreatedTogether'
  <2>1. Given("-1") => (Created(r) => Created(r)') /\ (Settled(r)' => Settled(r))
    BY <1>3, <1>10 DEF Created, Settled
  <2> QED
    BY <1>3, <1>11, <1>14, <1>16, <2>1, OutsideKeeps
<1>18. Stored'
  <2>1. Given("-1") /\ Done(r)' = 0 => current_index'[r] = 0
    BY <1>4, <1>7
  <2> QED
    BY <1>2, <1>7, <1>10, <1>11, <1>14, <2>1, StoredKeeps
<1>19. Storage'
  <2>1. ASSUME NEW s \in Ranks, NEW n \in DSets
        PROVE  Bottom(s, n) = 0 /\ Top(s, n) = precreate
    <3>1. Taken(s, n) = 0 /\ Put(s, n) = 0
      BY <1>4 DEF Taken, Put, Progress
    <3> QED
      BY <1>4, <3>1, WorkbenchAssumption DEF Bottom, Top
  <2>2. \A n \in DSets : Bottom(r, n)' = Bottom(r, n) /\ Top(r, n)' = Top(r, n)
    <3>1. \A n : Taken(r, n)' = Taken(r, n) /\ Put(r, n)' = Put(r, n)
      BY <1>3, <1>7, <1>14 DEF Taken, Put, Progress
    <3> QED
      BY <1>3, <1>14, <3>1 DEF Bottom, Top
  <2>3. /\ \A q \in Ranks, n \in DSets, i \in Nat :
                 InWindow(q, n, i)' <=> /\ Exists(q, n)'
                                        /\ Bottom(WriteRank(q, n), n) <= i
                                        /\ i < Top(ReadRank(q, n), n)
        /\ \A q \in Ranks \ {r}, n \in DSets : Exists(q, n)' = Exists(q, n)
    BY <1>1, <1>7, <1>11, <2>2, WindowsStay
  <2>4. \A n \in DSets : Exists(r, n)' /\ ~Exists(r, n)
    BY <1>3, <1>10 DEF Exists, Created, Removed
  <2>5. \A q \in Ranks, n \in DSets : <<q, n>> \in dirs' <=> Exists(q, n)'
    BY <1>1, <1>7, <2>3, <2>4 DEF Storage
  <2>6. ASSUME NEW q \in Ranks, NEW n \in DSets, NEW i \in Nat
        PROVE  <<q, n, i>> \in objects' <=> InWindow(q, n, i)'
    <3>1. <<q, n, i>> \in objects <=> InWindow(q, n, i)
      BY <1>1 DEF Storage
    <3>2. CASE q = r
      <4>1. <<q, n, i>> \notin objects
        BY <2>4, <3>1, <3>2 DEF InWindow
      <4>2. <<q, n, i>> \in new <=> i < precreate
        BY <1>8, <3>2, WorkbenchAssumption
      <4>3. InWindow(q, n, i)' <=> i < precreate
        <5>1. ReadRank(q, n) \in Ranks /\ WriteRank(q, n) \in Ranks
          BY <1>1, OneReaderOneWriter
        <5>2. Bottom(WriteRank(q, n), n) = 0 /\ Top(ReadRank(q, n), n) = precreate
          BY <2>1, <5>1
        <5> QED
          BY <2>3, <2>4, <3>2, <5>2
      <4> QED
        BY <1>7, <4>1, <4>2, <4>3
    <3>3. CASE q # r
      <4>1. <<q, n, i>> \notin new
        BY <1>8, <3>3
      <4>2. InWindow(q, n, i)' <=> InWindow(q, n, i)
        BY <2>3, <3>3 DEF InWindow
      <4> QED
        BY <1>7, <3>1, <4>1, <4>2
    <3> QED
      BY <3>2, <3>3
  <2>7. complete' = objects' \ Unfinished'
    <3>1. Unfinished = {}
      BY <1>4 DEF Unfinished
    <3>2. Unfinished' = {}
      BY <1>2, <1>10, <1>11, <3>1, UnfinishedStays
    <3> QED
      BY <1>1, <1>7, <3>1, <3>2 DEF Storage
  <2>8. PrefixIs'
    BY <1>1, <1>2, <1>7, <1>10, <1>11, PrefixStays DEF Storage
  <2>9. DSets' = DSets
    BY <1>7, SameRun
  <2> QED
    BY <2>5, <2>6, <2>7, <2>8, <2>9 DEF Storage
<1> QED
  BY <1>11, <1>12, <1>15, <1>17, <1>18, <1>19, StepKeeps

\* The reductions at the end of a phase.
LEMMA Reduced ==
    ASSUME TypeInv, NEW r \in Ranks, NEW n \in {1, 2},
           calls' = [calls EXCEPT ![r] = @ \o [k \in 1..n |-> [op |-> "Reduce", value |-> 0]]]
    PROVE  /\ calls' \in CallsIn(Nat)
           /\ Count(r) \in Nat /\ Count(r)' = Count(r) + n
           /\ Count(r)' \in Nat /\ Count(r)' >= Count(r)
           /\ calls'[r][Count(r)'].op = "Reduce"
           /\ \A k \in 1..Count(r) : calls'[r][k] = calls[r][k]
           /\ \A s \in Ranks \ {r} : calls'[s] = calls[s]
<1> DEFINE S == [op : Collectives, value : Nat]
           more == [k \in 1..n |-> [op |-> "Reduce", value |-> 0]]
<1>1. calls \in [Ranks -> Seq(S)]
  BY DEF TypeInv, CallsIn
<1>2. more \in Seq(S) /\ Len(more) = n /\ \A k \in 1..n : more[k].op = "Reduce"
  <2>1. [op |-> "Reduce", value |-> 0] \in S
    BY DEF Collectives
  <2>2. more \in [1..n -> S]
    BY <2>1
  <2> QED
    BY <2>2
<1>3. calls' = [calls EXCEPT ![r] = calls[r] \o more]
  OBVIOUS
<1> HIDE DEF S, more
<1>4. calls[r] \in Seq(S)
  BY <1>1
<1>5. /\ calls[r] \o more \in Seq(S)
      /\ Len(calls[r] \o more) = Len(calls[r]) + n
      /\ \A k \in 1..Len(calls[r]) : (calls[r] \o more)[k] = calls[r][k]
      /\ (calls[r] \o more)[Len(calls[r]) + n] = more[n]
      /\ Len(calls[r]) \in Nat
  BY <1>2, <1>4
<1>6. calls' \in [Ranks -> Seq(S)] /\ calls'[r] = calls[r] \o more
      /\ \A s \in Ranks \ {r} : calls'[s] = calls[s]
  BY <1>1, <1>3, <1>5
<1>7. /\ Count(r) \in Nat /\ Count(r)' = Count(r) + n /\ Count(r)' \in Nat /\ Count(r)' >= Count(r)
  BY <1>5, <1>6 DEF Count
<1>8. calls'[r][Count(r)'].op = "Reduce"
  BY <1>2, <1>5, <1>6 DEF Count
<1>9. \A k \in 1..Count(r) : calls'[r][k] = calls[r][k]
  BY <1>5, <1>6 DEF Count
<1> QED
  BY <1>6, <1>7, <1>8, <1>9 DEF CallsIn, S

\* EndPhaseReduce: the end of the precreation, of an iteration or of the
\* cleanup, which r passes when everybody has come to it.
LEMMA ReduceKeeps ==
    ASSUME Inv, NEW r \in Ranks, EndPhaseReduce(r)
    PROVE  Inv'
<1>1. /\ TypeInv /\ Stored /\ Storage /\ CreatedTogether /\ BegunTogether /\ Together /\ Outvoted
      /\ \A s \in Ranks : Local(s)
  BY DEF Inv
<1>2. at[r] = "reduce" /\ Ready(r) /\ Local(r)
  BY <1>1 DEF EndPhaseReduce, At
<1> DEFINE n == IF stonewall_iterations[r] # 0 THEN 2 ELSE 1
           next == IF phase[r] = "cleanup" THEN "rmdir" ELSE "next"
<1>3. /\ plan' = plan /\ run' = run /\ UNCHANGED private /\ UNCHANGED storage
      /\ calls' = [calls EXCEPT ![r] = @ \o [k \in 1..n |-> [op |-> "Reduce", value |-> 0]]]
      /\ at' = [at EXCEPT ![r] = next]
  BY DEF EndPhaseReduce, GoTo
<1>4. /\ UNCHANGED <<phase, global_iteration, f, d, total_num, armed_stone_wall,
                     stonewall_iterations, current_index, err>>
      /\ UNCHANGED <<prefix, dirs, objects, complete, status>>
  BY <1>3 DEF private, counters, storage
<1>5. n \in {1, 2} /\ next \in {"rmdir", "next"}
  OBVIOUS
<1>6. n = IF Ahead(r) THEN 1 + Agreement ELSE 1
  <2>1. stonewall_iterations[r] # 0 <=> plan.stonewall /\ Ahead(r)
    BY <1>2 DEF Local, Counters
  <2> QED
    BY <2>1 DEF Agreement
<1>7. /\ next = "rmdir" <=> phase[r] = "cleanup"
      /\ phase[r] \in {"precreate", "benchmark", "cleanup"}
      /\ Ahead(r) <=> phase[r] = "benchmark"
  BY <1>1, <1>2 DEF TypeInv, Ahead
<1> HIDE DEF n, next
<1>8. /\ ~InBenchmark(r) /\ Done(r) = global_iteration[r] /\ ~Early(r) /\ d[r] = 0
      /\ Done(r) \in Nat /\ Count(r) \in Nat
      /\ Count(r) = IF phase[r] = "precreate" THEN 2
                    ELSE IF phase[r] = "benchmark" THEN CallsBefore(Done(r)) - 1 - Agreement
                    ELSE CallsBefore(Done(r)) + 1
      /\ phase[r] = "precreate" => Given("-1") /\ Done(r) = 0
      /\ phase[r] = "benchmark" => global_iteration[r] \in 1..Iterations
      /\ phase[r] = "cleanup" => Given("-3") /\ global_iteration[r] = Iterations
  <2>1. ~InBenchmark(r) /\ ~Early(r)
    BY <1>2 DEF InBenchmark, Early
  <2>2. Count(r) = Due(r) /\ Where(r)
    BY <1>2 DEF Local
  <2>3. d[r] = 0
    BY <1>2 DEF Local, Counters, InRound
  <2>4. Done(r) \in Nat /\ Count(r) \in Nat /\ Done(r) = global_iteration[r]
    BY <1>1, <1>2, <2>1, DoneIs
  <2>5. Due(r) = IF phase[r] = "precreate" THEN 2
                 ELSE IF phase[r] = "benchmark" THEN CallsBefore(Done(r)) - 1 - Agreement
                 ELSE CallsBefore(Done(r)) + 1
    BY <1>2, <2>1 DEF Due
  <2>6. phase[r] = "precreate" => Given("-1") /\ global_iteration[r] = 0
    BY <1>2, <2>2 DEF Where
  <2>7. phase[r] = "benchmark" => global_iteration[r] \in 1..Iterations
    BY <1>2, <2>2 DEF Where, Ahead
  <2>8. phase[r] = "cleanup" => Given("-3") /\ global_iteration[r] = Iterations
    BY <1>2, <2>2 DEF Where
  <2> QED
    BY <2>1, <2>2, <2>3, <2>4, <2>5, <2>6, <2>7, <2>8
<1>9. /\ calls' \in CallsIn(Nat) /\ Count(r)' \in Nat /\ Count(r)' >= Count(r)
      /\ Count(r)' = Count(r) + n
      /\ calls'[r][Count(r)'].op = "Reduce"
      /\ \A s \in Ranks \ {r} : calls'[s] = calls[s]
      /\ \A k \in 1..Count(r) : calls'[r][k] = calls[r][k]
  BY <1>1, <1>3, <1>5, Reduced
<1>10. /\ at' \in [Ranks -> Places] /\ at'[r] = next
       /\ \A s \in Ranks \ {r} : at'[s] = at[s]
  BY <1>1, <1>3, <1>5 DEF TypeInv, Places
<1>11. Alone(r)
  BY <1>3, <1>4, <1>9, <1>10 DEF Alone, Same
<1>12. TypeInv'
  BY <1>1, <1>3, <1>4, <1>9, <1>10 DEF TypeInv, DSets
<1>13. /\ \A o : Given(o)' = Given(o)
       /\ \A g : CallsBefore(g)' = CallsBefore(g)
       /\ Iterations' = Iterations /\ Iterations \in Nat
  BY <1>1, <1>3, SameRun, PlanIs
<1>14. ~InBenchmark(r)' /\ ~Ahead(r)' /\ Done(r)' = Done(r) /\ ~Early(r)'
  BY <1>4, <1>5, <1>8, <1>10 DEF InBenchmark, Ahead, Done, Early
<1>15. Local(r)'
  <2>1. Due(r)' = Count(r)'
    <3>1. Due(r)' = CallsBefore(Done(r)) + (IF next = "rmdir" THEN 2 ELSE 0)
      <4>1. CallsBefore(Done(r))' = CallsBefore(Done(r))
        BY <1>13, <1>14
      <4>2. CallsBefore(Done(r)) \in Nat
        BY <1>1, <1>8, CallsGrow
      <4>3. CASE next = "rmdir"
        BY <1>10, <1>14, <4>1, <4>3 DEF Due
      <4>4. CASE next = "next"
        BY <1>10, <1>14, <4>1, <4>2, <4>4 DEF Due
      <4> QED
        BY <1>5, <4>3, <4>4
    <3>2. CallsBefore(Done(r)) \in Nat /\ Agreement \in {0, 1} /\ (Given("-1") => CallsBefore(0) = 3)
      BY <1>1, <1>8, CallsGrow
    <3> QED
      BY <1>6, <1>7, <1>8, <1>9, <3>1, <3>2
  <2>2. Where(r)'
    BY <1>4, <1>5, <1>7, <1>8, <1>10, <1>13, <1>14 DEF Where
  <2>3. Counters(r)'
    BY <1>4, <1>5, <1>8, <1>10, <1>14 DEF Counters, InRound
  <2>4. LastOp(r)'
    BY <1>5, <1>9, <1>10, <1>14 DEF LastOp
  <2>5. Votes(r)'
    BY <1>5, <1>10, <1>14 DEF Votes
  <2> QED
    BY <2>1, <2>2, <2>3, <2>4, <2>5 DEF Local
<1>16. \A s \in Ranks : Position(s)' = Position(s)
  <2>1. Position(r)' = Position(r)
    BY <1>4, <1>8, <1>14 DEF Position
  <2> QED
    BY <1>4, <1>11, <2>1, PositionsStay
<1>17. \A s \in Ranks : Given("-1") => Created(s)
  <2>1. CASE phase[r] = "precreate"
    <3>1. calls[r][Count(r)].op \in Synchronizing
      BY <1>2 DEF Local, LastOp, Synchronizing
    <3>2. ASSUME NEW s \in Ranks
          PROVE  Created(s)
      <4>1. Count(s) >= 2 /\ Count(s) = Due(s)
        BY <1>1, <1>2, <1>8, <2>1, <3>1, ReadyMeans DEF Local
      <4> QED
        BY <1>8, <2>1, <4>1 DEF Due, Created
    <3> QED
      BY <3>2
  <2>2. CASE phase[r] # "precreate"
    <3>1. Settled(r)
      BY <1>2, <2>2 DEF Settled
    <3> QED
      BY <1>1, <3>1 DEF CreatedTogether
  <2> QED
    BY <2>1, <2>2
<1>18. Given("-1") => Created(r)' /\ \A s \in Ranks : Created(s)
  BY <1>5, <1>10, <1>17 DEF Created
<1>19. Outvoted' /\ Together' /\ BegunTogether' /\ CreatedTogether'
  <2>1. CASE ~Ahead(r)
    BY <1>8, <1>11, <1>14, <1>16, <1>18, <2>1, OutsideKeeps
  <2>2. CASE Ahead(r)
    <3>1. \A s \in Ranks : Done(s) = Done(r) /\ Position(s) = Position(r)
      BY <1>1, <1>2, <2>2, NobodyInside
    <3>2. \A s \in Ranks : Done(s)' = Done(s)
      BY <1>3, <1>11, <1>14, SamePlace DEF Alone
    <3>3. Together'
      BY <1>16, <3>1, <3>2 DEF Together
    <3>4. ASSUME NEW s \in Ranks, Begun(s) PROVE FALSE
      <4>1. AllIn(s) /\ InBenchmark(s)
        BY <1>1, <3>4 DEF BegunTogether, Begun
      <4>2. global_iteration[r] = global_iteration[s]
        BY <4>1 DEF AllIn
      <4>3. Done(s) = global_iteration[s] - 1 /\ global_iteration[s] \in Nat
        BY <1>1, <4>1 DEF Done, TypeInv
      <4>4. Done(s) = Done(r)
        BY <3>1
      <4> QED
        BY <1>8, <4>2, <4>3, <4>4
    <3>5. ~Begun(r)'
      BY <1>14 DEF Begun
    <3>6. BegunTogether'
      BY <1>11, <3>4, <3>5, NobodyBegins
    <3>7. Outvoted'
      BY <1>1, <1>11, <1>14, OutvotedStays
    <3>8. CreatedTogether'
      BY <1>1, <1>11, <1>18, CreatedStays
    <3> QED
      BY <3>3, <3>6, <3>7, <3>8
  <2> QED
    BY <2>1, <2>2
<1>20. Stored'
  <2>1. Given("-1") /\ Done(r)' = 0 => current_index'[r] = 0
    BY <1>1, <1>4, <1>14 DEF Stored
  <2> QED
    BY <1>2, <1>4, <1>5, <1>10, <1>11, <1>14, <2>1, StoredKeeps
<1>21. Storage'
  <2>1. ASSUME NEW m \in DSets
        PROVE  /\ Bottom(r, m)' = Bottom(r, m) /\ Top(r, m)' = Top(r, m)
               /\ Exists(r, m)' = Exists(r, m)
    <3>1. Taken(r, m)' = Taken(r, m) /\ Put(r, m)' = Put(r, m)
      BY <1>4, <1>8, <1>14 DEF Taken, Put, Progress
    <3>2. Exists(r, m)' = Exists(r, m)
      BY <1>2, <1>4, <1>5, <1>7, <1>8, <1>10, <1>13 DEF Exists, Created, Removed
    <3> QED
      BY <1>8, <1>14, <3>1, <3>2 DEF Bottom, Top
  <2>2. PrefixIs'
    BY <1>1, <1>2, <1>4, <1>5, <1>10, <1>11, PrefixStays DEF Storage
  <2> QED
    BY <1>1, <1>2, <1>4, <1>5, <1>10, <1>11, <2>1, <2>2, StorageStays
<1> QED
  BY <1>11, <1>12, <1>15, <1>19, <1>20, <1>21, StepKeeps

\* Iterate: the next iteration starts, with its barrier, or there is none.
LEMMA IterateKeeps ==
    ASSUME Inv, NEW r \in Ranks, Iterate(r)
    PROVE  Inv'
<1>1. /\ TypeInv /\ Stored /\ Storage /\ CreatedTogether /\ BegunTogether /\ Together /\ Outvoted
      /\ \A s \in Ranks : Local(s)
  BY DEF Inv
<1>2. at[r] = "next" /\ Local(r)
  BY <1>1 DEF Iterate, At
<1>3. /\ plan' = plan /\ run' = run
      /\ UNCHANGED <<phase, d, current_index, err>>
      /\ UNCHANGED <<prefix, dirs, objects, complete, status>>
      /\ stonewall_iterations' = [stonewall_iterations EXCEPT ![r] = 0]
  BY DEF Iterate, storage
<1>4. /\ ~InBenchmark(r) /\ ~Ahead(r) /\ Done(r) = global_iteration[r] /\ ~Early(r) /\ d[r] = 0
      /\ Done(r) \in Nat /\ Count(r) \in Nat /\ global_iteration[r] <= Iterations
      /\ Count(r) = CallsBefore(Done(r)) /\ Settled(r)
      /\ CallsBefore(Done(r)) \in Nat
  <2>1. ~InBenchmark(r) /\ ~Early(r) /\ ~Ahead(r) /\ Settled(r)
    BY <1>2 DEF InBenchmark, Early, Ahead, Settled
  <2>2. Count(r) = Due(r) /\ global_iteration[r] <= Iterations
    BY <1>2 DEF Local, Where
  <2>3. d[r] = 0
    BY <1>2 DEF Local, Counters, InRound
  <2>4. Done(r) \in Nat /\ Count(r) \in Nat /\ Done(r) = global_iteration[r]
    BY <1>1, <1>2, <2>1, DoneIs
  <2>5. Due(r) = CallsBefore(Done(r))
    BY <1>2, <2>1 DEF Due
  <2>6. CallsBefore(Done(r)) \in Nat
    BY <1>1, <2>4, CallsGrow
  <2> QED
    BY <2>1, <2>2, <2>3, <2>4, <2>5, <2>6
<1>5. /\ \A o : Given(o)' = Given(o)
      /\ \A g : CallsBefore(g)' = CallsBefore(g)
      /\ Iterations' = Iterations /\ Iterations \in Nat
      /\ plan.num \in Nat \ {0} /\ plan.stonewall \in BOOLEAN /\ plan.dset_count \in Nat \ {0}
  BY <1>1, <1>3, SameRun, PlanIs
<1>6. stonewall_iterations' \in [Ranks -> Nat] /\ stonewall_iterations'[r] = 0
      /\ \A s \in Ranks \ {r} : stonewall_iterations'[s] = stonewall_iterations[s]
  BY <1>1, <1>3 DEF TypeInv
<1>7. CASE Given("-2") /\ global_iteration[r] < plan.iterations
  <2>1. /\ global_iteration' = [global_iteration EXCEPT ![r] = global_iteration[r] + 1]
        /\ f' = [f EXCEPT ![r] = 0]
        /\ total_num' = [total_num EXCEPT ![r] = plan.num]
        /\ armed_stone_wall' = [armed_stone_wall EXCEPT ![r] = plan.stonewall]
        /\ Send(r, "Barrier", 0)
        /\ at' = [at EXCEPT ![r] = "stat"]
    BY <1>7 DEF Iterate, GoTo, Call
  <2>2. /\ calls' \in CallsIn(Nat) /\ Count(r)' \in Nat /\ Count(r)' >= Count(r)
        /\ Count(r)' = Count(r) + 1
        /\ calls'[r][Count(r)'].op = "Barrier"
        /\ \A s \in Ranks \ {r} : calls'[s] = calls[s]
        /\ \A k \in 1..Count(r) : calls'[r][k] = calls[r][k]
    <3>1. "Barrier" \in Collectives
      BY DEF Collectives, Synchronizing
    <3> QED
      BY <1>1, <2>1, <3>1, Called
  <2>3. /\ at' \in [Ranks -> Places] /\ at'[r] = "stat"
        /\ \A s \in Ranks \ {r} : at'[s] = at[s]
    BY <1>1, <2>1 DEF TypeInv, Places
  <2>4. /\ global_iteration' \in [Ranks -> Nat] /\ global_iteration'[r] = Done(r) + 1
        /\ \A s \in Ranks \ {r} : global_iteration'[s] = global_iteration[s]
        /\ f' \in [Ranks -> Nat] /\ f'[r] = 0
        /\ \A s \in Ranks \ {r} : f'[s] = f[s]
    BY <1>1, <1>4, <2>1 DEF TypeInv
  <2>5. /\ total_num' \in [Ranks -> Nat] /\ total_num'[r] = plan.num
        /\ \A s \in Ranks \ {r} : total_num'[s] = total_num[s]
        /\ armed_stone_wall' \in [Ranks -> BOOLEAN] /\ armed_stone_wall'[r] = plan.stonewall
        /\ \A s \in Ranks \ {r} : armed_stone_wall'[s] = armed_stone_wall[s]
    BY <1>1, <1>5, <2>1 DEF TypeInv
  <2>6. Alone(r)
    BY <1>3, <1>6, <2>2, <2>3, <2>4, <2>5 DEF Alone, Same
  <2>7. TypeInv'
    BY <1>1, <1>3, <1>6, <2>2, <2>3, <2>4, <2>5 DEF TypeInv, DSets
  <2>8. InBenchmark(r)' /\ ~Ahead(r)' /\ Done(r)' = Done(r) /\ ~Early(r)' /\ ~Voted(r)' /\ ~Begun(r)'
    <3>1. InBenchmark(r)' /\ ~Ahead(r)' /\ ~Early(r)'
      BY <2>3 DEF InBenchmark, Ahead, Early
    <3>2. Done(r)' = Done(r)
      BY <1>4, <2>4, <3>1 DEF Done
    <3>3. ~Voted(r)'
      BY <1>3, <2>3, <2>5 DEF Voted
    <3>4. ~Begun(r)'
      BY <1>3, <1>4, <2>3, <2>4 DEF Begun
    <3> QED
      BY <3>1, <3>2, <3>3, <3>4
  <2>9. Local(r)'
    <3>1. Due(r)' = Count(r)'
      <4>1. CallsBefore(Done(r))' = CallsBefore(Done(r))
        BY <1>5, <2>8
      <4> QED
        BY <1>4, <2>2, <2>3, <2>8, <4>1 DEF Due
    <3>2. Where(r)'
      <4>1. Done(r) + 1 \in 1..Iterations
        BY <1>4, <1>5, <1>7 DEF Iterations
      <4> QED
        BY <1>5, <2>3, <2>4, <2>8, <4>1 DEF Where
    <3>3. Counters(r)'
      <4>1. d'[r] = 0 /\ plan'.dset_count > 0 /\ plan'.num \in 1..plan'.num /\ 0 < plan'.num
        BY <1>3, <1>4, <1>5
      <4> QED
        BY <1>3, <1>6, <2>3, <2>4, <2>5, <2>8, <4>1 DEF Counters, InRound
    <3>4. LastOp(r)'
      BY <2>2, <2>3 DEF LastOp
    <3>5. Votes(r)'
      BY <2>3, <2>8 DEF Votes
    <3> QED
      BY <3>1, <3>2, <3>3, <3>4, <3>5 DEF Local
  <2>10. \A s \in Ranks : Position(s)' = Position(s)
    <3>1. Position(r)' = Position(r)
      BY <1>3, <1>4, <2>8 DEF Position
    <3> QED
      BY <1>3, <2>6, <3>1, PositionsStay
  <2>11. Outvoted'
    <3>1. ~armed_stone_wall'[r] => Rounds(total_num[r], global_iteration[r])'
      BY <1>3, <1>5, <2>5 DEF Rounds
    <3> QED
      BY <1>1, <2>6, <3>1, OutvotedStays
  <2>12. Together'
    BY <1>1, <1>4, <2>6, <2>8, <2>10, TogetherStays
  <2>13. BegunTogether'
    BY <1>1, <1>4, <2>6, <2>8, NobodyHasBegun, NobodyBegins
  <2>14. CreatedTogether'
    <3>1. Created(r)'
      BY <2>3 DEF Created
    <3> QED
      BY <1>1, <1>4, <2>6, <3>1, CreatedStays
  <2>15. Stored'
    <3>1. Given("-1") /\ Done(r)' = 0 => current_index'[r] = 0
      BY <1>1, <1>3, <2>8 DEF Stored
    <3> QED
      BY <1>2, <1>3, <2>3, <2>6, <2>8, <3>1, StoredKeeps
  <2>16. Storage'
    <3>1. ASSUME NEW n \in DSets
          PROVE  /\ Bottom(r, n)' = Bottom(r, n) /\ Top(r, n)' = Top(r, n)
                 /\ Exists(r, n)' = Exists(r, n)
      <4>1. n \in Nat /\ d'[r] = 0 /\ current_index[r] \in Nat /\ current_index'[r] = current_index[r]
        BY <1>1, <1>3, <1>4, DSetsAre DEF TypeInv
      <4>2. Taken(r, n)' = current_index[r]
        BY <1>5, <2>3, <2>4, <2>8, <4>1 DEF Taken, Progress, RoundPart
      <4>3. Put(r, n)' = current_index[r]
        BY <1>5, <2>3, <2>4, <2>8, <4>1 DEF Put, Progress, RoundPart
      <4>4. Taken(r, n) = current_index[r] /\ Put(r, n) = current_index[r]
        BY <1>4 DEF Taken, Put, Progress
      <4>5. Exists(r, n)' = Exists(r, n)
        BY <1>2, <1>5, <2>3 DEF Exists, Created, Removed
      <4> QED
        BY <1>4, <2>8, <4>2, <4>3, <4>4, <4>5 DEF Bottom, Top
    <3>2. PrefixIs'
      BY <1>1, <1>2, <1>3, <2>3, <2>6, PrefixStays DEF Storage
    <3> QED
      BY <1>1, <1>2, <1>3, <2>3, <2>6, <3>1, <3>2, StorageStays
  <2> QED
    BY <2>6, <2>7, <2>9, <2>11, <2>12, <2>13, <2>14, <2>15, <2>16, StepKeeps
<1>8. CASE ~(Given("-2") /\ global_iteration[r] < plan.iterations)
  <2> DEFINE next == IF Given("-3") THEN "cleanup" ELSE "store"
  <2>1. /\ UNCHANGED <<calls, global_iteration, f, total_num, armed_stone_wall>>
        /\ at' = [at EXCEPT ![r] = next]
    BY <1>8 DEF Iterate, GoTo
  <2>2. next \in {"cleanup", "store"} /\ (next = "cleanup" <=> Given("-3"))
    OBVIOUS
  <2> HIDE DEF next
  <2>3. /\ calls' \in CallsIn(Nat) /\ Count(r)' \in Nat /\ Count(r)' >= Count(r)
        /\ Count(r)' = Count(r)
        /\ \A s \in Ranks : calls'[s] = calls[s]
    BY <1>1, <2>1, NotCalled
  <2>4. /\ at' \in [Ranks -> Places] /\ at'[r] = next
        /\ \A s \in Ranks \ {r} : at'[s] = at[s]
    BY <1>1, <2>1, <2>2 DEF TypeInv, Places
  <2>5. Alone(r)
    BY <1>3, <1>6, <2>1, <2>3, <2>4 DEF Alone, Same
  <2>6. TypeInv'
    BY <1>1, <1>3, <1>6, <2>1, <2>3, <2>4 DEF TypeInv, DSets
  <2>7. ~InBenchmark(r)' /\ ~Ahead(r)' /\ Done(r)' = Done(r) /\ ~Early(r)'
    BY <1>4, <2>1, <2>2, <2>4 DEF InBenchmark, Ahead, Early, Done
  <2>8. Local(r)'
    <3>1. Due(r)' = Count(r)'
      <4>1. CallsBefore(Done(r))' = CallsBefore(Done(r))
        BY <1>5, <2>7
      <4> QED
        BY <1>4, <2>2, <2>3, <2>4, <2>7, <4>1 DEF Due
    <3>2. Where(r)'
      <4>1. global_iteration[r] = Iterations
        BY <1>4, <1>5, <1>8, <1>1, PlanIs DEF Iterations
      <4> QED
        BY <1>5, <2>1, <2>2, <2>4, <2>7, <4>1 DEF Where
    <3>3. Counters(r)'
      <4>1. d'[r] = 0 /\ plan'.dset_count > 0
        BY <1>3, <1>4, <1>5
      <4> QED
        BY <1>6, <2>2, <2>4, <2>7, <4>1 DEF Counters, InRound
    <3>4. LastOp(r)'
      BY <2>2, <2>4, <2>7 DEF LastOp
    <3>5. Votes(r)'
      BY <2>2, <2>4, <2>7 DEF Votes
    <3> QED
      BY <3>1, <3>2, <3>3, <3>4, <3>5 DEF Local
  <2>9. \A s \in Ranks : Position(s)' = Position(s)
    <3>1. Position(r)' = Position(r)
      BY <1>3, <1>4, <2>7 DEF Position
    <3> QED
      BY <1>3, <2>5, <3>1, PositionsStay
  <2>10. Outvoted' /\ Together' /\ BegunTogether' /\ CreatedTogether'
    <3>1. Created(r)'
      BY <2>2, <2>4 DEF Created
    <3> QED
      BY <1>4, <2>5, <2>7, <2>9, <3>1, OutsideKeeps
  <2>11. Stored'
    <3>1. Given("-1") /\ Done(r)' = 0 => current_index'[r] = 0
      BY <1>1, <1>3, <2>7 DEF Stored
    <3> QED
      BY <1>2, <1>3, <2>2, <2>4, <2>5, <2>7, <3>1, StoredKeeps
  <2>12. Storage'
    <3>1. ASSUME NEW n \in DSets
          PROVE  /\ Bottom(r, n)' = Bottom(r, n) /\ Top(r, n)' = Top(r, n)
                 /\ Exists(r, n)' = Exists(r, n)
      <4>1. n \in Nat /\ d'[r] = 0 /\ current_index'[r] = current_index[r]
        BY <1>1, <1>3, <1>4, DSetsAre
      <4>2. Taken(r, n)' = Taken(r, n) /\ Put(r, n)' = Put(r, n)
        BY <1>4, <2>7, <4>1 DEF Taken, Put, Progress
      <4>3. Exists(r, n)' = Exists(r, n)
        BY <1>2, <1>5, <2>2, <2>4, <4>1 DEF Exists, Created, Removed
      <4> QED
        BY <1>4, <2>7, <4>2, <4>3 DEF Bottom, Top
    <3>2. PrefixIs'
      BY <1>1, <1>2, <1>3, <2>2, <2>4, <2>5, PrefixStays DEF Storage
    <3> QED
      BY <1>1, <1>2, <1>3, <2>2, <2>4, <2>5, <3>1, <3>2, StorageStays
  <2> QED
    BY <2>5, <2>6, <2>8, <2>10, <2>11, <2>12, StepKeeps
<1> QED
  BY <1>7, <1>8

----------------------------------------------------------------------------
(* The steps within an iteration.                                          *)

\* Ranks that work in the same iteration started it from the same index.
LEMMA SameIndex ==
    ASSUME Together, NEW r \in Ranks, AllIn(r), InBenchmark(r), NEW s \in Ranks, InBenchmark(s)
    PROVE  current_index[s] = current_index[r]
<1>1. ~Ahead(r) /\ ~Ahead(s) /\ ~Early(r) /\ ~Early(s)
  BY DEF InBenchmark, Ahead, Early
<1>2. Position(s) = Position(r)
  BY <1>1 DEF Together, Follows
<1> QED
  BY <1>1, <1>2 DEF Position

\* A step that calls nothing and ends no round early.
LEMMA QuietInside ==
    ASSUME Inv, NEW r \in Ranks, Alone(r), InBenchmark(r), AllIn(r), InBenchmark(r)', TypeInv',
           status' = status, UNCHANGED calls,
           global_iteration'[r] = global_iteration[r], current_index'[r] = current_index[r],
           armed_stone_wall'[r] = armed_stone_wall[r], total_num'[r] = total_num[r],
           at[r] \notin {"wearout", "agreed"}, at'[r] \notin {"wearout", "agreed"}, Counters(r)'
    PROVE  /\ Local(r)'
           /\ Outvoted' /\ Together' /\ BegunTogether' /\ CreatedTogether'
           /\ Stored'
<1>1. /\ TypeInv /\ Stored /\ Outvoted /\ Local(r)
  BY DEF Inv
<1>2. /\ \A o : Given(o)' = Given(o)
      /\ \A g : CallsBefore(g)' = CallsBefore(g)
      /\ \A g : VoteNumber(g)' = VoteNumber(g)
      /\ Iterations' = Iterations
      /\ plan' = plan
  BY SameRun DEF Alone
<1>3. /\ Done(r)' = Done(r) /\ ~Ahead(r) /\ ~Ahead(r)' /\ ~Early(r) /\ ~Early(r)'
      /\ (Voted(r)' <=> Voted(r)) /\ Count(r)' = Count(r)
  <2>1. ~Ahead(r) /\ ~Ahead(r)' /\ ~Early(r) /\ ~Early(r)'
    BY DEF InBenchmark, Ahead, Early
  <2>2. Done(r)' = Done(r)
    BY DEF Done
  <2>3. Voted(r)' <=> Voted(r)
    BY <1>2 DEF Voted
  <2>4. Count(r)' = Count(r)
    BY DEF Count
  <2> QED
    BY <2>1, <2>2, <2>3, <2>4
<1>4. at[r] \notin {"start", "begin", "precreate", "position", "reduce", "next", "cleanup", "rmdir", "store", "finished"}
      /\ at'[r] \notin {"start", "begin", "precreate", "position", "reduce", "next", "cleanup", "rmdir", "store", "finished"}
  BY DEF InBenchmark
<1>5. Local(r)'
  <2>1. Due(r)' = Due(r)
    <3>1. CallsBefore(Done(r))' = CallsBefore(Done(r))
      BY <1>2, <1>3
    <3> QED
      BY <1>3, <1>4, <3>1 DEF Due
  <2>2. Where(r)'
    BY <1>1, <1>2, <1>3, <1>4 DEF Local, Where
  <2>3. LastOp(r)'
    BY <1>1, <1>3, <1>4 DEF Local, LastOp
  <2>4. Votes(r)'
    <3>1. plan.stonewall /\ Voted(r) => Vote(r, global_iteration[r]) \in 1..plan.num
      BY <1>1 DEF Local, Votes
    <3>2. Vote(r, global_iteration[r])' = Vote(r, global_iteration[r])
      BY <1>2 DEF Vote
    <3> QED
      BY <1>2, <1>3, <3>1, <3>2 DEF Votes
  <2> QED
    BY <1>1, <1>3, <2>1, <2>2, <2>3, <2>4 DEF Local
<1>6. (~armed_stone_wall[r] /\ at[r] # "wearout")' => Rounds(total_num[r], global_iteration[r])'
  <2> SUFFICES ASSUME ~armed_stone_wall'[r]
               PROVE  Rounds(total_num[r], global_iteration[r])'
    OBVIOUS
  <2>1. Rounds(total_num[r], global_iteration[r])
    BY <1>1 DEF Outvoted
  <2>2. PICK v \in Nat, g \in Nat \ {0} : v = total_num[r] /\ g = global_iteration[r]
    <3>1. total_num[r] \in Nat /\ global_iteration[r] = Done(r) + 1 /\ Done(r) \in Nat
      BY <1>1, DoneIs DEF TypeInv
    <3> QED
      BY <3>1
  <2>3. Rounds(v, g)'
    BY <1>1, <2>1, <2>2, RoundsStay
  <2>4. v = total_num'[r] /\ g = global_iteration'[r]
    BY <2>2
  <2> QED
    BY <2>3, <2>4
<1>7. Outvoted' /\ Together' /\ BegunTogether' /\ CreatedTogether'
  BY <1>6, InsideKeeps
<1>8. Stored'
  <2>1. Given("-1") /\ Done(r)' = 0 => current_index'[r] = 0
    BY <1>1, <1>3 DEF Stored
  <2> QED
    BY <1>3, <1>4, <2>1, StoredKeeps
<1> QED
  BY <1>5, <1>7, <1>8

\* The object a rank looks for is there, and nobody is writing it.
LEMMA OldIsThere ==
    ASSUME Inv, NEW r \in Ranks, at[r] \in {"stat", "read"}, AllIn(r)
    PROVE  Old(r) \in objects /\ Old(r) \in complete
<1>1. /\ TypeInv /\ Storage /\ Together /\ Local(r) /\ \A s \in Ranks : Local(s)
  BY DEF Inv
<1>2. InBenchmark(r) /\ InRound(r) /\ ~Early(r)
  BY DEF InBenchmark, InRound, Early
<1>3. /\ d[r] \in DSets /\ d[r] \in Nat /\ f[r] \in Nat /\ current_index[r] \in Nat
      /\ f[r] < plan.num /\ plan.num <= precreate /\ plan.num \in Nat /\ precreate \in Nat
  <2>1. d[r] \in Nat /\ f[r] \in Nat /\ current_index[r] \in Nat /\ total_num[r] \in Nat
    BY <1>1 DEF TypeInv
  <2>2. d[r] < plan.dset_count /\ total_num[r] \in 1..plan.num /\ f[r] < total_num[r]
    BY <1>1, <1>2 DEF Local, Counters
  <2>3. plan.num \in Nat /\ plan.num <= precreate /\ precreate \in Nat
    BY <1>1, PlanIs
  <2>4. d[r] \in DSets
    BY <1>1, <2>1, <2>2, DSetsAre
  <2> QED
    BY <2>1, <2>2, <2>3, <2>4
<1>4. PICK q \in Ranks : q = ReadRank(r, d[r]) /\ WriteRank(q, d[r]) = r /\ ReadRank(q, d[r]) \in Ranks
  BY <1>1, <1>3, OneReaderOneWriter
<1>5. PICK i \in Nat : i = current_index[r] + f[r]
  BY <1>3
<1>6. Bottom(r, d[r]) <= i
  <2>1. RoundPart(r, d[r], {"create", "write"}) = 0
    BY <1>3 DEF RoundPart
  <2>2. Taken(r, d[r]) <= i
    BY <1>3, <1>5, <2>1 DEF Taken, Progress
  <2> QED
    BY <1>2, <2>2 DEF Bottom
<1>7. i < Top(ReadRank(q, d[r]), d[r]) /\ Exists(q, d[r])
  <2>1. Top(ReadRank(q, d[r]), d[r]) >= precreate + current_index[r]
    BY <1>1, <1>2, <1>3, <1>4, WindowBounds
  <2>2. PICK t \in Ranks : t = ReadRank(q, d[r])
    BY <1>4
  <2>3. Top(t, d[r]) \in Nat
    BY <1>1, <1>3, WindowIs
  <2>4. Exists(q, d[r])
    BY <1>1, <1>2, <1>3, <1>4, WindowBounds
  <2> QED
    BY <1>3, <1>5, <2>1, <2>2, <2>3, <2>4
<1>8. Old(r) = <<q, d[r], i>>
  BY <1>4, <1>5 DEF Old
<1>9. Old(r) \in objects
  BY <1>1, <1>3, <1>4, <1>6, <1>7, <1>8 DEF Storage, InWindow
<1>10. Old(r) \notin Unfinished
  <2> SUFFICES ASSUME NEW w \in Ranks, at[w] = "write", New(w) = Old(r)
               PROVE  FALSE
    BY DEF Unfinished
  <2>1. precreate + current_index[w] + f[w] = current_index[r] + f[r]
    BY DEF New, Old
  <2>2. InBenchmark(w)
    BY DEF InBenchmark
  <2>3. current_index[w] = current_index[r]
    BY <1>1, <1>2, <2>2, SameIndex
  <2>4. f[w] \in Nat
    BY <1>1 DEF TypeInv
  <2> QED
    BY <1>3, <2>1, <2>3, <2>4
<1> QED
  BY <1>1, <1>9, <1>10 DEF Storage

\* The next data set, or the end of the round.
LEMMA NextSetIs ==
    ASSUME TypeInv, NEW r \in Ranks, Local(r), InRound(r), NextSet(r), plan' = plan
    PROVE  /\ at' \in [Ranks -> Places] /\ d' \in [Ranks -> Nat]
           /\ \A s \in Ranks \ {r} : at'[s] = at[s] /\ d'[s] = d[s]
           /\ \/ at'[r] = "stat" /\ d'[r] = d[r] + 1 /\ d'[r] < plan.dset_count
              \/ at'[r] = "roundEnd" /\ d'[r] = 0 /\ d[r] + 1 = plan.dset_count
           /\ d[r] < plan.dset_count /\ d[r] \in Nat /\ plan.dset_count \in Nat \ {0}
<1>1. d[r] < plan.dset_count /\ plan.dset_count \in Nat \ {0} /\ d[r] \in Nat
  <2>1. Counters(r) /\ d[r] \in Nat
    BY DEF Local, TypeInv
  <2> QED
    BY <2>1, PlanIs DEF Counters
<1>2. at \in [Ranks -> Places] /\ d \in [Ranks -> Nat]
  BY DEF TypeInv
<1>3. CASE d[r] + 1 < plan.dset_count
  <2>1. d' = [d EXCEPT ![r] = d[r] + 1] /\ at' = [at EXCEPT ![r] = "stat"]
    BY <1>3 DEF NextSet, GoTo
  <2> QED
    BY <1>1, <1>2, <1>3, <2>1 DEF Places
<1>4. CASE ~(d[r] + 1 < plan.dset_count)
  <2>1. d' = [d EXCEPT ![r] = 0] /\ at' = [at EXCEPT ![r] = "roundEnd"]
    BY <1>4 DEF NextSet, GoTo
  <2>2. d[r] + 1 = plan.dset_count
    BY <1>1, <1>4
  <2> QED
    BY <1>1, <1>2, <2>1, <2>2 DEF Places
<1> QED
  BY <1>3, <1>4

\* What holds of a rank that goes on in an iteration.
LEMMA InsideIs ==
    ASSUME Inv, NEW r \in Ranks, InBenchmark(r), Ready(r)
    PROVE  /\ TypeInv /\ Stored /\ Storage /\ Together /\ Outvoted /\ Local(r)
           /\ \A s \in Ranks : Local(s)
           /\ AllIn(r) /\ \A s \in Ranks : ~Early(s)
           /\ at[r] \notin {"start", "begin", "precreate", "position", "reduce", "next",
                            "cleanup", "rmdir", "store", "finished"}
<1>1. /\ TypeInv /\ Stored /\ Storage /\ Together /\ Outvoted /\ Local(r)
      /\ \A s \in Ranks : Local(s)
  BY DEF Inv
<1>2. AllIn(r)
  BY <1>1, AllAreIn
<1>3. \A s \in Ranks : ~Early(s)
  BY <1>2 DEF AllIn, InBenchmark, Ahead, Early
<1> QED
  BY <1>1, <1>2, <1>3 DEF InBenchmark

\* Stat: the object is there, so the rank reads it.
LEMMA StatKeeps ==
    ASSUME Inv, NEW r \in Ranks, Stat(r)
    PROVE  Inv'
<1>1. at[r] = "stat" /\ Ready(r) /\ InBenchmark(r)
  BY DEF Stat, At, InBenchmark
<1>2. /\ TypeInv /\ Storage /\ AllIn(r) /\ Local(r) /\ \A s \in Ranks : ~Early(s)
  BY <1>1, InsideIs
<1>3. Old(r) \in objects
  BY <1>1, <1>2, OldIsThere
<1>4. /\ plan' = plan /\ run' = run /\ UNCHANGED calls
      /\ UNCHANGED <<phase, global_iteration, f, d, total_num, armed_stone_wall,
                     stonewall_iterations, current_index, err>>
      /\ UNCHANGED <<prefix, dirs, objects, complete, status>>
      /\ at' = [at EXCEPT ![r] = "read"]
  BY <1>3 DEF Stat, GoTo, storage
<1>5. /\ at' \in [Ranks -> Places] /\ at'[r] = "read"
      /\ \A s \in Ranks \ {r} : at'[s] = at[s]
  BY <1>2, <1>4 DEF TypeInv, Places
<1>6. Alone(r)
  BY <1>2, <1>4, <1>5, NotCalled DEF Alone, Same
<1>7. TypeInv'
  BY <1>2, <1>4, <1>5 DEF TypeInv, DSets
<1>8. InBenchmark(r)' /\ ~Early(r)' /\ \A o : Given(o)' = Given(o)
  BY <1>4, <1>5, SameRun DEF InBenchmark, Early
<1>9. Counters(r)'
  <2>1. Counters(r)
    BY <1>2 DEF Local
  <2> QED
    BY <1>1, <1>4, <1>5, <1>8, <2>1 DEF Counters, InRound
<1>10. Local(r)' /\ Outvoted' /\ Together' /\ BegunTogether' /\ CreatedTogether' /\ Stored'
  BY <1>1, <1>2, <1>4, <1>5, <1>6, <1>7, <1>8, <1>9, QuietInside
<1>11. Storage'
  <2>1. ASSUME NEW n \in DSets
        PROVE  /\ Bottom(r, n)' = Bottom(r, n) /\ Top(r, n)' = Top(r, n)
               /\ Exists(r, n)' = Exists(r, n)
    <3>1. Taken(r, n)' = Taken(r, n) /\ Put(r, n)' = Put(r, n)
      BY <1>1, <1>4, <1>5, <1>8 DEF Taken, Put, Progress, RoundPart
    <3>2. Exists(r, n)' = Exists(r, n)
      BY <1>1, <1>5, <1>8 DEF Exists, Created, Removed
    <3> QED
      BY <1>2, <1>8, <3>1, <3>2 DEF Bottom, Top
  <2>2. PrefixIs'
    BY <1>1, <1>2, <1>4, <1>5, <1>6, PrefixStays DEF Storage
  <2> QED
    BY <1>1, <1>2, <1>4, <1>5, <1>6, <2>1, <2>2, StorageStays
<1> QED
  BY <1>6, <1>7, <1>10, <1>11, StepKeeps

\* Read: the object is there, and written in full.
LEMMA ReadKeeps ==
    ASSUME Inv, NEW r \in Ranks, Read(r)
    PROVE  Inv'
<1>1. at[r] = "read" /\ Ready(r) /\ InBenchmark(r) /\ InRound(r)
  BY DEF Read, At, InBenchmark, InRound
<1>2. /\ TypeInv /\ Storage /\ AllIn(r) /\ Local(r) /\ \A s \in Ranks : ~Early(s)
  BY <1>1, InsideIs
<1>3. Old(r) \in objects /\ Old(r) \in complete
  BY <1>1, <1>2, OldIsThere
<1>4. /\ plan' = plan /\ run' = run /\ UNCHANGED calls
      /\ UNCHANGED <<phase, global_iteration, f, total_num, armed_stone_wall,
                     stonewall_iterations, current_index>>
      /\ UNCHANGED <<prefix, dirs, objects, complete, status>>
      /\ err' = [err EXCEPT ![r] = err[r]]
      /\ IF Given("--read-only") THEN NextSet(r)
         ELSE at' = [at EXCEPT ![r] = "remove"] /\ UNCHANGED d
  BY <1>3 DEF Read, GoTo, storage
<1>5. err' = err
  BY <1>2, <1>4 DEF TypeInv
<1>6. /\ at' \in [Ranks -> Places] /\ d' \in [Ranks -> Nat]
      /\ \A s \in Ranks \ {r} : at'[s] = at[s] /\ d'[s] = d[s]
      /\ at'[r] \in {"remove", "stat", "roundEnd"}
      /\ Given("--read-only") => at'[r] # "remove" /\ NextSet(r)
      /\ ~Given("--read-only") => at'[r] = "remove" /\ d' = d
  <2>1. CASE Given("--read-only")
    BY <1>1, <1>2, <1>4, <2>1, NextSetIs
  <2>2. CASE ~Given("--read-only")
    BY <1>2, <1>4, <2>2 DEF TypeInv, Places
  <2> QED
    BY <2>1, <2>2
<1>7. Alone(r)
  BY <1>2, <1>4, <1>6, NotCalled DEF Alone, Same
<1>8. TypeInv'
  BY <1>2, <1>4, <1>5, <1>6 DEF TypeInv, DSets
<1>9. InBenchmark(r)' /\ ~Early(r)' /\ \A o : Given(o)' = Given(o)
  BY <1>4, <1>6, SameRun DEF InBenchmark, Early
<1>10. Counters(r)'
  <2>1. Counters(r)
    BY <1>2 DEF Local
  <2>2. IF InRound(r)' THEN d'[r] < plan.dset_count ELSE d'[r] = 0
    <3>1. CASE Given("--read-only")
      BY <1>1, <1>2, <1>4, <1>6, <3>1, NextSetIs DEF InRound
    <3>2. CASE ~Given("--read-only")
      BY <1>1, <1>6, <2>1, <3>2 DEF Counters, InRound
    <3> QED
      BY <3>1, <3>2
  <2> QED
    BY <1>1, <1>4, <1>6, <1>9, <2>1, <2>2 DEF Counters
<1>11. Local(r)' /\ Outvoted' /\ Together' /\ BegunTogether' /\ CreatedTogether' /\ Stored'
  BY <1>1, <1>2, <1>4, <1>6, <1>7, <1>8, <1>9, <1>10, QuietInside
<1>12. Storage'
  <2>1. ASSUME NEW n \in DSets
        PROVE  /\ Bottom(r, n)' = Bottom(r, n) /\ Top(r, n)' = Top(r, n)
               /\ Exists(r, n)' = Exists(r, n)
    <3>1. Taken(r, n)' = Taken(r, n) /\ Put(r, n)' = Put(r, n)
      <4>1. CASE Given("--read-only")
        BY <1>4, <1>9, <4>1 DEF Taken, Put, Progress
      <4>2. CASE ~Given("--read-only")
        BY <1>1, <1>4, <1>6, <1>9, <4>2 DEF Taken, Put, Progress, RoundPart
      <4> QED
        BY <4>1, <4>2
    <3>2. Exists(r, n)' = Exists(r, n)
      BY <1>1, <1>6, <1>9 DEF Exists, Created, Removed
    <3> QED
      BY <1>2, <1>9, <3>1, <3>2 DEF Bottom, Top
  <2>2. PrefixIs'
    BY <1>1, <1>2, <1>4, <1>6, <1>7, PrefixStays DEF Storage
  <2> QED
    BY <1>1, <1>2, <1>4, <1>6, <1>7, <2>1, <2>2, StorageStays
<1> QED
  BY <1>7, <1>8, <1>11, <1>12, StepKeeps

\* Where the rank is in its data sets, and which objects it works on.
LEMMA InRoundIs ==
    ASSUME TypeInv, NEW r \in Ranks, Local(r), InRound(r)
    PROVE  /\ d[r] \in DSets /\ d[r] \in Nat /\ f[r] \in Nat /\ current_index[r] \in Nat
           /\ f[r] < plan.num /\ precreate \in Nat
           /\ ReadRank(r, d[r]) \in Ranks /\ WriteRank(r, d[r]) \in Ranks
           /\ Old(r) = <<ReadRank(r, d[r]), d[r], current_index[r] + f[r]>>
           /\ New(r) = <<WriteRank(r, d[r]), d[r], precreate + current_index[r] + f[r]>>
           /\ precreate + current_index[r] + f[r] \in Nat
<1>1. InBenchmark(r)
  BY DEF InRound, InBenchmark
<1>2. d[r] \in Nat /\ f[r] \in Nat /\ current_index[r] \in Nat /\ total_num[r] \in Nat
  BY DEF TypeInv
<1>3. d[r] < plan.dset_count /\ total_num[r] \in 1..plan.num /\ f[r] < total_num[r]
  BY <1>1 DEF Local, Counters, InRound
<1>4. plan.num \in Nat /\ precreate \in Nat
  BY PlanIs
<1>5. d[r] \in DSets
  BY <1>2, <1>3, DSetsAre
<1> QED
  BY <1>2, <1>3, <1>4, <1>5, OneReaderOneWriter DEF Old, New

\* Remove: the bottom of the window goes up, and its lowest object goes.
LEMMA RemoveKeeps ==
    ASSUME Inv, NEW r \in Ranks, Remove(r)
    PROVE  Inv'
<1>1. at[r] = "remove" /\ Ready(r) /\ InBenchmark(r) /\ InRound(r)
  BY DEF Remove, At, InBenchmark, InRound
<1>2. /\ TypeInv /\ Storage /\ AllIn(r) /\ Local(r) /\ \A s \in Ranks : ~Early(s)
  BY <1>1, InsideIs
<1>3. /\ plan' = plan /\ run' = run /\ UNCHANGED calls
      /\ UNCHANGED <<phase, global_iteration, f, d, total_num, armed_stone_wall,
                     stonewall_iterations, current_index, err>>
      /\ UNCHANGED <<prefix, dirs, status>>
      /\ objects' = objects \ {Old(r)}
      /\ complete' = complete \ {Old(r)}
      /\ at' = [at EXCEPT ![r] = "create"]
  BY DEF Remove, GoTo, private, counters
<1>4. /\ at' \in [Ranks -> Places] /\ at'[r] = "create"
      /\ \A s \in Ranks \ {r} : at'[s] = at[s]
  BY <1>2, <1>3 DEF TypeInv, Places
<1>5. Alone(r)
  BY <1>2, <1>3, <1>4, NotCalled DEF Alone, Same
<1>6. TypeInv'
  BY <1>2, <1>3, <1>4 DEF TypeInv, DSets
<1>7. InBenchmark(r)' /\ ~Early(r)' /\ \A o : Given(o)' = Given(o)
  BY <1>3, <1>4, SameRun DEF InBenchmark, Early
<1>8. ~Given("--read-only") /\ Counters(r)'
  <2>1. Counters(r)
    BY <1>2 DEF Local
  <2>2. ~Given("--read-only")
    BY <1>1, <2>1 DEF Counters
  <2> QED
    BY <1>1, <1>3, <1>4, <1>7, <2>1, <2>2 DEF Counters, InRound
<1>9. Local(r)' /\ Outvoted' /\ Together' /\ BegunTogether' /\ CreatedTogether' /\ Stored'
  BY <1>1, <1>2, <1>3, <1>4, <1>5, <1>6, <1>7, <1>8, QuietInside
<1>10. PICK k \in DSets, i0 \in Nat, q0 \in Ranks :
          /\ k = d[r] /\ i0 = current_index[r] + f[r] /\ q0 = ReadRank(r, k)
          /\ Old(r) = <<q0, k, i0>> /\ k \in Nat
  <2>1. /\ d[r] \in DSets /\ d[r] \in Nat /\ current_index[r] + f[r] \in Nat
        /\ ReadRank(r, d[r]) \in Ranks
        /\ Old(r) = <<ReadRank(r, d[r]), d[r], current_index[r] + f[r]>>
    BY <1>1, <1>2, InRoundIs
  <2> QED
    BY <2>1
<1>11. /\ Bottom(r, k) = i0 /\ Bottom(r, k)' = i0 + 1
       /\ \A n \in DSets : n # k => Bottom(r, n)' = Bottom(r, n)
       /\ \A n \in DSets : Top(r, n)' = Top(r, n) /\ Exists(r, n)' = Exists(r, n)
  <2>1. Taken(r, k) = i0 /\ Taken(r, k)' = i0 + 1
    BY <1>1, <1>3, <1>4, <1>7, <1>8, <1>10 DEF Taken, Progress, RoundPart
  <2>2. ASSUME NEW n \in DSets, n # k PROVE Taken(r, n)' = Taken(r, n)
    BY <1>1, <1>3, <1>4, <1>7, <1>8, <1>10, <2>2 DEF Taken, Progress, RoundPart
  <2>3. ASSUME NEW n \in DSets PROVE Put(r, n)' = Put(r, n)
    BY <1>1, <1>3, <1>4, <1>7, <1>8, <1>10 DEF Put, Progress, RoundPart
  <2>4. \A n \in DSets : Exists(r, n)' = Exists(r, n)
    BY <1>1, <1>4, <1>7 DEF Exists, Created, Removed
  <2> QED
    BY <1>2, <1>7, <2>1, <2>2, <2>3, <2>4 DEF Bottom, Top
<1>12. ASSUME NEW q \in Ranks, NEW n \in DSets, NEW i \in Nat
       PROVE  InWindow(q, n, i)' <=> InWindow(q, n, i) /\ ~(q = q0 /\ n = k /\ i = i0)
  <2>1. ReadRank(q, n) \in Ranks /\ WriteRank(q, n) \in Ranks
    BY <1>2, OneReaderOneWriter
  <2>2. PICK a \in Ranks, b \in Ranks : a = ReadRank(q, n) /\ b = WriteRank(q, n)
    BY <2>1
  <2>3. a = ReadRank(q, n)' /\ b = WriteRank(q, n)'
    BY <2>2 DEF ReadRank, WriteRank
  <2>4. /\ \A s \in Ranks \ {r} : Bottom(s, n)' = Bottom(s, n) /\ Top(s, n)' = Top(s, n)
        /\ \A s \in Ranks \ {r} : Exists(s, n)' = Exists(s, n)
    BY <1>3, <1>5, SameWindow DEF Alone
  <2>5. Top(a, n)' = Top(a, n) /\ Exists(q, n)' = Exists(q, n)
    BY <1>11, <2>4
  <2>6. b = r <=> q = ReadRank(r, n)
    <3>1. WriteRank(ReadRank(r, n), n) = r /\ ReadRank(WriteRank(q, n), n) = q
      BY <1>2, OneReaderOneWriter
    <3> QED
      BY <2>2, <3>1
  <2>7. CASE b = r /\ n = k
    <3>1. q = q0
      BY <1>10, <2>6, <2>7
    <3>2. Bottom(b, n) = i0 /\ Bottom(b, n)' = i0 + 1
      BY <1>11, <2>7
    <3> QED
      BY <2>2, <2>3, <2>5, <2>7, <3>1, <3>2 DEF InWindow
  <2>8. CASE ~(b = r /\ n = k)
    <3>1. ~(q = q0 /\ n = k)
      BY <1>10, <2>6, <2>8
    <3>2. Bottom(b, n)' = Bottom(b, n)
      BY <1>11, <2>4, <2>8
    <3> QED
      BY <2>2, <2>3, <2>5, <3>1, <3>2 DEF InWindow
  <2> QED
    BY <2>7, <2>8
<1>13. Storage'
  <2>1. \A q \in Ranks, n \in DSets : Exists(q, n)' = Exists(q, n)
    BY <1>3, <1>5, <1>11, SameWindow DEF Alone
  <2>2. \A q \in Ranks, n \in DSets : <<q, n>> \in dirs' <=> Exists(q, n)'
    BY <1>2, <1>3, <2>1 DEF Storage
  <2>3. ASSUME NEW q \in Ranks, NEW n \in DSets, NEW i \in Nat
        PROVE  <<q, n, i>> \in objects' <=> InWindow(q, n, i)'
    <3>1. <<q, n, i>> \in objects <=> InWindow(q, n, i)
      BY <1>2 DEF Storage
    <3>2. <<q, n, i>> \in objects' <=> <<q, n, i>> \in objects /\ ~(q = q0 /\ n = k /\ i = i0)
      BY <1>3, <1>10
    <3> QED
      BY <1>12, <3>1, <3>2
  <2>4. complete' = objects' \ Unfinished'
    <3>1. Unfinished' = Unfinished
      BY <1>1, <1>4, <1>5, UnfinishedStays
    <3>2. complete = objects \ Unfinished
      BY <1>2 DEF Storage
    <3> QED
      BY <1>3, <3>1, <3>2
  <2>5. PrefixIs'
    BY <1>1, <1>2, <1>3, <1>4, <1>5, PrefixStays DEF Storage
  <2>6. DSets' = DSets
    BY <1>3, SameRun
  <2> QED
    BY <2>2, <2>3, <2>4, <2>5, <2>6 DEF Storage
<1> QED
  BY <1>5, <1>6, <1>9, <1>13, StepKeeps

\* Create: the top of the window goes up, and a new object appears there.
LEMMA CreateKeeps ==
    ASSUME Inv, NEW r \in Ranks, Create(r)
    PROVE  Inv'
<1>1. at[r] = "create" /\ Ready(r) /\ InBenchmark(r) /\ InRound(r)
  BY DEF Create, At, InBenchmark, InRound
<1>2. /\ TypeInv /\ Storage /\ AllIn(r) /\ Local(r) /\ Together /\ \A s \in Ranks : ~Early(s)
      /\ \A s \in Ranks : Local(s)
  BY <1>1, InsideIs
<1>3. PICK k \in DSets, i0 \in Nat, q0 \in Ranks :
          /\ k = d[r] /\ i0 = precreate + current_index[r] + f[r] /\ q0 = WriteRank(r, k)
          /\ New(r) = <<q0, k, i0>> /\ k \in Nat
  <2>1. /\ d[r] \in DSets /\ d[r] \in Nat /\ precreate + current_index[r] + f[r] \in Nat
        /\ WriteRank(r, d[r]) \in Ranks
        /\ New(r) = <<WriteRank(r, d[r]), d[r], precreate + current_index[r] + f[r]>>
    BY <1>1, <1>2, InRoundIs
  <2> QED
    BY <2>1
<1>4. <<WriteRank(r, d[r]), d[r]>> \in dirs
  <2>1. Exists(q0, k)
    BY <1>1, <1>2, <1>3, WindowBounds
  <2> QED
    BY <1>2, <1>3, <2>1 DEF Storage
<1>5. /\ plan' = plan /\ run' = run /\ UNCHANGED calls
      /\ UNCHANGED <<phase, global_iteration, f, d, total_num, armed_stone_wall,
                     stonewall_iterations, current_index, err>>
      /\ UNCHANGED <<prefix, dirs, complete, status>>
      /\ objects' = objects \cup {New(r)}
      /\ at' = [at EXCEPT ![r] = "write"]
  BY <1>4 DEF Create, GoTo, private, counters
<1>6. /\ at' \in [Ranks -> Places] /\ at'[r] = "write"
      /\ \A s \in Ranks \ {r} : at'[s] = at[s]
  BY <1>2, <1>5 DEF TypeInv, Places
<1>7. Alone(r)
  BY <1>2, <1>5, <1>6, NotCalled DEF Alone, Same
<1>8. TypeInv'
  <2>1. objects' \subseteq Ranks \X DSets \X Nat
    BY <1>2, <1>3, <1>5 DEF TypeInv
  <2> QED
    BY <1>2, <1>5, <1>6, <2>1 DEF TypeInv, DSets
<1>9. InBenchmark(r)' /\ ~Early(r)' /\ \A o : Given(o)' = Given(o)
  BY <1>5, <1>6, SameRun DEF InBenchmark, Early
<1>10. ~Given("--read-only") /\ Counters(r)'
  <2>1. Counters(r)
    BY <1>2 DEF Local
  <2>2. ~Given("--read-only")
    BY <1>1, <2>1 DEF Counters
  <2> QED
    BY <1>1, <1>5, <1>6, <1>9, <2>1, <2>2 DEF Counters, InRound
<1>11. Local(r)' /\ Outvoted' /\ Together' /\ BegunTogether' /\ CreatedTogether' /\ Stored'
  BY <1>1, <1>2, <1>5, <1>6, <1>7, <1>8, <1>9, <1>10, QuietInside
<1>12. /\ Top(r, k) = i0 /\ Top(r, k)' = i0 + 1
       /\ \A n \in DSets : n # k => Top(r, n)' = Top(r, n)
       /\ \A n \in DSets : Bottom(r, n)' = Bottom(r, n) /\ Exists(r, n)' = Exists(r, n)
  <2>1. Put(r, k) = current_index[r] + f[r] /\ Put(r, k)' = current_index[r] + f[r] + 1
    <3>1. current_index[r] + f[r] \in Nat
      BY <1>2 DEF TypeInv
    <3>2. Put(r, k) = current_index[r] + f[r] + 0
      BY <1>1, <1>3, <1>10 DEF Put, Progress, RoundPart
    <3>3. Put(r, k)' = current_index[r] + f[r] + 1
      BY <1>3, <1>5, <1>6, <1>9, <1>10 DEF Put, Progress, RoundPart
    <3> QED
      BY <3>1, <3>2, <3>3
  <2>2. ASSUME NEW n \in DSets, n # k PROVE Put(r, n)' = Put(r, n)
    BY <1>1, <1>3, <1>5, <1>6, <1>9, <1>10, <2>2 DEF Put, Progress, RoundPart
  <2>3. ASSUME NEW n \in DSets PROVE Taken(r, n)' = Taken(r, n)
    BY <1>1, <1>3, <1>5, <1>6, <1>9, <1>10 DEF Taken, Progress, RoundPart
  <2>4. \A n \in DSets : Exists(r, n)' = Exists(r, n)
    BY <1>1, <1>6, <1>9 DEF Exists, Created, Removed
  <2>5. Top(r, k) = i0 /\ Top(r, k)' = i0 + 1
    <3>1. /\ current_index[r] \in Nat /\ f[r] \in Nat /\ precreate \in Nat
      BY <1>2, PlanIs DEF TypeInv
    <3>2. Top(r, k) = precreate + Put(r, k) /\ Top(r, k)' = precreate + Put(r, k)'
      BY <1>2, <1>9 DEF Top
    <3> QED
      BY <1>3, <2>1, <3>1, <3>2
  <2>6. \A n \in DSets : n # k => Top(r, n)' = Top(r, n)
    BY <1>2, <1>9, <2>2 DEF Top
  <2>7. \A n \in DSets : Bottom(r, n)' = Bottom(r, n)
    BY <1>2, <1>9, <2>3 DEF Bottom
  <2> QED
    BY <2>4, <2>5, <2>6, <2>7
<1>13. ASSUME NEW q \in Ranks, NEW n \in DSets, NEW i \in Nat
       PROVE  /\ InWindow(q, n, i)' <=> InWindow(q, n, i) \/ (q = q0 /\ n = k /\ i = i0)
              /\ q = q0 /\ n = k /\ i = i0 => ~InWindow(q, n, i)
  <2>1. ReadRank(q, n) \in Ranks /\ WriteRank(q, n) \in Ranks
    BY <1>2, OneReaderOneWriter
  <2>2. PICK a \in Ranks, b \in Ranks : a = ReadRank(q, n) /\ b = WriteRank(q, n)
    BY <2>1
  <2>3. a = ReadRank(q, n)' /\ b = WriteRank(q, n)'
    BY <2>2 DEF ReadRank, WriteRank
  <2>4. /\ \A s \in Ranks \ {r} : Bottom(s, n)' = Bottom(s, n) /\ Top(s, n)' = Top(s, n)
        /\ \A s \in Ranks \ {r} : Exists(s, n)' = Exists(s, n)
    BY <1>5, <1>7, SameWindow DEF Alone
  <2>5. Bottom(b, n)' = Bottom(b, n) /\ Exists(q, n)' = Exists(q, n)
    BY <1>12, <2>4
  <2>6. a = r <=> q = WriteRank(r, n)
    <3>1. ReadRank(WriteRank(r, n), n) = r /\ WriteRank(ReadRank(q, n), n) = q
      BY <1>2, OneReaderOneWriter
    <3> QED
      BY <2>2, <3>1
  <2>7. CASE a = r /\ n = k
    <3>1. q = q0
      BY <1>3, <2>6, <2>7
    <3>2. Top(a, n) = i0 /\ Top(a, n)' = i0 + 1
      BY <1>12, <2>7
    <3>3. n \in Nat
      BY <1>2, DSetsAre
    <3>4. Bottom(b, n) <= precreate + current_index[r] /\ Exists(q, n) /\ Bottom(b, n) \in Nat
      BY <1>1, <1>2, <3>3, WindowBounds, WindowIs
    <3>5. Bottom(b, n) <= i0
      <4>1. current_index[r] \in Nat /\ f[r] \in Nat /\ precreate \in Nat
        BY <1>2, PlanIs DEF TypeInv
      <4> QED
        BY <1>3, <3>4, <4>1
    <3> QED
      BY <2>2, <2>3, <2>5, <2>7, <3>1, <3>2, <3>4, <3>5 DEF InWindow
  <2>8. CASE ~(a = r /\ n = k)
    <3>1. ~(q = q0 /\ n = k)
      BY <1>3, <2>6, <2>8
    <3>2. Top(a, n)' = Top(a, n)
      BY <1>12, <2>4, <2>8
    <3> QED
      BY <2>2, <2>3, <2>5, <3>1, <3>2 DEF InWindow
  <2> QED
    BY <2>7, <2>8
<1>14. Storage'
  <2>1. \A q \in Ranks, n \in DSets : Exists(q, n)' = Exists(q, n)
    BY <1>5, <1>7, <1>12, SameWindow DEF Alone
  <2>2. \A q \in Ranks, n \in DSets : <<q, n>> \in dirs' <=> Exists(q, n)'
    BY <1>2, <1>5, <2>1 DEF Storage
  <2>3. ASSUME NEW q \in Ranks, NEW n \in DSets, NEW i \in Nat
        PROVE  <<q, n, i>> \in objects' <=> InWindow(q, n, i)'
    <3>1. <<q, n, i>> \in objects <=> InWindow(q, n, i)
      BY <1>2 DEF Storage
    <3>2. <<q, n, i>> \in objects' <=> <<q, n, i>> \in objects \/ (q = q0 /\ n = k /\ i = i0)
      BY <1>3, <1>5
    <3> QED
      BY <1>13, <3>1, <3>2
  <2>4. complete' = objects' \ Unfinished'
    <3>1. Unfinished' = Unfinished \cup {New(r)}
      <4>1. New(r)' = New(r)
        BY <1>5 DEF New, WriteRank
      <4>2. \A s \in Ranks \ {r} : New(s)' = New(s)
        BY <1>5, <1>7, SameWindow DEF Alone
      <4> QED
        BY <1>1, <1>6, <4>1, <4>2 DEF Unfinished
    <3>2. complete = objects \ Unfinished
      BY <1>2 DEF Storage
    <3>3. New(r) \notin objects
      BY <1>2, <1>3, <1>13 DEF Storage
    <3> QED
      BY <1>5, <3>1, <3>2, <3>3
  <2>5. PrefixIs'
    BY <1>1, <1>2, <1>5, <1>6, <1>7, PrefixStays DEF Storage
  <2>6. DSets' = DSets
    BY <1>5, SameRun
  <2> QED
    BY <2>2, <2>3, <2>4, <2>5, <2>6 DEF Storage
<1> QED
  BY <1>7, <1>8, <1>11, <1>14, StepKeeps

\* Write: the new object is there in full, and the next data set follows.
LEMMA WriteKeeps ==
    ASSUME Inv, NEW r \in Ranks, Write(r)
    PROVE  Inv'
<1>1. at[r] = "write" /\ Ready(r) /\ InBenchmark(r) /\ InRound(r)
  BY DEF Write, At, InBenchmark, InRound
<1>2. /\ TypeInv /\ Storage /\ AllIn(r) /\ Local(r) /\ Together /\ \A s \in Ranks : ~Early(s)
      /\ \A s \in Ranks : Local(s)
  BY <1>1, InsideIs
<1>3. /\ plan' = plan /\ run' = run /\ UNCHANGED calls
      /\ UNCHANGED <<phase, global_iteration, f, total_num, armed_stone_wall,
                     stonewall_iterations, current_index, err>>
      /\ UNCHANGED <<prefix, dirs, objects, status>>
      /\ complete' = complete \cup ({New(r)} \cap objects)
      /\ NextSet(r)
  BY DEF Write
<1>4. /\ at' \in [Ranks -> Places] /\ d' \in [Ranks -> Nat]
      /\ \A s \in Ranks \ {r} : at'[s] = at[s] /\ d'[s] = d[s]
      /\ \/ at'[r] = "stat" /\ d'[r] = d[r] + 1 /\ d'[r] < plan.dset_count
         \/ at'[r] = "roundEnd" /\ d'[r] = 0 /\ d[r] + 1 = plan.dset_count
      /\ d[r] < plan.dset_count /\ d[r] \in Nat /\ plan.dset_count \in Nat \ {0}
  BY <1>1, <1>2, <1>3, NextSetIs
<1>5. Alone(r)
  BY <1>2, <1>3, <1>4, NotCalled DEF Alone, Same
<1>6. TypeInv'
  BY <1>2, <1>3, <1>4 DEF TypeInv, DSets
<1>7. InBenchmark(r)' /\ ~Early(r)' /\ \A o : Given(o)' = Given(o)
  BY <1>3, <1>4, SameRun DEF InBenchmark, Early
<1>8. ~Given("--read-only") /\ Counters(r)'
  <2>1. Counters(r)
    BY <1>2 DEF Local
  <2>2. ~Given("--read-only")
    BY <1>1, <2>1 DEF Counters
  <2> QED
    BY <1>1, <1>3, <1>4, <1>7, <2>1, <2>2 DEF Counters, InRound
<1>9. Local(r)' /\ Outvoted' /\ Together' /\ BegunTogether' /\ CreatedTogether' /\ Stored'
  BY <1>1, <1>2, <1>3, <1>4, <1>5, <1>6, <1>7, <1>8, QuietInside
<1>10. ASSUME NEW n \in DSets
       PROVE  /\ Bottom(r, n)' = Bottom(r, n) /\ Top(r, n)' = Top(r, n)
              /\ Exists(r, n)' = Exists(r, n)
  <2>1. n \in Nat /\ n < plan.dset_count
    BY <1>2, DSetsAre
  <2>2. Taken(r, n)' = Taken(r, n)
    BY <1>1, <1>3, <1>4, <1>7, <1>8, <2>1 DEF Taken, Progress, RoundPart
  <2>3. Put(r, n)' = Put(r, n)
    BY <1>1, <1>3, <1>4, <1>7, <1>8, <2>1 DEF Put, Progress, RoundPart
  <2>4. Exists(r, n)' = Exists(r, n)
    BY <1>1, <1>4, <1>7 DEF Exists, Created, Removed
  <2> QED
    BY <1>2, <1>7, <2>2, <2>3, <2>4 DEF Bottom, Top
<1>11. complete' = objects' \ Unfinished'
  <2>1. \A s \in Ranks \ {r} : New(s)' = New(s)
    BY <1>3, <1>5, SameWindow DEF Alone
  <2>2. Unfinished' = {New(s) : s \in {t \in Ranks \ {r} : at[t] = "write"}}
    BY <1>4, <2>1 DEF Unfinished
  <2>3. Unfinished = {New(s) : s \in {t \in Ranks \ {r} : at[t] = "write"}} \cup {New(r)}
    BY <1>1 DEF Unfinished
  <2>4. ASSUME NEW s \in Ranks \ {r}, at[s] = "write", New(s) = New(r)
        PROVE  FALSE
    <3>1. /\ d[r] \in DSets
          /\ New(r) = <<WriteRank(r, d[r]), d[r], precreate + current_index[r] + f[r]>>
      BY <1>1, <1>2, InRoundIs
    <3>2. New(s) = <<WriteRank(s, d[s]), d[s], precreate + current_index[s] + f[s]>>
      BY DEF New
    <3>3. d[s] = d[r] /\ WriteRank(s, d[s]) = WriteRank(r, d[r])
      BY <2>4, <3>1, <3>2
    <3>4. ReadRank(WriteRank(s, d[r]), d[r]) = s /\ ReadRank(WriteRank(r, d[r]), d[r]) = r
      BY <1>2, <3>1, OneReaderOneWriter
    <3> QED
      BY <3>3, <3>4
  <2>5. New(r) \notin Unfinished'
    BY <2>2, <2>4
  <2>6. complete = objects \ Unfinished
    BY <1>2 DEF Storage
  <2>7. Unfinished = Unfinished' \cup {New(r)}
    BY <2>2, <2>3
  <2> QED
    BY <1>3, <2>5, <2>6, <2>7
<1>12. Storage'
  <2>1. \A q \in Ranks, n \in DSets, i \in Nat : InWindow(q, n, i)' <=> InWindow(q, n, i)
    <3>1. /\ \A q \in Ranks, n \in DSets, i \in Nat :
                 InWindow(q, n, i)' <=> /\ Exists(q, n)'
                                        /\ Bottom(WriteRank(q, n), n) <= i
                                        /\ i < Top(ReadRank(q, n), n)
          /\ \A q \in Ranks, n \in DSets : Exists(q, n)' = Exists(q, n)
      BY <1>2, <1>3, <1>5, <1>10, WindowsStay
    <3> QED
      BY <3>1 DEF InWindow
  <2>2. \A q \in Ranks, n \in DSets : Exists(q, n)' = Exists(q, n)
    BY <1>2, <1>3, <1>5, <1>10, WindowsStay
  <2>3. \A q \in Ranks, n \in DSets : <<q, n>> \in dirs' <=> Exists(q, n)'
    BY <1>2, <1>3, <2>2 DEF Storage
  <2>4. ASSUME NEW q \in Ranks, NEW n \in DSets, NEW i \in Nat
        PROVE  <<q, n, i>> \in objects' <=> InWindow(q, n, i)'
    <3>1. <<q, n, i>> \in objects <=> InWindow(q, n, i)
      BY <1>2 DEF Storage
    <3> QED
      BY <1>3, <2>1, <3>1
  <2>5. PrefixIs'
    BY <1>1, <1>2, <1>3, <1>4, <1>5, PrefixStays DEF Storage
  <2>6. DSets' = DSets
    BY <1>3, SameRun
  <2> QED
    BY <1>11, <2>3, <2>4, <2>5, <2>6 DEF Storage
<1> QED
  BY <1>5, <1>6, <1>9, <1>12, StepKeeps

\* Between two rounds a rank has taken and put one object more in each data
\* set, whether the round is counted yet or not.
LEMMA RoundCounted ==
    ASSUME TypeInv, NEW r \in Ranks, at[r] \in {"roundEnd", "wearout"}, plan' = plan, run' = run,
           at'[r] \in {"stat", "roundsDone"}, f'[r] = f[r] + 1, d'[r] = 0, d[r] = 0,
           current_index'[r] = current_index[r]
    PROVE  \A n \in DSets : /\ Bottom(r, n)' = Bottom(r, n) /\ Top(r, n)' = Top(r, n)
                            /\ Exists(r, n)' = Exists(r, n)
<1>1. \A o : Given(o)' = Given(o)
  BY SameRun
<1>2. InBenchmark(r) /\ InBenchmark(r)' /\ ~Early(r) /\ ~Early(r)'
  BY DEF InBenchmark, Early
<1>3. current_index[r] \in Nat /\ f[r] \in Nat
  BY DEF TypeInv
<1> SUFFICES ASSUME NEW n \in DSets
             PROVE  /\ Bottom(r, n)' = Bottom(r, n) /\ Top(r, n)' = Top(r, n)
                    /\ Exists(r, n)' = Exists(r, n)
  OBVIOUS
<1>4. n \in Nat /\ ~(n < 0)
  BY DSetsAre
<1>5. Taken(r, n)' = Taken(r, n)
  <2>1. RoundPart(r, n, {"create", "write"}) = 1
    BY DEF RoundPart
  <2>2. RoundPart(r, n, {"create", "write"})' = 0
    BY <1>4 DEF RoundPart
  <2> QED
    BY <1>1, <1>2, <1>3, <2>1, <2>2 DEF Taken, Progress
<1>6. Put(r, n)' = Put(r, n)
  <2>1. RoundPart(r, n, {"write"}) = 1
    BY DEF RoundPart
  <2>2. RoundPart(r, n, {"write"})' = 0
    BY <1>4 DEF RoundPart
  <2> QED
    BY <1>1, <1>2, <1>3, <2>1, <2>2 DEF Put, Progress
<1>7. Exists(r, n)' = Exists(r, n)
  BY <1>1 DEF Exists, Created, Removed
<1> QED
  BY <1>2, <1>5, <1>6, <1>7 DEF Bottom, Top

\* RoundEnd: the next round, or the end of the rounds.
LEMMA RoundEndKeeps ==
    ASSUME Inv, NEW r \in Ranks, RoundEnd(r)
    PROVE  Inv'
<1>1. at[r] = "roundEnd" /\ Ready(r) /\ InBenchmark(r)
  BY DEF RoundEnd, At, InBenchmark
<1>2. /\ TypeInv /\ Storage /\ AllIn(r) /\ Local(r) /\ \A s \in Ranks : ~Early(s)
  BY <1>1, InsideIs
<1> DEFINE next == IF f[r] + 1 < total_num[r] THEN "stat" ELSE "roundsDone"
<1>3. /\ plan' = plan /\ run' = run /\ UNCHANGED calls
      /\ UNCHANGED <<phase, global_iteration, d, total_num, armed_stone_wall,
                     stonewall_iterations, current_index, err>>
      /\ UNCHANGED <<prefix, dirs, objects, complete, status>>
      /\ f' = [f EXCEPT ![r] = f[r] + 1]
      /\ at' = [at EXCEPT ![r] = next]
  BY DEF RoundEnd, GoOn, GoTo, storage
<1>4. next \in {"stat", "roundsDone"} /\ (next = "stat" <=> f[r] + 1 < total_num[r])
  OBVIOUS
<1> HIDE DEF next
<1>5. /\ at' \in [Ranks -> Places] /\ at'[r] = next
      /\ \A s \in Ranks \ {r} : at'[s] = at[s]
      /\ f' \in [Ranks -> Nat] /\ f'[r] = f[r] + 1
      /\ \A s \in Ranks \ {r} : f'[s] = f[s]
  BY <1>2, <1>3, <1>4 DEF TypeInv, Places
<1>6. Alone(r)
  BY <1>2, <1>3, <1>5, NotCalled DEF Alone, Same
<1>7. TypeInv'
  BY <1>2, <1>3, <1>5 DEF TypeInv, DSets
<1>8. InBenchmark(r)' /\ ~Early(r)' /\ \A o : Given(o)' = Given(o)
  BY <1>3, <1>4, <1>5, SameRun DEF InBenchmark, Early
<1>9. d[r] = 0 /\ Counters(r)'
  <2>1. Counters(r)
    BY <1>2 DEF Local
  <2>2. d[r] = 0 /\ f[r] < total_num[r] /\ f[r] \in Nat /\ total_num[r] \in Nat
    BY <1>1, <1>2, <2>1 DEF Counters, InRound, TypeInv
  <2>3. next = "roundsDone" => f[r] + 1 = total_num[r]
    BY <1>4, <2>2
  <2>4. 0 < plan.dset_count
    BY <1>2, PlanIs
  <2>5. CASE next = "stat"
    BY <1>1, <1>3, <1>4, <1>5, <1>8, <2>1, <2>2, <2>4, <2>5 DEF Counters, InRound
  <2>6. CASE next = "roundsDone"
    BY <1>1, <1>3, <1>4, <1>5, <1>8, <2>1, <2>2, <2>3, <2>6 DEF Counters, InRound
  <2> QED
    BY <1>4, <2>2, <2>5, <2>6
<1>10. Local(r)' /\ Outvoted' /\ Together' /\ BegunTogether' /\ CreatedTogether' /\ Stored'
  BY <1>1, <1>2, <1>3, <1>4, <1>5, <1>6, <1>7, <1>8, <1>9, QuietInside
<1>11. Storage'
  <2>1. \A n \in DSets : /\ Bottom(r, n)' = Bottom(r, n) /\ Top(r, n)' = Top(r, n)
                         /\ Exists(r, n)' = Exists(r, n)
    BY <1>1, <1>2, <1>3, <1>4, <1>5, <1>9, RoundCounted
  <2>2. PrefixIs'
    BY <1>1, <1>2, <1>3, <1>4, <1>5, <1>6, PrefixStays DEF Storage
  <2> QED
    BY <1>1, <1>2, <1>3, <1>4, <1>5, <1>6, <2>1, <2>2, StorageStays
<1> QED
  BY <1>6, <1>7, <1>10, <1>11, StepKeeps

\* StoneWall: the rank whose time is over tells how many rounds it has done.
LEMMA StoneWallKeeps ==
    ASSUME Inv, Careful, NEW r \in Ranks, StoneWall(r)
    PROVE  Inv'
<1>1. at[r] = "roundEnd" /\ Ready(r) /\ InBenchmark(r) /\ armed_stone_wall[r]
  BY DEF StoneWall, At, InBenchmark
<1>2. /\ TypeInv /\ Storage /\ AllIn(r) /\ Local(r) /\ \A s \in Ranks : ~Early(s)
      /\ Stored
  BY <1>1, InsideIs
<1>3. /\ plan.stonewall /\ plan.wearOut /\ d[r] = 0 /\ total_num[r] = plan.num
      /\ f[r] < plan.num /\ f[r] \in Nat /\ f[r] + 1 \in 1..plan.num /\ f[r] + 1 \in Nat
  <2>1. Counters(r)
    BY <1>2 DEF Local
  <2>2. plan.stonewall /\ d[r] = 0 /\ total_num[r] = plan.num /\ f[r] < total_num[r]
    BY <1>1, <2>1 DEF Counters, InRound
  <2>3. f[r] \in Nat /\ plan.num \in Nat
    BY <1>2, PlanIs DEF TypeInv
  <2> QED
    BY <2>2, <2>3 DEF Careful
<1>4. /\ plan' = plan /\ run' = run
      /\ UNCHANGED <<phase, global_iteration, f, d, total_num,
                     stonewall_iterations, current_index, err>>
      /\ UNCHANGED <<prefix, dirs, objects, complete, status>>
      /\ armed_stone_wall' = [armed_stone_wall EXCEPT ![r] = FALSE]
      /\ Send(r, "Allreduce", f[r] + 1)
      /\ at' = [at EXCEPT ![r] = "wearout"]
  BY <1>3 DEF StoneWall, GoTo, storage
<1>5. /\ calls' \in CallsIn(Nat) /\ Count(r)' \in Nat /\ Count(r)' >= Count(r)
      /\ Count(r)' = Count(r) + 1 /\ Count(r) \in Nat
      /\ calls'[r][Count(r)'].op = "Allreduce" /\ calls'[r][Count(r)'].value = f[r] + 1
      /\ \A s \in Ranks \ {r} : calls'[s] = calls[s]
      /\ \A k \in 1..Count(r) : calls'[r][k] = calls[r][k]
  <2>1. "Allreduce" \in Collectives
    BY DEF Collectives, Synchronizing
  <2> QED
    BY <1>2, <1>3, <1>4, <2>1, Called
<1>6. /\ at' \in [Ranks -> Places] /\ at'[r] = "wearout"
      /\ \A s \in Ranks \ {r} : at'[s] = at[s]
      /\ armed_stone_wall' \in [Ranks -> BOOLEAN] /\ ~armed_stone_wall'[r]
      /\ \A s \in Ranks \ {r} : armed_stone_wall'[s] = armed_stone_wall[s]
  BY <1>2, <1>4 DEF TypeInv, Places
<1>7. Alone(r)
  BY <1>4, <1>5, <1>6 DEF Alone, Same
<1>8. TypeInv'
  BY <1>2, <1>4, <1>5, <1>6 DEF TypeInv, DSets
<1>9. /\ InBenchmark(r)' /\ ~Early(r)' /\ ~Ahead(r)' /\ Done(r)' = Done(r)
      /\ \A o : Given(o)' = Given(o)
      /\ \A g : CallsBefore(g)' = CallsBefore(g)
      /\ \A g : VoteNumber(g)' = VoteNumber(g)
      /\ Iterations' = Iterations
  <2>1. InBenchmark(r)' /\ ~Early(r)' /\ ~Ahead(r)'
    BY <1>6 DEF InBenchmark, Early, Ahead
  <2>2. Done(r)' = Done(r)
    BY <1>1, <1>4, <2>1 DEF Done
  <2> QED
    BY <1>4, <2>1, <2>2, SameRun
<1>10. /\ ~Voted(r) /\ Voted(r)' /\ Count(r) = CallsBefore(Done(r)) + 1
       /\ CallsBefore(Done(r)) \in Nat /\ global_iteration[r] = Done(r) + 1 /\ Done(r) \in Nat
  <2>1. ~Voted(r) /\ Voted(r)'
    BY <1>1, <1>3, <1>4, <1>6 DEF Voted
  <2>2. Count(r) = CallsBefore(Done(r)) + 1 + 0
    BY <1>1, <1>2, <2>1 DEF Local, Due
  <2>3. global_iteration[r] = Done(r) + 1 /\ Done(r) \in Nat
    BY <1>1, <1>2, DoneIs
  <2>4. CallsBefore(Done(r)) \in Nat
    BY <1>2, <2>3, CallsGrow
  <2> QED
    BY <2>1, <2>2, <2>3, <2>4
<1>11. Local(r)'
  <2>1. Due(r)' = Count(r)'
    <3>1. CallsBefore(Done(r))' = CallsBefore(Done(r))
      BY <1>9
    <3>2. Due(r)' = CallsBefore(Done(r)) + 1 + 1
      BY <1>6, <1>9, <1>10, <3>1 DEF Due
    <3> QED
      BY <1>5, <1>10, <3>2
  <2>2. Where(r)'
    BY <1>1, <1>2, <1>4, <1>6, <1>9 DEF Local, Where
  <2>3. Counters(r)'
    <3>1. Counters(r)
      BY <1>2 DEF Local
    <3> QED
      BY <1>1, <1>3, <1>4, <1>6, <1>9, <3>1 DEF Counters, InRound
  <2>4. LastOp(r)'
    BY <1>5, <1>6 DEF LastOp
  <2>5. Votes(r)'
    <3>1. VoteNumber(global_iteration[r])' = Count(r)'
      BY <1>4, <1>5, <1>9, <1>10 DEF VoteNumber
    <3>2. Vote(r, global_iteration[r])' = f[r] + 1
      BY <1>4, <1>5, <3>1 DEF Vote
    <3> QED
      BY <1>3, <1>4, <1>6, <3>2 DEF Votes
  <2> QED
    BY <2>1, <2>2, <2>3, <2>4, <2>5 DEF Local
<1>12. Outvoted' /\ Together' /\ BegunTogether' /\ CreatedTogether'
  BY <1>1, <1>2, <1>4, <1>6, <1>7, <1>9, InsideKeeps
<1>13. Stored'
  <2>1. Given("-1") /\ Done(r)' = 0 => current_index'[r] = 0
    BY <1>2, <1>4, <1>9 DEF Stored
  <2> QED
    BY <1>1, <1>4, <1>6, <1>7, <1>9, <2>1, StoredKeeps
<1>14. Storage'
  <2>1. ASSUME NEW n \in DSets
        PROVE  /\ Bottom(r, n)' = Bottom(r, n) /\ Top(r, n)' = Top(r, n)
               /\ Exists(r, n)' = Exists(r, n)
    <3>1. Taken(r, n)' = Taken(r, n) /\ Put(r, n)' = Put(r, n)
      BY <1>1, <1>4, <1>6, <1>9 DEF Taken, Put, Progress, RoundPart
    <3>2. Exists(r, n)' = Exists(r, n)
      BY <1>1, <1>6, <1>9 DEF Exists, Created, Removed
    <3> QED
      BY <1>2, <1>9, <3>1, <3>2 DEF Bottom, Top
  <2>2. PrefixIs'
    BY <1>1, <1>2, <1>4, <1>6, <1>7, PrefixStays DEF Storage
  <2> QED
    BY <1>1, <1>2, <1>4, <1>6, <1>7, <2>1, <2>2, StorageStays
<1> QED
  BY <1>7, <1>8, <1>11, <1>12, <1>13, <1>14, StepKeeps

\* The Allreduce of the wear-out returns the largest of what all have passed.
LEMMA ResultIs ==
    ASSUME TypeInv, \A s \in Ranks : Local(s), NEW r \in Ranks, InBenchmark(r), AllIn(r),
           Ready(r), Voted(r)
    PROVE  /\ MaxSent(r) \in 1..plan.num
           /\ IsResult(MaxSent(r), global_iteration[r])
           /\ Vote(r, global_iteration[r]) <= MaxSent(r)
           /\ Count(r) = VoteNumber(global_iteration[r])
<1>1. plan.stonewall
  BY DEF Voted
<1>2. Local(r)
  OBVIOUS
<1>3. PICK b \in Nat, e \in Nat, g \in Nat :
          /\ e = Done(r) /\ b = CallsBefore(Done(r)) /\ g = global_iteration[r] /\ g = e + 1
  <2>1. Done(r) \in Nat /\ global_iteration[r] = Done(r) + 1
    BY <1>2, DoneIs
  <2>2. CallsBefore(Done(r)) \in Nat
    BY <2>1, CallsGrow
  <2> QED
    BY <2>1, <2>2
<1>4. VoteNumber(g) = b + 2
  BY <1>3 DEF VoteNumber
<1>5. Count(r) = b + 2
  <2>1. at[r] \notin {"start", "begin", "precreate"}
    BY DEF InBenchmark
  <2>2. Due(r) = CallsBefore(Done(r)) + 1 + 1
    BY <2>1 DEF Due
  <2> QED
    BY <1>2, <1>3, <2>2 DEF Local
<1>6. ASSUME NEW s \in Ranks
      PROVE  Count(s) >= VoteNumber(g) /\ Vote(s, g) \in 1..plan.num
  <2>1. Local(s) /\ (InBenchmark(s) \/ Ahead(s)) /\ global_iteration[s] = g
    BY <1>3 DEF AllIn
  <2>2. Count(s) >= Count(r)
    <3>1. calls[r][Count(r)].op \in Synchronizing
      BY <1>2 DEF Local, LastOp, Synchronizing
    <3>2. Count(r) > 0
      BY <1>3, <1>5
    <3> QED
      BY <3>1, <3>2, ReadyMeans
  <2>3. CASE Ahead(s)
    <3>1. Vote(s, g) \in 1..plan.num
      BY <1>1, <2>1, <2>3 DEF Local, Votes
    <3> QED
      BY <1>4, <1>5, <2>2, <3>1
  <2>4. CASE InBenchmark(s)
    <3>1. Done(s) = Done(r)
      BY <2>1, <2>4, <1>3 DEF Done
    <3>2. at[s] \notin {"start", "begin", "precreate"}
      BY <2>4 DEF InBenchmark
    <3>3. Due(s) = b + 1 + (IF Voted(s) THEN 1 ELSE 0)
      BY <1>3, <2>4, <3>1, <3>2 DEF Due
    <3>4. Count(s) = Due(s) /\ Count(s) >= b + 2
      BY <1>5, <2>1, <2>2 DEF Local
    <3>5. Voted(s)
      BY <1>3, <3>3, <3>4
    <3>6. Vote(s, g) \in 1..plan.num
      BY <1>1, <2>1, <2>4, <3>5 DEF Local, Votes
    <3> QED
      BY <1>4, <1>5, <2>2, <3>6
  <2> QED
    BY <2>1, <2>3, <2>4
<1>7. \A s \in Ranks : Sent(s, r) = Vote(s, g)
  BY <1>4, <1>5 DEF Sent, Vote
<1>8. \A s \in Ranks : Vote(s, g) \in Nat
  BY <1>6
<1>9. /\ \E s \in Ranks : MaxSent(r) = Vote(s, g)
      /\ \A s \in Ranks : Vote(s, g) <= MaxSent(r)
  BY <1>7, <1>8, MaxIsLargest
<1> QED
  BY <1>3, <1>4, <1>5, <1>6, <1>9 DEF IsResult

\* WearOut: the rank goes on until it has done as many rounds as the rank that
\* had done most.
LEMMA WearOutKeeps ==
    ASSUME Inv, NEW r \in Ranks, WearOut(r)
    PROVE  Inv'
<1>1. at[r] = "wearout" /\ Ready(r) /\ InBenchmark(r)
  BY DEF WearOut, At, InBenchmark
<1>2. /\ TypeInv /\ Storage /\ AllIn(r) /\ Local(r) /\ \A s \in Ranks : ~Early(s)
      /\ Stored /\ \A s \in Ranks : Local(s)
  BY <1>1, InsideIs
<1>3. plan.stonewall /\ ~armed_stone_wall[r] /\ Voted(r) /\ d[r] = 0 /\ f[r] \in Nat
  <2>1. Counters(r)
    BY <1>2 DEF Local
  <2> QED
    BY <1>1, <1>2, <2>1 DEF Counters, InRound, Voted, TypeInv
<1>4. PICK m \in Nat, g \in Nat \ {0} :
          /\ m = MaxSent(r) /\ m \in 1..plan.num /\ f[r] + 1 <= m /\ g = global_iteration[r]
          /\ IsResult(m, g) /\ Vote(r, g) \in 1..plan.num
  <2>1. /\ MaxSent(r) \in 1..plan.num
        /\ IsResult(MaxSent(r), global_iteration[r])
        /\ Vote(r, global_iteration[r]) <= MaxSent(r)
    BY <1>1, <1>2, <1>3, ResultIs
  <2>2. /\ Vote(r, global_iteration[r]) = f[r] + 1
        /\ Vote(r, global_iteration[r]) \in 1..plan.num
    BY <1>1, <1>2, <1>3 DEF Local, Votes
  <2>3. global_iteration[r] \in Nat \ {0}
    BY <1>1, <1>2, DoneIs
  <2> QED
    BY <2>1, <2>2, <2>3
<1> DEFINE next == IF f[r] + 1 < m THEN "stat" ELSE "roundsDone"
<1>5. /\ plan' = plan /\ run' = run /\ UNCHANGED calls
      /\ UNCHANGED <<phase, global_iteration, d, armed_stone_wall, current_index, err>>
      /\ UNCHANGED <<prefix, dirs, objects, complete, status>>
      /\ total_num' = [total_num EXCEPT ![r] = m]
      /\ stonewall_iterations' = [stonewall_iterations EXCEPT ![r] = m]
      /\ f' = [f EXCEPT ![r] = f[r] + 1]
      /\ at' = [at EXCEPT ![r] = next]
  BY <1>4 DEF WearOut, GoOn, GoTo, storage
<1>6. next \in {"stat", "roundsDone"} /\ (next = "stat" <=> f[r] + 1 < m)
  OBVIOUS
<1> HIDE DEF next
<1>7. /\ at' \in [Ranks -> Places] /\ at'[r] = next
      /\ \A s \in Ranks \ {r} : at'[s] = at[s]
      /\ f' \in [Ranks -> Nat] /\ f'[r] = f[r] + 1
      /\ \A s \in Ranks \ {r} : f'[s] = f[s]
  BY <1>2, <1>3, <1>5, <1>6 DEF TypeInv, Places
<1>8. /\ total_num' \in [Ranks -> Nat] /\ total_num'[r] = m
      /\ \A s \in Ranks \ {r} : total_num'[s] = total_num[s]
      /\ stonewall_iterations' \in [Ranks -> Nat]
      /\ \A s \in Ranks \ {r} : stonewall_iterations'[s] = stonewall_iterations[s]
  BY <1>2, <1>4, <1>5 DEF TypeInv
<1>9. Alone(r)
  BY <1>2, <1>5, <1>7, <1>8, NotCalled DEF Alone, Same
<1>10. TypeInv'
  BY <1>2, <1>5, <1>7, <1>8 DEF TypeInv, DSets
<1>11. /\ InBenchmark(r)' /\ ~Early(r)' /\ ~Ahead(r)' /\ Done(r)' = Done(r) /\ Voted(r)'
       /\ \A o : Given(o)' = Given(o)
       /\ \A k : CallsBefore(k)' = CallsBefore(k)
       /\ \A k : VoteNumber(k)' = VoteNumber(k)
       /\ Iterations' = Iterations /\ Count(r)' = Count(r)
  <2>1. InBenchmark(r)' /\ ~Early(r)' /\ ~Ahead(r)'
    BY <1>6, <1>7 DEF InBenchmark, Early, Ahead
  <2>2. Done(r)' = Done(r)
    BY <1>1, <1>5, <2>1 DEF Done
  <2>3. Voted(r)' /\ Count(r)' = Count(r)
    BY <1>3, <1>5 DEF Voted, Count
  <2> QED
    BY <1>5, <2>1, <2>2, <2>3, SameRun
<1>12. Local(r)'
  <2>1. Due(r)' = Count(r)'
    <3>1. CallsBefore(Done(r))' = CallsBefore(Done(r))
      BY <1>11
    <3>2. Due(r) = CallsBefore(Done(r)) + 1 + 1
      BY <1>1, <1>3 DEF Due
    <3>3. Due(r)' = CallsBefore(Done(r)) + 1 + 1
      BY <1>6, <1>7, <1>11, <3>1 DEF Due
    <3> QED
      BY <1>2, <1>11, <3>2, <3>3 DEF Local
  <2>2. Where(r)'
    BY <1>1, <1>2, <1>5, <1>6, <1>7, <1>11 DEF Local, Where
  <2>3. Counters(r)'
    <3>1. next = "roundsDone" => f[r] + 1 = m
      BY <1>3, <1>4, <1>6
    <3>2. 0 < plan.dset_count
      BY <1>2, PlanIs
    <3>3. CASE next = "stat"
      BY <1>3, <1>4, <1>5, <1>6, <1>7, <1>8, <1>11, <3>2, <3>3 DEF Counters, InRound
    <3>4. CASE next = "roundsDone"
      BY <1>3, <1>4, <1>5, <1>6, <1>7, <1>8, <1>11, <3>1, <3>4 DEF Counters, InRound
    <3> QED
      BY <1>6, <3>3, <3>4
  <2>4. LastOp(r)'
    BY <1>1, <1>2, <1>5, <1>6, <1>7, <1>11 DEF Local, LastOp
  <2>5. Votes(r)'
    <3>1. Vote(r, global_iteration[r])' = Vote(r, g)
      BY <1>4, <1>5, <1>11 DEF Vote
    <3> QED
      BY <1>4, <1>5, <1>6, <1>7, <3>1 DEF Votes
  <2> QED
    BY <2>1, <2>2, <2>3, <2>4, <2>5 DEF Local
<1>13. Outvoted' /\ Together' /\ BegunTogether' /\ CreatedTogether'
  <2>1. Rounds(m, g)'
    <3>1. Rounds(m, g)
      BY <1>3, <1>4 DEF Rounds
    <3> QED
      BY <1>2, <1>9, <3>1, RoundsStay
  <2>2. Rounds(total_num[r], global_iteration[r])'
    BY <1>4, <1>5, <1>8, <2>1
  <2> QED
    BY <1>1, <1>2, <1>5, <1>9, <1>11, <2>2, InsideKeeps
<1>14. Stored'
  <2>1. Given("-1") /\ Done(r)' = 0 => current_index'[r] = 0
    BY <1>2, <1>5, <1>11 DEF Stored
  <2> QED
    BY <1>1, <1>5, <1>6, <1>7, <1>9, <1>11, <2>1, StoredKeeps
<1>15. Storage'
  <2>1. \A n \in DSets : /\ Bottom(r, n)' = Bottom(r, n) /\ Top(r, n)' = Top(r, n)
                         /\ Exists(r, n)' = Exists(r, n)
    BY <1>1, <1>2, <1>3, <1>5, <1>6, <1>7, RoundCounted
  <2>2. PrefixIs'
    BY <1>1, <1>2, <1>5, <1>6, <1>7, <1>9, PrefixStays DEF Storage
  <2> QED
    BY <1>1, <1>2, <1>5, <1>6, <1>7, <1>9, <2>1, <2>2, StorageStays
<1> QED
  BY <1>9, <1>10, <1>12, <1>13, <1>14, <1>15, StepKeeps

\* RoundsDone: who has not told its rounds in the Allreduce does it now.
LEMMA RoundsDoneKeeps ==
    ASSUME Inv, Careful, NEW r \in Ranks, RoundsDone(r)
    PROVE  Inv'
<1>1. at[r] = "roundsDone" /\ Ready(r) /\ InBenchmark(r)
  BY DEF RoundsDone, At, InBenchmark
<1>2. /\ TypeInv /\ Storage /\ AllIn(r) /\ Local(r) /\ \A s \in Ranks : ~Early(s)
      /\ Stored /\ Outvoted
  BY <1>1, InsideIs
<1>3. Counters(r) /\ Votes(r) /\ Where(r) /\ LastOp(r) /\ Count(r) = Due(r)
  BY <1>2 DEF Local
<1>4. /\ plan.num \in Nat /\ plan.stonewall \in BOOLEAN /\ plan.wearOut \in BOOLEAN
      /\ armed_stone_wall[r] \in BOOLEAN /\ total_num[r] \in 1..plan.num /\ d[r] = 0
      /\ armed_stone_wall[r] => plan.stonewall /\ plan.wearOut /\ total_num[r] = plan.num
  <2>1. plan.num \in Nat /\ plan.stonewall \in BOOLEAN /\ plan.wearOut \in BOOLEAN
    BY <1>2, PlanIs
  <2>2. armed_stone_wall[r] \in BOOLEAN
    BY <1>2 DEF TypeInv
  <2>3. total_num[r] \in 1..plan.num /\ d[r] = 0
    BY <1>1, <1>3 DEF Counters, InRound
  <2>4. armed_stone_wall[r] => plan.stonewall /\ total_num[r] = plan.num
    BY <1>1, <1>3 DEF Counters
  <2> QED
    BY <2>1, <2>2, <2>3, <2>4 DEF Careful
<1>5. /\ plan' = plan /\ run' = run
      /\ UNCHANGED <<phase, global_iteration, f, d, total_num, armed_stone_wall,
                     stonewall_iterations, current_index, err>>
      /\ UNCHANGED <<prefix, dirs, objects, complete, status>>
      /\ at' = [at EXCEPT ![r] = "agreed"]
      /\ IF armed_stone_wall[r] THEN Send(r, "Allreduce", plan.num) ELSE UNCHANGED calls
  <2>1. /\ plan' = plan /\ run' = run
        /\ UNCHANGED <<phase, global_iteration, f, d, total_num, armed_stone_wall,
                       stonewall_iterations, current_index, err>>
        /\ UNCHANGED <<prefix, dirs, objects, complete, status>>
        /\ at' = [at EXCEPT ![r] = "agreed"]
    BY DEF RoundsDone, GoTo, private, storage, counters
  <2>2. IF armed_stone_wall[r] THEN Send(r, "Allreduce", plan.num) ELSE UNCHANGED calls
    BY <1>4 DEF RoundsDone, Careful
  <2> QED
    BY <2>1, <2>2
<1>6. /\ calls' \in CallsIn(Nat) /\ Count(r) \in Nat /\ Count(r)' \in Nat /\ Count(r)' >= Count(r)
      /\ \A s \in Ranks \ {r} : calls'[s] = calls[s]
      /\ \A k \in 1..Count(r) : calls'[r][k] = calls[r][k]
      /\ armed_stone_wall[r] => /\ Count(r)' = Count(r) + 1
                                /\ calls'[r][Count(r)'].op = "Allreduce"
                                /\ calls'[r][Count(r)'].value = plan.num
      /\ ~armed_stone_wall[r] => calls'[r] = calls[r] /\ Count(r)' = Count(r)
  <2>1. CASE armed_stone_wall[r]
    <3>1. "Allreduce" \in Collectives
      BY DEF Collectives, Synchronizing
    <3> QED
      BY <1>2, <1>4, <1>5, <2>1, <3>1, Called
  <2>2. CASE ~armed_stone_wall[r]
    BY <1>2, <1>5, <2>2, NotCalled
  <2> QED
    BY <2>1, <2>2
<1>7. /\ at' \in [Ranks -> Places] /\ at'[r] = "agreed"
      /\ \A s \in Ranks \ {r} : at'[s] = at[s]
  BY <1>2, <1>5 DEF TypeInv, Places
<1>8. Alone(r)
  BY <1>5, <1>6, <1>7 DEF Alone, Same
<1>9. TypeInv'
  BY <1>2, <1>5, <1>6, <1>7 DEF TypeInv, DSets
<1>10. /\ InBenchmark(r)' /\ ~Early(r)' /\ ~Ahead(r)' /\ Done(r)' = Done(r)
       /\ \A o : Given(o)' = Given(o)
       /\ \A g : CallsBefore(g)' = CallsBefore(g)
       /\ \A g : VoteNumber(g)' = VoteNumber(g)
       /\ Iterations' = Iterations
  <2>1. InBenchmark(r)' /\ ~Early(r)' /\ ~Ahead(r)'
    BY <1>7 DEF InBenchmark, Early, Ahead
  <2>2. Done(r)' = Done(r)
    BY <1>1, <1>5, <2>1 DEF Done
  <2> QED
    BY <1>5, <2>1, <2>2, SameRun
<1>11. PICK b \in Nat, g \in Nat \ {0} :
           /\ b = CallsBefore(Done(r)) /\ b = CallsBefore(Done(r))'
           /\ g = global_iteration[r] /\ g = global_iteration'[r]
           /\ VoteNumber(g) = b + 2 /\ VoteNumber(g)' = b + 2
  <2>1. global_iteration[r] = Done(r) + 1 /\ Done(r) \in Nat
    BY <1>1, <1>2, DoneIs
  <2>2. CallsBefore(Done(r)) \in Nat
    BY <1>2, <2>1, CallsGrow
  <2>3. CallsBefore(Done(r))' = CallsBefore(Done(r))
    BY <1>10
  <2>4. VoteNumber(global_iteration[r]) = CallsBefore(Done(r)) + 2
    BY <2>1 DEF VoteNumber
  <2>5. PICK b \in Nat, g \in Nat \ {0} : b = CallsBefore(Done(r)) /\ g = global_iteration[r]
    BY <2>1, <2>2
  <2>6. VoteNumber(g)' = VoteNumber(g)
    BY <1>10
  <2> QED
    BY <1>5, <2>3, <2>4, <2>5, <2>6
<1>12. Count(r) = b + 1 + (IF plan.stonewall /\ ~armed_stone_wall[r] THEN 1 ELSE 0)
       /\ Count(r)' = b + 1 + (IF plan.stonewall THEN 1 ELSE 0)
  <2>1. Due(r) = b + 1 + (IF Voted(r) THEN 1 ELSE 0)
    BY <1>1, <1>11 DEF Due
  <2>2. Count(r) = b + 1 + (IF plan.stonewall /\ ~armed_stone_wall[r] THEN 1 ELSE 0)
    BY <1>1, <1>3, <2>1 DEF Voted
  <2> QED
    BY <1>4, <1>6, <1>11, <2>2
<1>13. Local(r)'
  <2>1. Due(r)' = Count(r)'
    <3>1. Voted(r)' <=> plan.stonewall
      BY <1>5, <1>7 DEF Voted
    <3>2. Due(r)' = b + 1 + (IF Voted(r)' THEN 1 ELSE 0)
      BY <1>7, <1>10, <1>11 DEF Due
    <3> QED
      BY <1>12, <3>1, <3>2
  <2>2. Where(r)'
    BY <1>1, <1>3, <1>5, <1>7, <1>10 DEF Where
  <2>3. Counters(r)'
    BY <1>1, <1>3, <1>5, <1>7, <1>10 DEF Counters, InRound
  <2>4. LastOp(r)'
    <3>1. calls'[r][Count(r)'].op \in {"Barrier", "Allreduce"}
      BY <1>1, <1>3, <1>4, <1>6 DEF LastOp
    <3> QED
      BY <1>7, <3>1 DEF LastOp
  <2>5. Votes(r)'
    <3>1. CASE armed_stone_wall[r]
      <4>1. Count(r)' = b + 2 /\ calls'[r][Count(r)'].value = plan.num
        BY <1>4, <1>6, <1>12, <3>1
      <4>2. Vote(r, g)' = plan.num
        BY <1>11, <4>1 DEF Vote
      <4>3. Vote(r, global_iteration[r])' = plan.num
        BY <1>11, <4>2
      <4> QED
        BY <1>4, <1>5, <1>7, <4>3 DEF Votes
    <3>2. CASE ~armed_stone_wall[r]
      <4>1. plan.stonewall => Vote(r, g) \in 1..plan.num
        BY <1>1, <1>3, <1>11, <3>2 DEF Votes, Voted
      <4>2. Vote(r, g)' = Vote(r, g)
        BY <1>6, <1>11, <3>2 DEF Vote
      <4>3. Vote(r, global_iteration[r])' = Vote(r, g)
        BY <1>11, <4>2
      <4> QED
        BY <1>5, <1>7, <3>2, <4>1, <4>3 DEF Votes
    <3> QED
      BY <3>1, <3>2
  <2> QED
    BY <2>1, <2>2, <2>3, <2>4, <2>5 DEF Local
<1>14. Outvoted' /\ Together' /\ BegunTogether' /\ CreatedTogether'
  <2>1. ~armed_stone_wall'[r] => Rounds(total_num[r], global_iteration[r])'
    <3> SUFFICES ASSUME ~armed_stone_wall[r]
                 PROVE  Rounds(total_num[r], global_iteration[r])'
      BY <1>5
    <3>1. Rounds(total_num[r], global_iteration[r])
      BY <1>1, <1>2 DEF Outvoted
    <3>2. PICK v \in Nat : v = total_num[r] /\ v = total_num'[r]
      BY <1>4, <1>5
    <3>3. Rounds(v, g)'
      BY <1>2, <1>8, <1>11, <3>1, <3>2, RoundsStay
    <3> QED
      BY <1>11, <3>2, <3>3
  <2> QED
    BY <1>1, <1>2, <1>5, <1>8, <1>10, <2>1, InsideKeeps
<1>15. Stored'
  <2>1. Given("-1") /\ Done(r)' = 0 => current_index'[r] = 0
    BY <1>2, <1>5, <1>10 DEF Stored
  <2> QED
    BY <1>1, <1>5, <1>7, <1>8, <1>10, <2>1, StoredKeeps
<1>16. Storage'
  <2>1. ASSUME NEW n \in DSets
        PROVE  /\ Bottom(r, n)' = Bottom(r, n) /\ Top(r, n)' = Top(r, n)
               /\ Exists(r, n)' = Exists(r, n)
    <3>1. Taken(r, n)' = Taken(r, n) /\ Put(r, n)' = Put(r, n)
      BY <1>1, <1>5, <1>7, <1>10 DEF Taken, Put, Progress, RoundPart
    <3>2. Exists(r, n)' = Exists(r, n)
      BY <1>1, <1>7, <1>10 DEF Exists, Created, Removed
    <3> QED
      BY <1>2, <1>10, <3>1, <3>2 DEF Bottom, Top
  <2>2. PrefixIs'
    BY <1>1, <1>2, <1>5, <1>7, <1>8, PrefixStays DEF Storage
  <2> QED
    BY <1>1, <1>2, <1>5, <1>7, <1>8, <2>1, <2>2, StorageStays
<1> QED
  BY <1>8, <1>9, <1>13, <1>14, <1>15, <1>16, StepKeeps

\* Who has done its rounds has done as many as everybody does.
LEMMA AllRoundsDone ==
    ASSUME TypeInv, \A s \in Ranks : Local(s), Outvoted, NEW r \in Ranks, at[r] = "agreed",
           AllIn(r), Ready(r)
    PROVE  /\ f[r] \in 1..plan.num
           /\ Rounds(f[r], global_iteration[r])
           /\ plan.stonewall => MaxSent(r) \in 1..plan.num
<1>1. InBenchmark(r) /\ Local(r)
  BY DEF InBenchmark
<1>2. /\ f[r] = total_num[r] /\ total_num[r] \in 1..plan.num
      /\ armed_stone_wall[r] => plan.stonewall /\ total_num[r] = plan.num
  BY <1>1 DEF Local, Counters
<1>3. plan.stonewall => Voted(r)
  BY DEF Voted
<1>4. plan.stonewall => /\ MaxSent(r) \in 1..plan.num
                        /\ IsResult(MaxSent(r), global_iteration[r])
                        /\ Vote(r, global_iteration[r]) <= MaxSent(r)
  BY <1>1, <1>3, ResultIs
<1>5. CASE armed_stone_wall[r]
  <2>1. Vote(r, global_iteration[r]) = plan.num
    BY <1>1, <1>2, <1>5 DEF Local, Votes
  <2>2. plan.num \in Nat
    BY PlanIs
  <2>3. MaxSent(r) = plan.num
    BY <1>2, <1>4, <1>5, <2>1, <2>2
  <2> QED
    BY <1>2, <1>4, <1>5, <2>3 DEF Rounds
<1>6. CASE ~armed_stone_wall[r]
  BY <1>1, <1>2, <1>4, <1>6 DEF Outvoted
<1> QED
  BY <1>5, <1>6

\* Agreed: the iteration is over for r, which moves on by the rounds that
\* everybody does in it.
LEMMA AgreedKeeps ==
    ASSUME Inv, NEW r \in Ranks, Agreed(r)
    PROVE  Inv'
<1>1. at[r] = "agreed" /\ Ready(r) /\ InBenchmark(r)
  BY DEF Agreed, At, InBenchmark
<1>2. /\ TypeInv /\ Storage /\ AllIn(r) /\ Local(r) /\ \A s \in Ranks : ~Early(s)
      /\ Stored /\ Outvoted /\ Together /\ \A s \in Ranks : Local(s)
  BY <1>1, InsideIs
<1>3. Counters(r) /\ Votes(r) /\ Where(r) /\ Count(r) = Due(r) /\ CreatedTogether
  BY <1>2 DEF Local, Inv
<1>4. PICK v \in 1..plan.num, g \in Nat \ {0}, b \in Nat, e \in Nat :
          /\ v = f[r] /\ g = global_iteration[r] /\ Rounds(v, g) /\ e = Done(r) /\ g = e + 1
          /\ b = CallsBefore(e) /\ VoteNumber(g) = b + 2
  <2>1. global_iteration[r] = Done(r) + 1 /\ Done(r) \in Nat
    BY <1>1, <1>2, DoneIs
  <2>2. CallsBefore(Done(r)) \in Nat
    BY <1>2, <2>1, CallsGrow
  <2>3. VoteNumber(global_iteration[r]) = CallsBefore(Done(r)) + 2
    BY <2>1 DEF VoteNumber
  <2>4. f[r] \in 1..plan.num /\ Rounds(f[r], global_iteration[r])
    BY <1>1, <1>2, AllRoundsDone
  <2> QED
    BY <2>1, <2>2, <2>3, <2>4
<1>5. PICK w \in Nat : /\ w = IF plan.stonewall THEN MaxSent(r) ELSE stonewall_iterations[r]
                       /\ w # 0 <=> plan.stonewall
  <2>1. plan.stonewall => MaxSent(r) \in 1..plan.num
    BY <1>1, <1>2, AllRoundsDone
  <2>2. ~plan.stonewall => stonewall_iterations[r] = 0
    BY <1>1, <1>3 DEF Counters
  <2>3. plan.num \in Nat
    BY <1>2, PlanIs
  <2> QED
    BY <2>1, <2>2, <2>3
<1>6. PICK p \in Nat, q \in Nat : /\ p = current_index[r]
                                  /\ q = p + (IF Given("--read-only") THEN 0 ELSE v)
  <2>1. current_index[r] \in Nat /\ v \in Nat
    BY <1>2, <1>4 DEF TypeInv
  <2> QED
    BY <2>1
<1>7. /\ plan' = plan /\ run' = run
      /\ UNCHANGED <<global_iteration, f, d, total_num, armed_stone_wall, err>>
      /\ UNCHANGED <<prefix, dirs, objects, complete, status>>
      /\ stonewall_iterations' = [stonewall_iterations EXCEPT ![r] = w]
      /\ current_index' = [current_index EXCEPT ![r] = q]
      /\ phase' = [phase EXCEPT ![r] = "benchmark"]
      /\ Send(r, "Barrier", 0)
      /\ at' = [at EXCEPT ![r] = "reduce"]
  <2>1. /\ plan' = plan /\ run' = run
        /\ UNCHANGED <<global_iteration, f, d, total_num, armed_stone_wall, err>>
        /\ UNCHANGED <<prefix, dirs, objects, complete, status>>
        /\ phase' = [phase EXCEPT ![r] = "benchmark"]
        /\ Send(r, "Barrier", 0)
        /\ at' = [at EXCEPT ![r] = "reduce"]
    BY DEF Agreed, EndPhase, GoTo, Call, storage
  <2>2. stonewall_iterations' = [stonewall_iterations EXCEPT ![r] = w]
    BY <1>5 DEF Agreed
  <2>3. (IF Given("--read-only") THEN current_index[r] ELSE current_index[r] + f[r]) = q
    BY <1>4, <1>6
  <2>4. current_index' = [current_index EXCEPT ![r] = q]
    BY <2>3 DEF Agreed
  <2> QED
    BY <2>1, <2>2, <2>4
<1>8. /\ calls' \in CallsIn(Nat) /\ Count(r) \in Nat /\ Count(r)' \in Nat /\ Count(r)' >= Count(r)
      /\ Count(r)' = Count(r) + 1
      /\ calls'[r][Count(r)'].op = "Barrier"
      /\ \A s \in Ranks \ {r} : calls'[s] = calls[s]
      /\ \A k \in 1..Count(r) : calls'[r][k] = calls[r][k]
  <2>1. "Barrier" \in Collectives
    BY DEF Collectives, Synchronizing
  <2> QED
    BY <1>2, <1>7, <2>1, Called
<1>9. /\ at' \in [Ranks -> Places] /\ at'[r] = "reduce"
      /\ \A s \in Ranks \ {r} : at'[s] = at[s]
      /\ phase' \in [Ranks -> {"precreate", "benchmark", "cleanup"}] /\ phase'[r] = "benchmark"
      /\ \A s \in Ranks \ {r} : phase'[s] = phase[s]
  BY <1>2, <1>7 DEF TypeInv, Places
<1>10. /\ stonewall_iterations' \in [Ranks -> Nat] /\ stonewall_iterations'[r] = w
       /\ \A s \in Ranks \ {r} : stonewall_iterations'[s] = stonewall_iterations[s]
       /\ current_index' \in [Ranks -> Nat] /\ current_index'[r] = q
       /\ \A s \in Ranks \ {r} : current_index'[s] = current_index[s]
  BY <1>2, <1>7 DEF TypeInv
<1>11. Alone(r)
  BY <1>7, <1>8, <1>9, <1>10 DEF Alone, Same
<1>12. TypeInv'
  BY <1>2, <1>7, <1>8, <1>9, <1>10 DEF TypeInv, DSets
<1>13. /\ ~InBenchmark(r)' /\ ~Early(r)' /\ Ahead(r)' /\ Done(r)' = g
       /\ \A o : Given(o)' = Given(o)
       /\ \A k : CallsBefore(k)' = CallsBefore(k)
       /\ \A k : VoteNumber(k)' = VoteNumber(k)
       /\ Iterations' = Iterations /\ Agreement' = Agreement
  <2>1. ~InBenchmark(r)' /\ ~Early(r)' /\ Ahead(r)'
    BY <1>9 DEF InBenchmark, Early, Ahead
  <2>2. Done(r)' = g
    BY <1>4, <1>7, <2>1 DEF Done
  <2> QED
    BY <1>7, <2>1, <2>2, SameRun
<1>14. Count(r) = b + 1 + Agreement /\ Agreement \in {0, 1} /\ (Agreement = 1 <=> plan.stonewall)
  <2>1. Agreement \in {0, 1} /\ (Agreement = 1 <=> plan.stonewall)
    BY <1>2, CallsGrow
  <2>2. Voted(r) <=> plan.stonewall
    BY <1>1 DEF Voted
  <2>3. Due(r) = b + 1 + (IF Voted(r) THEN 1 ELSE 0)
    BY <1>1, <1>4 DEF Due
  <2> QED
    BY <1>3, <2>1, <2>2, <2>3
<1>15. Local(r)'
  <2>1. Due(r)' = Count(r)'
    <3>1. CallsBefore(g) = b + 3 + Agreement + Agreement
      BY <1>2, <1>4, CallsGrow
    <3>2. CallsBefore(Done(r))' = CallsBefore(g)
      BY <1>13
    <3>3. Due(r)' = CallsBefore(g) - 1 - Agreement
      BY <1>9, <1>13, <3>2 DEF Due
    <3> QED
      BY <1>8, <1>14, <3>1, <3>3
  <2>2. Where(r)'
    <3>1. global_iteration[r] \in 1..Iterations
      BY <1>1, <1>3 DEF Where
    <3> QED
      BY <1>7, <1>9, <1>13, <3>1 DEF Where
  <2>3. Counters(r)'
    <3>1. d[r] = 0
      BY <1>1, <1>3 DEF Counters, InRound
    <3> QED
      BY <1>5, <1>7, <1>9, <1>10, <1>13, <3>1 DEF Counters, InRound
  <2>4. LastOp(r)'
    BY <1>8, <1>9, <1>13 DEF LastOp
  <2>5. Votes(r)'
    <3>1. CASE plan.stonewall
      <4>1. Vote(r, g) \in 1..plan.num
        BY <1>1, <1>3, <1>4, <3>1 DEF Votes, Voted
      <4>2. VoteNumber(g) \in 1..Count(r)
        BY <1>4, <1>14, <3>1
      <4>3. Vote(r, g)' = Vote(r, g)
        BY <1>8, <1>13, <4>2 DEF Vote
      <4>4. Vote(r, global_iteration[r])' = Vote(r, g)
        BY <1>4, <1>7, <4>3
      <4> QED
        BY <1>7, <1>9, <4>1, <4>4 DEF Votes
    <3>2. CASE ~plan.stonewall
      BY <1>7, <3>2 DEF Votes
    <3> QED
      BY <3>1, <3>2
  <2> QED
    BY <2>1, <2>2, <2>3, <2>4, <2>5 DEF Local
<1>16. Outvoted'
  BY <1>2, <1>11, <1>13, OutvotedStays
<1>17. Together'
  <2>1. Rounds(v, g)'
    BY <1>2, <1>4, <1>11, RoundsStay
  <2>2. ASSUME NEW s \in Ranks
        PROVE  \/ InBenchmark(s)' /\ global_iteration'[s] = g /\ Done(s)' = e /\ Position(s)' = p
               \/ Ahead(s)' /\ ~InBenchmark(s)' /\ global_iteration'[s] = g /\ Done(s)' = g
                    /\ Position(s)' = q
    <3>1. CASE s = r
      BY <1>4, <1>7, <1>10, <1>13, <3>1 DEF Position
    <3>2. CASE s # r
      <4>1. (InBenchmark(s) \/ Ahead(s)) /\ global_iteration[s] = g
        BY <1>2, <1>4 DEF AllIn
      <4>2. /\ InBenchmark(s)' = InBenchmark(s) /\ Ahead(s)' = Ahead(s) /\ Done(s)' = Done(s)
            /\ global_iteration'[s] = g /\ Position(s)' = Position(s)
        BY <1>2, <1>7, <1>11, <3>2, <4>1, SamePlace, SameWindow DEF Alone, Same
      <4>3. CASE InBenchmark(s)
        <5>1. current_index[s] = p
          BY <1>1, <1>2, <1>6, <4>3, SameIndex
        <5>2. Done(s) = e /\ Position(s) = p
          BY <1>2, <1>4, <4>1, <4>3, <5>1 DEF Done, Position
        <5> QED
          BY <4>2, <4>3, <5>2
      <4>4. CASE Ahead(s)
        <5>1. ~InBenchmark(s) /\ Done(s) = g
          BY <4>1, <4>4 DEF Ahead, InBenchmark, Done
        <5>2. ~Ahead(r) /\ Done(r) # Done(s)
          BY <1>1, <1>4, <5>1 DEF Ahead, InBenchmark
        <5>3. Follows(r, s)
          BY <1>2, <5>2 DEF Together, Follows
        <5>4. PICK x \in 1..plan.num :
                  /\ Rounds(x, g)
                  /\ Position(s) = Position(r) + (IF Given("--read-only") THEN 0 ELSE x)
          BY <1>4, <5>3 DEF Follows
        <5>5. x = v
          BY <1>2, <1>4, <5>4, OneResult
        <5>6. Position(r) = p
          BY <1>2, <1>6 DEF Position
        <5>7. Position(s) = q
          BY <1>6, <5>4, <5>5, <5>6
        <5> QED
          BY <4>2, <4>4, <5>1, <5>7
      <4> QED
        BY <4>1, <4>3, <4>4
    <3> QED
      BY <3>1, <3>2
  <2>3. q = p + (IF Given("--read-only")' THEN 0 ELSE v) /\ v \in 1..plan'.num
    BY <1>6, <1>7, <1>13
  <2>4. ASSUME NEW s \in Ranks, NEW t \in Ranks,
               InBenchmark(s)', global_iteration'[s] = g, Position(s)' = p,
               Ahead(t)', global_iteration'[t] = g, Position(t)' = q
        PROVE  Follows(s, t)'
    <3>1. Rounds(v, global_iteration[s])'
      BY <2>1, <2>4
    <3> QED
      BY <2>3, <2>4, <3>1 DEF Follows
  <2> SUFFICES ASSUME NEW s \in Ranks, NEW t \in Ranks
               PROVE  \/ Done(s)' = Done(t)' /\ Position(s)' = Position(t)'
                      \/ Follows(s, t)'
                      \/ Follows(t, s)'
    BY DEF Together
  <2>5. CASE InBenchmark(s)' /\ InBenchmark(t)'
    BY <2>2, <2>5
  <2>6. CASE InBenchmark(s)' /\ ~InBenchmark(t)'
    BY <2>2, <2>4, <2>6
  <2>7. CASE ~InBenchmark(s)' /\ InBenchmark(t)'
    BY <2>2, <2>4, <2>7
  <2>8. CASE ~InBenchmark(s)' /\ ~InBenchmark(t)'
    BY <2>2, <2>8
  <2> QED
    BY <2>5, <2>6, <2>7, <2>8
<1>18. BegunTogether'
  BY <1>2, <1>7, <1>11, <1>13, AllStayIn
<1>19. CreatedTogether'
  <2>1. Created(r)' /\ Settled(r)
    BY <1>1, <1>9 DEF Created, Settled
  <2> QED
    BY <1>3, <1>11, <2>1, CreatedStays
<1>20. Stored'
  BY <1>1, <1>4, <1>7, <1>9, <1>11, <1>13, StoredKeeps
<1>21. Storage'
  <2>1. ASSUME NEW n \in DSets
        PROVE  /\ Bottom(r, n)' = Bottom(r, n) /\ Top(r, n)' = Top(r, n)
               /\ Exists(r, n)' = Exists(r, n)
    <3>1. Taken(r, n)' = q /\ Put(r, n)' = q
      BY <1>10, <1>13 DEF Taken, Put, Progress
    <3>2. Taken(r, n) = q
      <4>1. RoundPart(r, n, {"create", "write"}) = 0
        BY <1>1 DEF RoundPart
      <4> QED
        BY <1>1, <1>4, <1>6, <4>1 DEF Taken, Progress
    <3>3. Put(r, n) = q
      <4>1. RoundPart(r, n, {"write"}) = 0
        BY <1>1 DEF RoundPart
      <4> QED
        BY <1>1, <1>4, <1>6, <4>1 DEF Put, Progress
    <3>4. Exists(r, n)' = Exists(r, n)
      BY <1>1, <1>9, <1>13 DEF Exists, Created, Removed
    <3> QED
      BY <1>2, <1>13, <3>1, <3>2, <3>3, <3>4 DEF Bottom, Top
  <2>2. PrefixIs'
    BY <1>1, <1>2, <1>7, <1>9, <1>11, PrefixStays DEF Storage
  <2> QED
    BY <1>1, <1>2, <1>7, <1>9, <1>11, <2>1, <2>2, StorageStays
<1> QED
  BY <1>11, <1>12, <1>15, <1>16, <1>17, <1>18, <1>19, <1>20, <1>21, StepKeeps

----------------------------------------------------------------------------
(* The cleanup, and the end of a run.                                      *)

\* When one has completed the last iteration, all have: all windows are full
\* and begin at the same index.
LEMMA WindowsAreFull ==
    ASSUME TypeInv, \A s \in Ranks : Local(s), Together,
           NEW r \in Ranks, ~InBenchmark(r), ~Ahead(r), Done(r) = Iterations
    PROVE  \A s \in Ranks : /\ ~InBenchmark(s) /\ Position(s) = Position(r) /\ Done(s) = Iterations
                            /\ \A n : /\ Bottom(s, n) = Position(r)
                                      /\ Top(s, n) = precreate + Position(r)
<1> SUFFICES ASSUME NEW s \in Ranks
             PROVE  /\ ~InBenchmark(s) /\ Position(s) = Position(r) /\ Done(s) = Iterations
                    /\ \A n : /\ Bottom(s, n) = Position(r)
                              /\ Top(s, n) = precreate + Position(r)
  OBVIOUS
<1>1. Done(s) = Done(r) /\ Position(s) = Position(r)
  BY DEF Together, Follows
<1>2. ~InBenchmark(s)
  <2>1. Local(s)
    OBVIOUS
  <2>2. InBenchmark(s) => Done(s) + 1 <= Iterations /\ Done(s) \in Nat
    BY <2>1, DoneIs
  <2>3. Iterations \in Nat
    BY PlanIs
  <2> QED
    BY <1>1, <2>2, <2>3
<1>3. \A n : Taken(s, n) = current_index[s] /\ Put(s, n) = current_index[s]
  BY <1>2 DEF Taken, Put, Progress
<1> QED
  BY <1>1, <1>2, <1>3 DEF Bottom, Top, Position

\* Cleanup: what is in the data set is what the rank removes, so that the data
\* set can go, too.
LEMMA CleanupKeeps ==
    ASSUME Inv, NEW r \in Ranks, Cleanup(r)
    PROVE  Inv'
<1>1. /\ TypeInv /\ Stored /\ Storage /\ CreatedTogether /\ Together
      /\ \A s \in Ranks : Local(s)
  BY DEF Inv
<1>2. at[r] = "cleanup" /\ Local(r)
  BY <1>1 DEF Cleanup, At
<1>3. Counters(r) /\ Where(r) /\ Count(r) = Due(r)
  BY <1>2 DEF Local
<1>4. /\ ~InBenchmark(r) /\ ~Ahead(r) /\ ~Early(r) /\ Done(r) = Iterations
      /\ Done(r) = global_iteration[r] /\ Done(r) \in Nat /\ Given("-3")
      /\ stonewall_iterations[r] = 0
  <2>1. ~InBenchmark(r) /\ ~Ahead(r) /\ ~Early(r)
    BY <1>2 DEF InBenchmark, Ahead, Early
  <2>2. Done(r) = global_iteration[r] /\ Done(r) \in Nat
    BY <1>1, <1>2, <2>1, DoneIs
  <2>3. Given("-3") /\ global_iteration[r] = Iterations
    BY <1>2, <1>3 DEF Where
  <2>4. stonewall_iterations[r] = 0
    BY <1>2, <1>3 DEF Counters
  <2> QED
    BY <2>1, <2>2, <2>3, <2>4
<1>5. PICK k \in DSets, p \in Nat : k = d[r] /\ k \in Nat /\ p = current_index[r]
                                    /\ k < plan.dset_count /\ plan.dset_count \in Nat
  <2>1. d[r] \in Nat /\ current_index[r] \in Nat
    BY <1>1 DEF TypeInv
  <2>2. d[r] < plan.dset_count
    BY <1>2, <1>3 DEF Counters
  <2>3. d[r] \in DSets
    BY <1>1, <2>1, <2>2, DSetsAre
  <2> QED
    BY <1>1, <2>1, <2>2, <2>3, PlanIs
<1> DEFINE gone == {r} \X {k} \X (p..(p + precreate - 1))
<1>6. /\ plan' = plan /\ run' = run
      /\ UNCHANGED <<global_iteration, f, total_num, armed_stone_wall,
                     stonewall_iterations, current_index, err>>
      /\ UNCHANGED <<prefix, status>>
      /\ objects' = objects \ gone
      /\ complete' = complete \cap (objects \ gone)
  BY <1>5 DEF Cleanup
<1>7. dirs' = IF \E x \in objects \ gone : <<x[1], x[2]>> = <<r, k>> THEN dirs
              ELSE dirs \ {<<r, k>>}
  BY <1>5 DEF Cleanup
<1>8. IF k + 1 < plan.dset_count
      THEN /\ d' = [d EXCEPT ![r] = k + 1] /\ UNCHANGED <<at, calls, phase>>
      ELSE /\ d' = [d EXCEPT ![r] = 0]
           /\ phase' = [phase EXCEPT ![r] = "cleanup"]
           /\ Send(r, "Barrier", 0)
           /\ at' = [at EXCEPT ![r] = "reduce"]
  BY <1>5 DEF Cleanup, EndPhase, Call, GoTo
<1>9. precreate \in Nat \ {0}
  BY <1>1, PlanIs
<1>10. ASSUME NEW q \in Ranks, NEW n \in DSets, NEW i \in Nat
       PROVE  <<q, n, i>> \in gone <=> q = r /\ n = k /\ p <= i /\ i < p + precreate
  <2>1. i \in p..(p + precreate - 1) <=> p <= i /\ i < p + precreate
    BY <1>5, <1>9
  <2> QED
    BY <2>1
<1> HIDE DEF gone
<1>11. \A s \in Ranks : /\ ~InBenchmark(s)
                        /\ \A n : Bottom(s, n) = p /\ Top(s, n) = precreate + p
  <2>1. Position(r) = p
    BY <1>4, <1>5 DEF Position
  <2> QED
    BY <1>1, <1>4, <2>1, WindowsAreFull
<1>12. Exists(r, k) /\ \A n \in DSets : Exists(r, n) => ~(n < k)
  <2>1. k \in Nat /\ ~(k < k)
    BY <1>5
  <2> QED
    BY <1>2, <1>5, <2>1 DEF Exists, Created, Removed
<1>13. ASSUME NEW q \in Ranks, NEW n \in DSets, NEW i \in Nat
       PROVE  /\ <<q, n, i>> \in objects <=> /\ Exists(q, n) /\ p <= i /\ i < p + precreate
              /\ <<q, n, i>> \in objects \ gone => ~(q = r /\ n = k)
  <2>1. WriteRank(q, n) \in Ranks /\ ReadRank(q, n) \in Ranks
    BY <1>1, OneReaderOneWriter
  <2>2. Bottom(WriteRank(q, n), n) = p /\ Top(ReadRank(q, n), n) = precreate + p
    BY <1>11, <2>1
  <2>3. precreate + p = p + precreate
    BY <1>5, <1>9
  <2>4. <<q, n, i>> \in objects <=> /\ Exists(q, n) /\ p <= i /\ i < p + precreate
    BY <1>1, <2>2, <2>3 DEF Storage, InWindow
  <2> QED
    BY <1>10, <2>4
<1>14. dirs' = dirs \ {<<r, k>>}
  <2> SUFFICES ASSUME NEW x \in objects \ gone, <<x[1], x[2]>> = <<r, k>>
               PROVE  FALSE
    BY <1>7
  <2>1. PICK q \in Ranks, n \in DSets, i \in Nat : x = <<q, n, i>>
    BY <1>1 DEF TypeInv
  <2>2. q = r /\ n = k
    BY <2>1
  <2> QED
    BY <1>13, <2>1, <2>2
<1>15. /\ at' \in [Ranks -> Places] /\ at'[r] \in {"cleanup", "reduce"}
       /\ d' \in [Ranks -> Nat]
       /\ phase' \in [Ranks -> {"precreate", "benchmark", "cleanup"}]
       /\ at'[r] = "cleanup" => d'[r] = k + 1 /\ k + 1 < plan.dset_count
       /\ at'[r] = "reduce" => d'[r] = 0 /\ phase'[r] = "cleanup" /\ k + 1 = plan.dset_count
       /\ \A s \in Ranks \ {r} : at'[s] = at[s] /\ d'[s] = d[s] /\ phase'[s] = phase[s]
  <2>1. /\ at \in [Ranks -> Places] /\ d \in [Ranks -> Nat]
        /\ phase \in [Ranks -> {"precreate", "benchmark", "cleanup"}]
    BY <1>1 DEF TypeInv
  <2>2. CASE k + 1 < plan.dset_count
    BY <1>2, <1>5, <1>8, <2>1, <2>2
  <2>3. CASE ~(k + 1 < plan.dset_count)
    <3>1. k + 1 = plan.dset_count
      BY <1>5, <2>3
    <3> QED
      BY <1>5, <1>8, <2>1, <2>3, <3>1 DEF Places
  <2> QED
    BY <2>2, <2>3
<1>16. /\ calls' \in CallsIn(Nat) /\ Count(r) \in Nat /\ Count(r)' \in Nat /\ Count(r)' >= Count(r)
       /\ \A s \in Ranks \ {r} : calls'[s] = calls[s]
       /\ \A j \in 1..Count(r) : calls'[r][j] = calls[r][j]
       /\ at'[r] = "cleanup" => Count(r)' = Count(r)
       /\ at'[r] = "reduce" => Count(r)' = Count(r) + 1 /\ calls'[r][Count(r)'].op = "Barrier"
  <2>1. CASE k + 1 < plan.dset_count
    BY <1>1, <1>2, <1>8, <2>1, NotCalled
  <2>2. CASE ~(k + 1 < plan.dset_count)
    <3>1. "Barrier" \in Collectives
      BY DEF Collectives, Synchronizing
    <3>2. at'[r] # "cleanup"
      BY <1>15, <2>2
    <3> QED
      BY <1>1, <1>8, <2>2, <3>1, <3>2, Called
  <2> QED
    BY <2>1, <2>2
<1>17. Alone(r)
  BY <1>6, <1>15, <1>16 DEF Alone, Same
<1>18. TypeInv'
  <2>1. objects' \subseteq Ranks \X DSets \X Nat /\ dirs' \subseteq Ranks \X DSets
    BY <1>1, <1>6, <1>14 DEF TypeInv
  <2> QED
    BY <1>1, <1>6, <1>15, <1>16, <2>1 DEF TypeInv, DSets
<1>19. /\ ~InBenchmark(r)' /\ ~Early(r)' /\ ~Ahead(r)' /\ Done(r)' = Done(r)
       /\ \A o : Given(o)' = Given(o)
       /\ \A g : CallsBefore(g)' = CallsBefore(g)
       /\ Iterations' = Iterations
  <2>1. ~InBenchmark(r)' /\ ~Early(r)' /\ ~Ahead(r)'
    BY <1>15 DEF InBenchmark, Early, Ahead
  <2>2. Done(r)' = Done(r)
    BY <1>4, <1>6, <2>1 DEF Done
  <2> QED
    BY <1>6, <2>1, <2>2, SameRun
<1>20. Local(r)'
  <2>1. Due(r)' = Count(r)'
    <3>1. CallsBefore(Done(r))' = CallsBefore(Done(r))
      BY <1>19
    <3>2. Count(r) = CallsBefore(Done(r))
      BY <1>2, <1>3, <1>4 DEF Due
    <3>3. CASE at'[r] = "cleanup"
      BY <1>16, <1>19, <3>1, <3>2, <3>3 DEF Due
    <3>4. CASE at'[r] = "reduce"
      BY <1>15, <1>16, <1>19, <3>1, <3>2, <3>4 DEF Due
    <3> QED
      BY <1>15, <3>3, <3>4
  <2>2. Where(r)'
    <3>1. Given("-3")' /\ global_iteration'[r] = Iterations'
      BY <1>4, <1>6, <1>19
    <3>2. at'[r] = "reduce" => phase'[r] = "cleanup"
      BY <1>15
    <3> QED
      BY <1>15, <1>19, <3>1, <3>2 DEF Where
  <2>3. Counters(r)'
    <3>1. 0 < plan'.dset_count
      BY <1>1, <1>6, PlanIs
    <3>2. stonewall_iterations'[r] = 0
      BY <1>4, <1>6
    <3>3. CASE at'[r] = "cleanup"
      BY <1>6, <1>15, <1>19, <3>2, <3>3 DEF Counters, InRound
    <3>4. CASE at'[r] = "reduce"
      BY <1>15, <1>19, <3>2, <3>4 DEF Counters, InRound
    <3> QED
      BY <1>15, <3>3, <3>4
  <2>4. LastOp(r)'
    BY <1>15, <1>16, <1>19 DEF LastOp
  <2>5. Votes(r)'
    BY <1>15, <1>19 DEF Votes
  <2> QED
    BY <2>1, <2>2, <2>3, <2>4, <2>5 DEF Local
<1>21. Outvoted' /\ Together' /\ BegunTogether' /\ CreatedTogether'
  <2>1. Created(r)' /\ Settled(r)
    BY <1>2, <1>15 DEF Created, Settled
  <2>2. Position(r)' = Position(r)
    BY <1>4, <1>6, <1>19 DEF Position
  <2>3. \A s \in Ranks : Position(s)' = Position(s)
    BY <1>6, <1>17, <2>2, PositionsStay
  <2> QED
    BY <1>4, <1>17, <1>19, <2>1, <2>3, OutsideKeeps
<1>22. Stored'
  <2>1. Given("-1") /\ Done(r)' = 0 => current_index'[r] = 0
    BY <1>1, <1>6, <1>19 DEF Stored
  <2> QED
    BY <1>2, <1>6, <1>15, <1>17, <1>19, <2>1, StoredKeeps
<1>23. Storage'
  <2>1. ASSUME NEW n \in DSets PROVE Bottom(r, n)' = Bottom(r, n) /\ Top(r, n)' = Top(r, n)
    <3>1. Taken(r, n)' = Taken(r, n) /\ Put(r, n)' = Put(r, n)
      BY <1>4, <1>6, <1>19 DEF Taken, Put, Progress
    <3> QED
      BY <1>4, <1>19, <3>1 DEF Bottom, Top
  <2>2. /\ \A q \in Ranks, n \in DSets, i \in Nat :
               InWindow(q, n, i)' <=> /\ Exists(q, n)'
                                      /\ Bottom(WriteRank(q, n), n) <= i
                                      /\ i < Top(ReadRank(q, n), n)
        /\ \A q \in Ranks \ {r}, n \in DSets : Exists(q, n)' = Exists(q, n)
    BY <1>1, <1>6, <1>17, <2>1, WindowsStay
  <2>3. ASSUME NEW n \in DSets PROVE Exists(r, n)' <=> Exists(r, n) /\ n # k
    <3>1. n \in Nat /\ n < plan.dset_count
      BY <1>1, DSetsAre
    <3>2. CASE at'[r] = "cleanup"
      <4>1. Exists(r, n)' <=> ~(n < k + 1)
        BY <1>15, <3>2 DEF Exists, Created, Removed
      <4>2. Exists(r, n) <=> ~(n < k)
        BY <1>2, <1>5 DEF Exists, Created, Removed
      <4> QED
        BY <1>5, <3>1, <4>1, <4>2
    <3>3. CASE at'[r] = "reduce"
      <4>1. ~Exists(r, n)'
        BY <1>15, <3>3 DEF Exists, Removed
      <4>2. Exists(r, n) => ~(n < k)
        BY <1>12
      <4>3. k + 1 = plan.dset_count
        BY <1>15, <3>3
      <4> QED
        BY <1>5, <3>1, <4>1, <4>2, <4>3
    <3> QED
      BY <1>15, <3>2, <3>3
  <2>4. \A q \in Ranks, n \in DSets : Exists(q, n)' <=> Exists(q, n) /\ ~(q = r /\ n = k)
    BY <2>2, <2>3
  <2>5. \A q \in Ranks, n \in DSets : <<q, n>> \in dirs' <=> Exists(q, n)'
    <3>1. \A q \in Ranks, n \in DSets : <<q, n>> \in dirs <=> Exists(q, n)
      BY <1>1 DEF Storage
    <3> QED
      BY <1>14, <2>4, <3>1
  <2>6. ASSUME NEW q \in Ranks, NEW n \in DSets, NEW i \in Nat
        PROVE  <<q, n, i>> \in objects' <=> InWindow(q, n, i)'
    <3>1. WriteRank(q, n) \in Ranks /\ ReadRank(q, n) \in Ranks
      BY <1>1, OneReaderOneWriter
    <3>2. Bottom(WriteRank(q, n), n) = p /\ Top(ReadRank(q, n), n) = precreate + p
      BY <1>11, <3>1
    <3>3. precreate + p = p + precreate
      BY <1>5, <1>9
    <3>4. InWindow(q, n, i)' <=> Exists(q, n)' /\ p <= i /\ i < p + precreate
      BY <2>2, <3>2, <3>3
    <3>5. <<q, n, i>> \in objects' <=> <<q, n, i>> \in objects /\ <<q, n, i>> \notin gone
      BY <1>6
    <3>6. <<q, n, i>> \in objects' <=> <<q, n, i>> \in objects /\ ~(q = r /\ n = k)
      BY <1>10, <1>13, <3>5
    <3> QED
      BY <1>13, <2>4, <3>4, <3>6
  <2>7. complete' = objects' \ Unfinished'
    <3>1. Unfinished' = Unfinished
      BY <1>2, <1>15, <1>17, UnfinishedStays
    <3>2. complete = objects \ Unfinished
      BY <1>1 DEF Storage
    <3> QED
      BY <1>6, <3>1, <3>2
  <2>8. PrefixIs'
    BY <1>1, <1>2, <1>6, <1>15, <1>17, PrefixStays DEF Storage
  <2>9. DSets' = DSets
    BY <1>6, SameRun
  <2> QED
    BY <2>5, <2>6, <2>7, <2>8, <2>9 DEF Storage
<1> QED
  BY <1>17, <1>18, <1>20, <1>21, <1>22, <1>23, StepKeeps

\* RemovePrefix: when rank 0 has met all others in the Reduce, no data set is
\* left, and it can remove the output directory.
LEMMA RemovePrefixKeeps ==
    ASSUME Inv, NEW r \in Ranks, RemovePrefix(r)
    PROVE  Inv'
<1>1. /\ TypeInv /\ Stored /\ Storage /\ CreatedTogether /\ Together
      /\ \A s \in Ranks : Local(s)
  BY DEF Inv
<1>2. at[r] = "rmdir" /\ Ready(r) /\ Local(r)
  BY <1>1 DEF RemovePrefix, At
<1>3. Counters(r) /\ Where(r) /\ LastOp(r) /\ Count(r) = Due(r)
  BY <1>2 DEF Local
<1>4. /\ ~InBenchmark(r) /\ ~Ahead(r) /\ ~Early(r) /\ Done(r) = Iterations
      /\ Done(r) = global_iteration[r] /\ Done(r) \in Nat /\ Given("-3") /\ d[r] = 0
  <2>1. ~InBenchmark(r) /\ ~Ahead(r) /\ ~Early(r)
    BY <1>2 DEF InBenchmark, Ahead, Early
  <2>2. Done(r) = global_iteration[r] /\ Done(r) \in Nat
    BY <1>1, <1>2, <2>1, DoneIs
  <2>3. Given("-3") /\ global_iteration[r] = Iterations
    BY <1>2, <1>3 DEF Where
  <2>4. d[r] = 0
    BY <1>2, <1>3 DEF Counters, InRound
  <2> QED
    BY <2>1, <2>2, <2>3, <2>4
<1>5. /\ plan' = plan /\ run' = run /\ UNCHANGED calls
      /\ UNCHANGED <<phase, global_iteration, f, d, total_num, armed_stone_wall,
                     stonewall_iterations, current_index, err>>
      /\ UNCHANGED <<dirs, objects, complete, status>>
      /\ prefix' = (prefix /\ ~(r = 0 /\ dirs = {}))
      /\ at' = [at EXCEPT ![r] = "finished"]
  BY DEF RemovePrefix, GoTo, private, counters
<1>6. /\ at' \in [Ranks -> Places] /\ at'[r] = "finished"
      /\ \A s \in Ranks \ {r} : at'[s] = at[s]
  BY <1>1, <1>5 DEF TypeInv, Places
<1>7. Count(r) \in Nat /\ Count(r)' = Count(r)
  BY <1>1, <1>5, NotCalled
<1>8. Alone(r)
  BY <1>5, <1>6, <1>7 DEF Alone, Same
<1>9. TypeInv'
  <2>1. prefix' \in BOOLEAN
    BY <1>5
  <2> QED
    BY <1>1, <1>5, <1>6, <2>1 DEF TypeInv, DSets
<1>10. /\ ~InBenchmark(r)' /\ ~Early(r)' /\ ~Ahead(r)' /\ Done(r)' = Done(r)
       /\ \A o : Given(o)' = Given(o)
       /\ \A g : CallsBefore(g)' = CallsBefore(g)
       /\ Iterations' = Iterations
  <2>1. ~InBenchmark(r)' /\ ~Early(r)' /\ ~Ahead(r)'
    BY <1>6 DEF InBenchmark, Early, Ahead
  <2>2. Done(r)' = Done(r)
    BY <1>4, <1>5, <2>1 DEF Done
  <2> QED
    BY <1>5, <2>1, <2>2, SameRun
<1>11. PICK b \in Nat : b = CallsBefore(Iterations) /\ Count(r) = b + 2
  <2>1. CallsBefore(Iterations) \in Nat
    BY <1>1, PlanIs, CallsGrow
  <2>2. Count(r) = CallsBefore(Done(r)) + 2
    BY <1>2, <1>3, <1>4 DEF Due
  <2> QED
    BY <1>4, <2>1, <2>2
<1>12. Local(r)'
  <2>1. Due(r)' = Count(r)'
    <3>1. CallsBefore(Done(r))' = CallsBefore(Iterations)
      BY <1>4, <1>10
    <3> QED
      BY <1>4, <1>6, <1>7, <1>10, <1>11, <3>1 DEF Due
  <2>2. Where(r)'
    BY <1>4, <1>5, <1>6, <1>10 DEF Where
  <2>3. Counters(r)'
    BY <1>4, <1>5, <1>6, <1>10 DEF Counters, InRound
  <2>4. LastOp(r)'
    BY <1>6, <1>10 DEF LastOp
  <2>5. Votes(r)'
    BY <1>6, <1>10 DEF Votes
  <2> QED
    BY <2>1, <2>2, <2>3, <2>4, <2>5 DEF Local
<1>13. Outvoted' /\ Together' /\ BegunTogether' /\ CreatedTogether'
  <2>1. Created(r)' /\ Settled(r)
    BY <1>2, <1>6 DEF Created, Settled
  <2>2. Position(r)' = Position(r)
    BY <1>4, <1>5, <1>10 DEF Position
  <2>3. \A s \in Ranks : Position(s)' = Position(s)
    BY <1>5, <1>8, <2>2, PositionsStay
  <2> QED
    BY <1>4, <1>8, <1>10, <2>1, <2>3, OutsideKeeps
<1>14. Stored'
  <2>1. Given("-1") /\ Done(r)' = 0 => current_index'[r] = 0
    BY <1>1, <1>5, <1>10 DEF Stored
  <2> QED
    BY <1>2, <1>4, <1>5, <1>8, <1>10, <2>1, StoredKeeps
<1>15. r = 0 => dirs = {}
  <2> SUFFICES ASSUME r = 0, NEW q \in Ranks, NEW n \in DSets, <<q, n>> \in dirs
               PROVE  FALSE
    BY <1>1 DEF TypeInv
  <2>1. calls[r][Count(r)].op = "Reduce" /\ Count(r) > 0
    BY <1>2, <1>3, <1>11 DEF LastOp
  <2>2. Count(q) >= b + 2
    BY <1>2, <1>11, <2>1 DEF Ready, ReadyIn, Synchronizing
  <2>3. ~InBenchmark(q) /\ Done(q) = Iterations
    BY <1>1, <1>4, WindowsAreFull
  <2>4. Count(q) = Due(q) /\ Where(q)
    BY <1>1 DEF Local
  <2>5. b > 0 /\ Agreement \in {0, 1}
    <3>1. CallsBefore(0) > 0 /\ Agreement \in {0, 1}
      BY <1>1, CallsGrow
    <3>2. Iterations > 0 => CallsBefore(0) + 3 + Agreement + Agreement <= CallsBefore(Iterations)
      BY <1>1, PlanIs, CallsGrow
    <3>3. CallsBefore(0) \in Nat /\ Iterations \in Nat
      BY <1>1, PlanIs, CallsGrow
    <3>4. CASE Iterations = 0
      BY <1>11, <3>1, <3>4
    <3>5. CASE Iterations > 0
      BY <1>11, <3>1, <3>2, <3>3, <3>5
    <3> QED
      BY <3>1, <3>3, <3>4, <3>5
  <2>6. Count(q) = IF at[q] = "start" \/ (at[q] = "begin" /\ Given("-1")) THEN 0
                   ELSE IF at[q] = "precreate" THEN 1
                   ELSE IF at[q] = "reduce"
                        THEN IF phase[q] = "precreate" THEN 2
                             ELSE IF phase[q] = "benchmark" THEN b - 1 - Agreement ELSE b + 1
                   ELSE IF at[q] = "rmdir" \/ (at[q] = "finished" /\ Given("-3")) THEN b + 2 ELSE b
    BY <1>11, <2>3, <2>4 DEF Due
  <2>7. at[q] = "rmdir" \/ (at[q] = "finished" /\ Given("-3"))
    BY <2>2, <2>5, <2>6
  <2>8. ~Exists(q, n)
    BY <2>7 DEF Exists, Removed
  <2> QED
    BY <1>1, <2>8 DEF Storage
<1>16. Storage'
  <2>1. ASSUME NEW n \in DSets
        PROVE  /\ Bottom(r, n)' = Bottom(r, n) /\ Top(r, n)' = Top(r, n)
               /\ Exists(r, n)' = Exists(r, n)
    <3>1. Taken(r, n)' = Taken(r, n) /\ Put(r, n)' = Put(r, n)
      BY <1>4, <1>5, <1>10 DEF Taken, Put, Progress
    <3>2. Exists(r, n)' = Exists(r, n)
      BY <1>2, <1>4, <1>6, <1>10 DEF Exists, Removed
    <3> QED
      BY <1>4, <1>10, <3>1, <3>2 DEF Bottom, Top
  <2>2. PrefixIs'
    <3>1. CASE r = 0
      BY <1>4, <1>5, <1>6, <1>10, <1>15, <3>1 DEF PrefixIs
    <3>2. CASE r # 0
      <4>1. 0 \in Ranks \ {r}
        BY <3>2, MpiAssumption DEF Ranks
      <4>2. PrefixIs /\ prefix' = prefix /\ prefix \in BOOLEAN
        BY <1>1, <1>5, <3>2 DEF Storage, TypeInv
      <4> QED
        BY <1>6, <1>10, <4>1, <4>2 DEF PrefixIs
    <3> QED
      BY <3>1, <3>2
  <2> QED
    BY <1>1, <1>2, <1>5, <1>6, <1>8, <2>1, <2>2, StorageStays
<1> QED
  BY <1>8, <1>9, <1>12, <1>13, <1>14, <1>16, StepKeeps

\* store_position: the position that rank 0 stores is that of all ranks, also
\* of those that have not read the one before.
LEMMA StorePositionKeeps ==
    ASSUME Inv, NEW r \in Ranks, store_position(r)
    PROVE  Inv'
<1>1. /\ TypeInv /\ Stored /\ Storage /\ CreatedTogether /\ Together
      /\ \A s \in Ranks : Local(s)
  BY DEF Inv
<1>2. at[r] = "store" /\ Local(r)
  BY <1>1 DEF store_position, At
<1>3. Counters(r) /\ Where(r) /\ Count(r) = Due(r)
  BY <1>2 DEF Local
<1>4. /\ ~InBenchmark(r) /\ ~Ahead(r) /\ ~Early(r) /\ Done(r) = Iterations
      /\ Done(r) = global_iteration[r] /\ Done(r) \in Nat /\ ~Given("-3") /\ d[r] = 0
  <2>1. ~InBenchmark(r) /\ ~Ahead(r) /\ ~Early(r)
    BY <1>2 DEF InBenchmark, Ahead, Early
  <2>2. Done(r) = global_iteration[r] /\ Done(r) \in Nat
    BY <1>1, <1>2, <2>1, DoneIs
  <2>3. ~Given("-3") /\ global_iteration[r] = Iterations
    BY <1>2, <1>3 DEF Where
  <2>4. d[r] = 0
    BY <1>2, <1>3 DEF Counters, InRound
  <2> QED
    BY <2>1, <2>2, <2>3, <2>4
<1>5. /\ plan' = plan /\ run' = run /\ UNCHANGED calls
      /\ UNCHANGED <<phase, global_iteration, f, d, total_num, armed_stone_wall,
                     stonewall_iterations, current_index, err>>
      /\ UNCHANGED <<prefix, dirs, objects, complete>>
      /\ status' = (IF r = 0 THEN current_index[r] ELSE status)
      /\ at' = [at EXCEPT ![r] = "finished"]
  BY DEF store_position, GoTo, private, counters
<1>6. /\ at' \in [Ranks -> Places] /\ at'[r] = "finished"
      /\ \A s \in Ranks \ {r} : at'[s] = at[s]
  BY <1>1, <1>5 DEF TypeInv, Places
<1>7. Count(r) \in Nat /\ Count(r)' = Count(r)
  BY <1>1, <1>5, NotCalled
<1>8. Alone(r)
  BY <1>5, <1>6, <1>7 DEF Alone, Same
<1>9. TypeInv'
  <2>1. status' \in Nat
    BY <1>1, <1>5 DEF TypeInv
  <2> QED
    BY <1>1, <1>5, <1>6, <2>1 DEF TypeInv, DSets
<1>10. /\ ~InBenchmark(r)' /\ ~Early(r)' /\ ~Ahead(r)' /\ Done(r)' = Done(r)
       /\ \A o : Given(o)' = Given(o)
       /\ \A g : CallsBefore(g)' = CallsBefore(g)
       /\ Iterations' = Iterations
  <2>1. ~InBenchmark(r)' /\ ~Early(r)' /\ ~Ahead(r)'
    BY <1>6 DEF InBenchmark, Early, Ahead
  <2>2. Done(r)' = Done(r)
    BY <1>4, <1>5, <2>1 DEF Done
  <2> QED
    BY <1>5, <2>1, <2>2, SameRun
<1>11. \A s \in Ranks : Early(s) => status' = status
  <2>1. \A s \in Ranks : Position(s) = current_index[r]
    <3>1. Position(r) = current_index[r]
      BY <1>4 DEF Position
    <3> QED
      BY <1>1, <1>4, <3>1, WindowsAreFull
  <2>2. \A s \in Ranks : Early(s) => status = current_index[r]
    BY <2>1 DEF Position
  <2> QED
    BY <1>5, <2>2
<1>12. Local(r)'
  <2>1. Due(r)' = Count(r)'
    <3>1. CallsBefore(Done(r))' = CallsBefore(Done(r))
      BY <1>10
    <3>2. Count(r) = CallsBefore(Done(r))
      BY <1>2, <1>3, <1>4 DEF Due
    <3> QED
      BY <1>4, <1>6, <1>7, <1>10, <3>1, <3>2 DEF Due
  <2>2. Where(r)'
    BY <1>4, <1>5, <1>6, <1>10 DEF Where
  <2>3. Counters(r)'
    BY <1>4, <1>5, <1>6, <1>10 DEF Counters, InRound
  <2>4. LastOp(r)'
    BY <1>6, <1>10 DEF LastOp
  <2>5. Votes(r)'
    BY <1>6, <1>10 DEF Votes
  <2> QED
    BY <2>1, <2>2, <2>3, <2>4, <2>5 DEF Local
<1>13. Outvoted' /\ Together' /\ BegunTogether' /\ CreatedTogether'
  <2>1. Created(r)' /\ Settled(r)
    BY <1>2, <1>6 DEF Created, Settled
  <2>2. Position(r)' = Position(r)
    BY <1>4, <1>5, <1>10 DEF Position
  <2>3. \A s \in Ranks : Position(s)' = Position(s)
    BY <1>8, <1>11, <2>2, PositionsStay
  <2> QED
    BY <1>4, <1>8, <1>10, <2>1, <2>3, OutsideKeeps
<1>14. Stored'
  <2>1. ASSUME NEW s \in Ranks, Early(s)', Count(0)' > 0
        PROVE  calls'[0][1].value = status'
    <3>1. s # r
      BY <1>10, <2>1
    <3>2. Early(s)
      BY <1>8, <2>1, <3>1, SamePlace DEF Alone
    <3>3. Count(0) > 0
      BY <1>5, <2>1 DEF Count
    <3> QED
      BY <1>1, <1>5, <1>11, <3>2, <3>3 DEF Stored
  <2>2. at'[0] = "finished" /\ ~Given("-3")' => status' = current_index'[0]
    <3>1. CASE r = 0
      BY <1>5, <3>1
    <3>2. CASE r # 0
      <4>1. 0 \in Ranks \ {r}
        BY <3>2, MpiAssumption DEF Ranks
      <4> QED
        BY <1>1, <1>5, <1>6, <1>10, <3>2, <4>1 DEF Stored
    <3> QED
      BY <3>1, <3>2
  <2>3. ASSUME NEW s \in Ranks, Given("-1")', Done(s)' = 0
        PROVE  current_index'[s] = 0
    <3>1. Done(s)' = Done(s)
      BY <1>8, <1>10, SamePlace DEF Alone
    <3> QED
      BY <1>1, <1>5, <1>10, <2>3, <3>1 DEF Stored
  <2> QED
    BY <2>1, <2>2, <2>3 DEF Stored
<1>15. Storage'
  <2>1. ASSUME NEW n \in DSets
        PROVE  /\ Bottom(r, n)' = Bottom(r, n) /\ Top(r, n)' = Top(r, n)
               /\ Exists(r, n)' = Exists(r, n)
    <3>1. Taken(r, n)' = Taken(r, n) /\ Put(r, n)' = Put(r, n)
      BY <1>4, <1>5, <1>10 DEF Taken, Put, Progress
    <3>2. Exists(r, n)' = Exists(r, n)
      BY <1>2, <1>4, <1>6, <1>10 DEF Exists, Created, Removed
    <3> QED
      BY <1>4, <1>10, <3>1, <3>2 DEF Bottom, Top
  <2>2. PrefixIs'
    BY <1>1, <1>2, <1>4, <1>5, <1>6, <1>8, PrefixStays DEF Storage
  <2> QED
    BY <1>1, <1>2, <1>5, <1>6, <1>8, <1>11, <2>1, <2>2, StorageStays
<1> QED
  BY <1>8, <1>9, <1>12, <1>13, <1>14, <1>15, StepKeeps

\* What a run leaves when it is over on all ranks.
LEMMA FinishedIs ==
    ASSUME Inv, Finished
    PROVE  \E p \in Nat :
              /\ \A s \in Ranks : d[s] = 0 /\ at[s] = "finished" /\ current_index[s] = p
              /\ Unfinished = {} /\ complete = objects
              /\ Given("-3") => dirs = {} /\ objects = {} /\ ~prefix
              /\ ~Given("-3") =>
                    /\ status = p /\ prefix
                    /\ \A q \in Ranks, n \in DSets : <<q, n>> \in dirs
                    /\ \A q \in Ranks, n \in DSets : \A i \in Nat :
                          <<q, n, i>> \in objects <=> p <= i /\ i < precreate + p
<1>1. /\ TypeInv /\ Stored /\ Storage /\ Together /\ \A s \in Ranks : Local(s)
  BY DEF Inv
<1>2. 0 \in Ranks
  BY MpiAssumption DEF Ranks
<1>3. \A s \in Ranks : at[s] = "finished"
  BY DEF Finished
<1>4. \A s \in Ranks : /\ ~InBenchmark(s) /\ ~Ahead(s) /\ ~Early(s) /\ d[s] = 0
  <2> SUFFICES ASSUME NEW s \in Ranks
               PROVE  ~InBenchmark(s) /\ ~Ahead(s) /\ ~Early(s) /\ d[s] = 0
    OBVIOUS
  <2>1. Counters(s)
    BY <1>1 DEF Local
  <2>2. d[s] = 0
    BY <1>3, <2>1 DEF Counters, InRound
  <2> QED
    BY <1>3, <2>2 DEF InBenchmark, Ahead, Early
<1>5. Done(0) = Iterations
  <2>1. Where(0)
    BY <1>1, <1>2 DEF Local
  <2> QED
    BY <1>2, <1>3, <1>4, <2>1 DEF Where, Done
<1>6. PICK p \in Nat : p = current_index[0]
  BY <1>1, <1>2 DEF TypeInv
<1>7. Position(0) = p
  BY <1>2, <1>4, <1>6 DEF Position
<1>8. \A s \in Ranks : /\ current_index[s] = p
                       /\ \A n : Bottom(s, n) = p /\ Top(s, n) = precreate + p
  <2>1. \A s \in Ranks : /\ Position(s) = p
                         /\ \A n : Bottom(s, n) = p /\ Top(s, n) = precreate + p
    BY <1>1, <1>2, <1>4, <1>5, <1>7, WindowsAreFull
  <2> QED
    BY <1>4, <2>1 DEF Position
<1>9. Unfinished = {}
  BY <1>3 DEF Unfinished
<1>10. complete = objects
  BY <1>1, <1>9 DEF Storage
<1>11. \A q \in Ranks, n \in DSets : \A i \in Nat :
          <<q, n, i>> \in objects <=> Exists(q, n) /\ p <= i /\ i < precreate + p
  <2> SUFFICES ASSUME NEW q \in Ranks, NEW n \in DSets, NEW i \in Nat
               PROVE  <<q, n, i>> \in objects <=> Exists(q, n) /\ p <= i /\ i < precreate + p
    OBVIOUS
  <2>1. WriteRank(q, n) \in Ranks /\ ReadRank(q, n) \in Ranks
    BY <1>1, OneReaderOneWriter
  <2>2. Bottom(WriteRank(q, n), n) = p /\ Top(ReadRank(q, n), n) = precreate + p
    BY <1>8, <2>1
  <2> QED
    BY <1>1, <2>2 DEF Storage, InWindow
<1>12. \A q \in Ranks, n \in DSets : Exists(q, n) <=> ~Given("-3")
  BY <1>3 DEF Exists, Created, Removed
<1>13. prefix <=> ~Given("-3")
  BY <1>1, <1>2, <1>3 DEF Storage, PrefixIs
<1>14. Given("-3") => dirs = {} /\ objects = {}
  <2>1. dirs \subseteq Ranks \X DSets /\ objects \subseteq Ranks \X DSets \X Nat
    BY <1>1 DEF TypeInv
  <2>2. \A q \in Ranks, n \in DSets : <<q, n>> \in dirs <=> Exists(q, n)
    BY <1>1 DEF Storage
  <2>3. Given("-3") => dirs = {}
    BY <1>12, <2>1, <2>2
  <2>4. Given("-3") => objects = {}
    BY <1>11, <1>12, <2>1
  <2> QED
    BY <2>3, <2>4
<1>15. ~Given("-3") => /\ status = p
                       /\ \A q \in Ranks, n \in DSets : <<q, n>> \in dirs
                       /\ \A q \in Ranks, n \in DSets : \A i \in Nat :
                             <<q, n, i>> \in objects <=> p <= i /\ i < precreate + p
  <2>1. ~Given("-3") => status = p
    BY <1>1, <1>2, <1>3, <1>6 DEF Stored
  <2>2. \A q \in Ranks, n \in DSets : <<q, n>> \in dirs <=> Exists(q, n)
    BY <1>1 DEF Storage
  <2> QED
    BY <1>11, <1>12, <2>1, <2>2
<1> QED
  BY <1>3, <1>4, <1>8, <1>9, <1>10, <1>13, <1>14, <1>15

\* NextRun: the run that is started next finds what it needs, or nothing when
\* it is to create it.
LEMMA NextRunKeeps ==
    ASSUME Usable, Inv, NextRun
    PROVE  Inv'
<1>1. Finished /\ TypeInv
  BY DEF NextRun, Inv
<1>2. /\ plan' = plan /\ run' = run + 1 /\ run < Len(plan.runs)
      /\ at' = [r \in Ranks |-> "start"] /\ calls' = NoCalls
      /\ global_iteration' = [r \in Ranks |-> 0]
      /\ current_index' = [r \in Ranks |-> 0]
      /\ UNCHANGED <<phase, f, d, total_num, armed_stone_wall, stonewall_iterations, err>>
      /\ UNCHANGED <<prefix, dirs, objects, complete, status>>
  BY DEF NextRun, counters, storage
<1>3. PICK p \in Nat :
          /\ \A s \in Ranks : d[s] = 0 /\ at[s] = "finished" /\ current_index[s] = p
          /\ Unfinished = {} /\ complete = objects
          /\ Given("-3") => dirs = {} /\ objects = {} /\ ~prefix
          /\ ~Given("-3") =>
                /\ status = p /\ prefix
                /\ \A q \in Ranks, n \in DSets : <<q, n>> \in dirs
                /\ \A q \in Ranks, n \in DSets : \A i \in Nat :
                      <<q, n, i>> \in objects <=> p <= i /\ i < precreate + p
  BY <1>1, FinishedIs
<1>4. Given("-1")' <=> Given("-3")
  <2>1. run \in 1..Len(plan.runs) /\ plan \in Plans /\ Len(plan.runs) \in Nat
    BY <1>1, RunsAre DEF TypeInv
  <2>2. run \in 1..(Len(plan.runs) - 1)
    BY <1>2, <2>1
  <2>3. InTurn(plan.runs)
    BY <2>1 DEF Usable
  <2>4. "-1" \in plan.runs[run + 1] <=> "-3" \in plan.runs[run]
    BY <2>2, <2>3 DEF InTurn
  <2> QED
    BY <1>2, <2>4 DEF Given
<1>5. \A r \in Ranks : /\ at'[r] = "start" /\ global_iteration'[r] = 0 /\ current_index'[r] = 0
                       /\ calls'[r] = << >> /\ Count(r)' = 0
  BY <1>2 DEF NoCalls, Count
<1>6. TypeInv'
  <2>1. calls' \in CallsIn(Nat)
    BY <1>2 DEF NoCalls, CallsIn
  <2>2. run' \in 1..Len(plan.runs)
    <3>1. run \in 1..Len(plan.runs) /\ Len(plan.runs) \in Nat
      BY <1>1, RunsAre DEF TypeInv
    <3> QED
      BY <1>2, <3>1
  <2>3. at' \in [Ranks -> Places]
    BY <1>2 DEF Places
  <2>4. global_iteration' \in [Ranks -> Nat] /\ current_index' \in [Ranks -> Nat]
    BY <1>2
  <2> QED
    BY <1>1, <1>2, <2>1, <2>2, <2>3, <2>4 DEF TypeInv, DSets
<1>7. \A r \in Ranks : /\ ~InBenchmark(r)' /\ ~Ahead(r)' /\ Done(r)' = 0 /\ ~Begun(r)'
                       /\ ~Settled(r)'
                       /\ (Early(r)' <=> ~Given("-1")')
  BY <1>5 DEF InBenchmark, Ahead, Done, Begun, Settled, Early
<1>8. ASSUME NEW r \in Ranks PROVE Local(r)'
  <2>1. Due(r)' = 0
    BY <1>5 DEF Due
  <2>2. Where(r)'
    BY <1>5, <1>7 DEF Where
  <2>3. Counters(r)'
    BY <1>2, <1>3, <1>5, <1>7 DEF Counters, InRound
  <2>4. LastOp(r)'
    BY <1>5, <1>7 DEF LastOp
  <2>5. Votes(r)'
    BY <1>5, <1>7 DEF Votes
  <2> QED
    BY <1>5, <2>1, <2>2, <2>3, <2>4, <2>5 DEF Local
<1>9. Outvoted'
  BY <1>7 DEF Outvoted
<1>10. Together'
  <2>1. \A r \in Ranks : Position(r)' = IF Given("-1")' THEN 0 ELSE status'
    BY <1>5, <1>7 DEF Position
  <2> QED
    BY <1>7, <2>1 DEF Together
<1>11. BegunTogether' /\ CreatedTogether'
  BY <1>7 DEF BegunTogether, CreatedTogether
<1>12. Stored'
  <2>1. 0 \in Ranks
    BY MpiAssumption DEF Ranks
  <2> QED
    BY <1>5, <2>1 DEF Stored
<1>13. Storage'
  <2>1. DSets' = DSets /\ 0 \in Ranks
    BY <1>2, MpiAssumption DEF DSets, Ranks
  <2>2. \A q \in Ranks, n \in DSets : Exists(q, n)' <=> ~Given("-1")'
    BY <1>5 DEF Exists, Created, Removed
  <2>3. Unfinished' = {}
    BY <1>5 DEF Unfinished
  <2>4. PrefixIs'
    BY <1>2, <1>3, <1>4, <1>5, <2>1 DEF PrefixIs
  <2>5. \A q \in Ranks, n \in DSets : <<q, n>> \in dirs' <=> Exists(q, n)'
    BY <1>2, <1>3, <1>4, <2>2
  <2>6. ASSUME NEW q \in Ranks, NEW n \in DSets, NEW i \in Nat
        PROVE  <<q, n, i>> \in objects' <=> InWindow(q, n, i)'
    <3>1. CASE Given("-3")
      <4>1. <<q, n, i>> \notin objects'
        BY <1>2, <1>3, <3>1
      <4>2. ~InWindow(q, n, i)'
        BY <1>4, <2>2, <3>1 DEF InWindow
      <4> QED
        BY <4>1, <4>2
    <3>2. CASE ~Given("-3")
      <4>1. WriteRank(q, n) \in Ranks /\ ReadRank(q, n) \in Ranks
        BY <1>1, OneReaderOneWriter
      <4>2. PICK a \in Ranks, b \in Ranks : a = ReadRank(q, n) /\ b = WriteRank(q, n)
        BY <4>1
      <4>3. a = ReadRank(q, n)' /\ b = WriteRank(q, n)'
        BY <4>2 DEF ReadRank, WriteRank
      <4>4. Early(a)' /\ Early(b)' /\ status' = p
        BY <1>2, <1>3, <1>4, <1>7, <3>2
      <4>5. Bottom(b, n)' = p /\ Top(a, n)' = precreate + p
        BY <4>4 DEF Bottom, Top
      <4>6. InWindow(q, n, i)' <=> p <= i /\ i < precreate + p
        BY <1>4, <2>2, <3>2, <4>3, <4>5 DEF InWindow
      <4> QED
        BY <1>2, <1>3, <3>2, <4>6
    <3> QED
      BY <3>1, <3>2
  <2>7. complete' = objects' \ Unfinished'
    BY <1>2, <1>3, <2>3
  <2> QED
    BY <2>1, <2>4, <2>5, <2>6, <2>7 DEF Storage
<1> QED
  BY <1>6, <1>8, <1>9, <1>10, <1>11, <1>12, <1>13 DEF Inv

----------------------------------------------------------------------------
(* The invariant holds.                                                    *)

\* At the start nothing is there, and the first run is to create it.
LEMMA InvInit ==
    ASSUME Usable, Init
    PROVE  Inv
<1>1. /\ plan \in Plans /\ run = 1 /\ calls = NoCalls
      /\ prefix = FALSE /\ dirs = {} /\ objects = {} /\ complete = {} /\ status = 0
      /\ \A r \in Ranks : /\ at[r] = "start" /\ calls[r] = << >> /\ Count(r) = 0
                          /\ phase[r] = "precreate" /\ global_iteration[r] = 0 /\ d[r] = 0
                          /\ current_index[r] = 0
  BY DEF Init, NoCalls, Count
<1>2. Given("-1") /\ run \in 1..Len(plan.runs)
  <2>1. Len(plan.runs) \in Nat
    BY <1>1, RunsAre
  <2>2. Len(plan.runs) > 0 /\ "-1" \in plan.runs[1]
    BY <1>1 DEF Usable, InTurn
  <2> QED
    BY <1>1, <2>1, <2>2 DEF Given
<1>3. TypeInv
  <2>1. calls \in CallsIn(Nat)
    BY <1>1 DEF NoCalls, CallsIn
  <2>2. plan.num \in Nat
    <3>1. plan \in PlanType
      BY <1>1, WorkbenchAssumption
    <3>2. plan.num \in 1..precreate
      BY <3>1 DEF PlanType
    <3> QED
      BY <3>2, WorkbenchAssumption
  <2>3. /\ at \in [Ranks -> Places]
        /\ phase \in [Ranks -> {"precreate", "benchmark", "cleanup"}]
        /\ total_num \in [Ranks -> Nat]
    BY <2>2 DEF Init, Places
  <2>4. /\ global_iteration \in [Ranks -> Nat] /\ f \in [Ranks -> Nat] /\ d \in [Ranks -> Nat]
        /\ armed_stone_wall \in [Ranks -> BOOLEAN] /\ stonewall_iterations \in [Ranks -> Nat]
        /\ current_index \in [Ranks -> Nat] /\ err \in [Ranks -> {0}]
    BY DEF Init
  <2> QED
    BY <1>1, <1>2, <2>1, <2>3, <2>4 DEF TypeInv
<1>4. \A r \in Ranks : /\ ~InBenchmark(r) /\ ~Ahead(r) /\ Done(r) = 0 /\ ~Begun(r)
                       /\ ~Settled(r) /\ ~Early(r)
  BY <1>1, <1>2 DEF InBenchmark, Ahead, Done, Begun, Settled, Early
<1>5. ASSUME NEW r \in Ranks PROVE Local(r)
  <2>1. Due(r) = 0
    BY <1>1 DEF Due
  <2>2. Where(r)
    BY <1>1, <1>4 DEF Where
  <2>3. Counters(r)
    BY <1>1, <1>4 DEF Counters, InRound
  <2>4. LastOp(r)
    BY <1>1, <1>4 DEF LastOp
  <2>5. Votes(r)
    BY <1>1, <1>4 DEF Votes
  <2> QED
    BY <1>1, <2>1, <2>2, <2>3, <2>4, <2>5 DEF Local
<1>6. Outvoted /\ BegunTogether /\ CreatedTogether
  BY <1>4 DEF Outvoted, BegunTogether, CreatedTogether
<1>7. Together
  BY <1>1, <1>4 DEF Together, Position
<1>8. 0 \in Ranks
  BY MpiAssumption DEF Ranks
<1>9. Stored
  BY <1>1, <1>8 DEF Stored
<1>10. Storage
  <2>1. \A q \in Ranks, n \in DSets : ~Exists(q, n)
    BY <1>1, <1>2 DEF Exists, Created
  <2>2. PrefixIs
    BY <1>1, <1>2, <1>8 DEF PrefixIs
  <2> QED
    BY <1>1, <2>1, <2>2 DEF Storage, InWindow
<1> QED
  BY <1>3, <1>5, <1>6, <1>7, <1>9, <1>10 DEF Inv

\* When nothing happens it goes on to hold.
LEMMA InvStutter ==
    ASSUME Inv, UNCHANGED vars
    PROVE  Inv'
<1>1. /\ plan' = plan /\ run' = run /\ at' = at /\ calls' = calls /\ phase' = phase
      /\ global_iteration' = global_iteration /\ f' = f /\ d' = d /\ total_num' = total_num
      /\ armed_stone_wall' = armed_stone_wall /\ stonewall_iterations' = stonewall_iterations
      /\ current_index' = current_index /\ err' = err
      /\ prefix' = prefix /\ dirs' = dirs /\ objects' = objects /\ complete' = complete
      /\ status' = status
  BY DEF vars, private, counters, storage
<1>2. /\ TypeInv /\ Stored /\ Storage /\ Together /\ \A s \in Ranks : Local(s)
      /\ Outvoted /\ BegunTogether /\ CreatedTogether
  BY DEF Inv
<1>3. TypeInv'
  BY <1>1, <1>2 DEF TypeInv, DSets
<1>4. ASSUME NEW r \in Ranks PROVE Alone(r) /\ Same(r)
  BY <1>1, <1>2, <1>4, NotCalled DEF Alone, Same
<1>5. /\ \A o : Given(o)' = Given(o)
      /\ \A g : CallsBefore(g)' = CallsBefore(g)
      /\ \A g : VoteNumber(g)' = VoteNumber(g)
      /\ Iterations' = Iterations /\ DSets' = DSets /\ Agreement' = Agreement
  BY <1>1, SameRun
<1>6. ASSUME NEW r \in Ranks
      PROVE  /\ Done(r)' = Done(r) /\ InBenchmark(r)' = InBenchmark(r) /\ Ahead(r)' = Ahead(r)
             /\ Early(r)' = Early(r) /\ Count(r)' = Count(r) /\ Begun(r)' = Begun(r)
             /\ Voted(r)' = Voted(r) /\ Position(r)' = Position(r) /\ New(r)' = New(r)
             /\ \A n : Bottom(r, n)' = Bottom(r, n) /\ Top(r, n)' = Top(r, n)
             /\ \A n : Exists(r, n)' = Exists(r, n)
  BY <1>1, <1>4, SamePlace, SameWindow
<1>7. ASSUME NEW r \in Ranks PROVE Local(r)'
  <2>1. Local(r)
    BY <1>2
  <2>2. Due(r)' = Due(r)
    <3>1. CallsBefore(Done(r))' = CallsBefore(Done(r))
      BY <1>5, <1>6
    <3> QED
      BY <1>1, <1>5, <1>6, <3>1 DEF Due
  <2>3. Where(r)'
    BY <1>1, <1>5, <1>6, <2>1 DEF Local, Where
  <2>4. Counters(r)'
    BY <1>1, <1>5, <1>6, <2>1 DEF Local, Counters, InRound
  <2>5. LastOp(r)'
    BY <1>1, <1>6, <2>1 DEF Local, LastOp
  <2>6. Votes(r)'
    BY <1>1, <1>5, <1>6, <2>1 DEF Local, Votes, Vote
  <2> QED
    BY <1>6, <2>1, <2>2, <2>3, <2>4, <2>5, <2>6 DEF Local
<1>8. 0 \in Ranks
  BY MpiAssumption DEF Ranks
<1>9. Outvoted'
  <2>1. (InBenchmark(0) /\ ~armed_stone_wall[0] /\ at[0] # "wearout")'
          => Rounds(total_num[0], global_iteration[0])'
    <3> SUFFICES ASSUME InBenchmark(0), ~armed_stone_wall[0], at[0] # "wearout"
                 PROVE  Rounds(total_num[0], global_iteration[0])'
      BY <1>1, <1>6, <1>8
    <3>1. Rounds(total_num[0], global_iteration[0])
      BY <1>2, <1>8 DEF Outvoted
    <3>2. Local(0)
      BY <1>2, <1>8
    <3>3. PICK v \in Nat, g \in Nat \ {0} : v = total_num[0] /\ g = global_iteration[0]
      <4>1. total_num[0] \in Nat
        BY <1>2, <1>8 DEF TypeInv
      <4>2. global_iteration[0] = Done(0) + 1 /\ Done(0) \in Nat
        BY <1>2, <1>8, <3>2, DoneIs
      <4> QED
        BY <4>1, <4>2
    <3>4. Rounds(v, g)'
      BY <1>2, <1>4, <1>8, <3>1, <3>3, RoundsStay
    <3> QED
      BY <1>1, <3>3, <3>4
  <2> QED
    BY <1>2, <1>4, <1>8, <2>1, OutvotedStays
<1>10. Together'
  BY <1>1, <1>2, <1>4, <1>6, <1>8, TogetherStays
<1>11. BegunTogether'
  BY <1>1, <1>2, <1>6 DEF BegunTogether, AllIn
<1>12. CreatedTogether'
  BY <1>1, <1>2, <1>5 DEF CreatedTogether, Created, Settled
<1>13. Stored'
  BY <1>1, <1>2, <1>5, <1>6, <1>8 DEF Stored
<1>14. Storage'
  <2>1. ASSUME NEW q \in Ranks, NEW n \in DSets, NEW i \in Nat
        PROVE  InWindow(q, n, i)' <=> InWindow(q, n, i)
    <3>1. WriteRank(q, n) \in Ranks /\ ReadRank(q, n) \in Ranks
      BY <1>2, OneReaderOneWriter
    <3>2. PICK a \in Ranks, b \in Ranks : a = ReadRank(q, n) /\ b = WriteRank(q, n)
      BY <3>1
    <3>3. a = ReadRank(q, n)' /\ b = WriteRank(q, n)'
      BY <3>2 DEF ReadRank, WriteRank
    <3> QED
      BY <1>6, <3>2, <3>3 DEF InWindow
  <2>2. Unfinished' = Unfinished
    BY <1>1, <1>6 DEF Unfinished
  <2>3. PrefixIs'
    BY <1>1, <1>2, <1>5 DEF Storage, PrefixIs
  <2>4. \A q \in Ranks, n \in DSets : <<q, n>> \in dirs' <=> Exists(q, n)'
    BY <1>1, <1>2, <1>6 DEF Storage
  <2>5. ASSUME NEW q \in Ranks, NEW n \in DSets, NEW i \in Nat
        PROVE  <<q, n, i>> \in objects' <=> InWindow(q, n, i)'
    BY <1>1, <1>2, <2>1 DEF Storage
  <2>6. complete' = objects' \ Unfinished'
    BY <1>1, <1>2, <2>2 DEF Storage
  <2> QED
    BY <1>5, <2>3, <2>4, <2>5, <2>6 DEF Storage
<1> QED
  BY <1>3, <1>7, <1>9, <1>10, <1>11, <1>12, <1>13, <1>14 DEF Inv

\* The options never change.
LEMMA PlanStays ==
    ASSUME [Next]_vars
    PROVE  plan' = plan
<1>1. ASSUME NEW r \in Ranks, Step(r) PROVE plan' = plan
  BY <1>1 DEF Step, Start, return_position, Begin, run_precreate, EndPhaseReduce, Iterate, Stat,
     Read, Remove, Create, Write, RoundEnd, StoneWall, WearOut, RoundsDone, Agreed, Cleanup,
     RemovePrefix, store_position
<1> QED
  BY <1>1 DEF Next, NextRun, vars

\* Every step of a rank keeps the invariant.
LEMMA InvStep ==
    ASSUME Usable, Careful, Inv, NEW r \in Ranks, Step(r)
    PROVE  Inv'
BY StartKeeps, PositionKeeps, BeginKeeps, PrecreateKeeps, ReduceKeeps, IterateKeeps, StatKeeps,
   ReadKeeps, RemoveKeeps, CreateKeeps, WriteKeeps, RoundEndKeeps, StoneWallKeeps, WearOutKeeps,
   RoundsDoneKeeps, AgreedKeeps, CleanupKeeps, RemovePrefixKeeps, StorePositionKeeps DEF Step

\* With -W whenever there is -w, the invariant holds in every state of every
\* sequence of runs.
THEOREM WorkbenchInvariant ==
    ASSUME Usable
    PROVE  Spec => [](Careful => Inv)
<1>1. Init => (Careful => Inv)
  BY InvInit
<1>2. (Careful => Inv) /\ [Next]_vars => (Careful => Inv)'
  <2> SUFFICES ASSUME Careful => Inv, [Next]_vars, Careful'
               PROVE  Inv'
    OBVIOUS
  <2>1. plan' = plan
    BY PlanStays
  <2>2. Inv /\ Careful
    BY <2>1 DEF Careful
  <2> QED
    BY <2>2, InvStep, NextRunKeeps, InvStutter DEF Next
<1> QED
  BY <1>1, <1>2, PTL DEF Spec

\* A rank finds every object it looks for, written in full: no operation of
\* run_benchmark ends in an error, and no rank aborts.
THEOREM NothingIsMissed ==
    ASSUME Usable
    PROVE  Spec => []NothingMissed
<1>1. (Careful => Inv) => NothingMissed
  <2> SUFFICES ASSUME Inv
               PROVE  (\A r \in Ranks : err[r] = 0) /\ ~Aborted
    BY DEF NothingMissed
  <2>1. TypeInv /\ 0 \in Ranks
    BY MpiAssumption DEF Inv, Ranks
  <2>2. at[0] # "aborted"
    BY <2>1 DEF TypeInv, Places
  <2> QED
    BY <2>1, <2>2 DEF TypeInv, Aborted
<1> QED
  BY <1>1, WorkbenchInvariant, PTL

\* A data set holds what its one writer has put there and its one reader has
\* not taken, for all interleavings of the ranks within an iteration.
THEOREM DataSetsAreWindows ==
    ASSUME Usable
    PROVE  Spec => []Window
<1>1. (Careful => Inv) => Window
  <2> DEFINE I(q, n) == Taken(WriteRank(q, n), n)..(precreate + Put(ReadRank(q, n), n) - 1)
             Set(q, n) == {q} \X {n} \X I(q, n)
             W == UNION {Set(q, n) : q \in Ranks, n \in DSets}
  <2> SUFFICES ASSUME Inv, NEW r \in Ranks, InBenchmark(r), Ready(r)
               PROVE  objects = W
    BY DEF Window
  <2>1. /\ TypeInv /\ Storage /\ Together /\ \A s \in Ranks : Local(s)
        /\ AllIn(r) /\ \A s \in Ranks : ~Early(s)
    BY InsideIs
  <2>2. ASSUME NEW q \in Ranks, NEW n \in DSets, NEW i \in Nat
        PROVE  <<q, n, i>> \in objects <=> i \in I(q, n)
    <3>1. PICK a \in Ranks, b \in Ranks : a = ReadRank(q, n) /\ b = WriteRank(q, n)
      BY <2>1, OneReaderOneWriter
    <3>2. n \in Nat /\ precreate \in Nat
      BY <2>1, DSetsAre, PlanIs
    <3>3. Exists(q, n)
      BY <2>1, <3>2, WindowBounds
    <3>4. Taken(b, n) \in Nat /\ Put(a, n) \in Nat
      BY <2>1, <3>2, WindowIs
    <3>5. Bottom(b, n) = Taken(b, n) /\ Top(a, n) = precreate + Put(a, n)
      BY <2>1 DEF Bottom, Top
    <3>6. <<q, n, i>> \in objects <=> Taken(b, n) <= i /\ i < precreate + Put(a, n)
      BY <2>1, <3>1, <3>3, <3>5 DEF Storage, InWindow
    <3> QED
      BY <3>1, <3>2, <3>4, <3>6
  <2>3. ASSUME NEW q \in Ranks, NEW n \in DSets
        PROVE  I(q, n) \subseteq Nat
    <3>1. PICK a \in Ranks, b \in Ranks : a = ReadRank(q, n) /\ b = WriteRank(q, n)
      BY <2>1, OneReaderOneWriter
    <3>2. n \in Nat /\ precreate \in Nat
      BY <2>1, DSetsAre, PlanIs
    <3>3. Taken(b, n) \in Nat /\ Put(a, n) \in Nat
      BY <2>1, <3>2, WindowIs
    <3> QED
      BY <3>1, <3>2, <3>3
  <2>4. objects \subseteq Ranks \X DSets \X Nat
    BY <2>1 DEF TypeInv
  <2> HIDE DEF I
  <2>5. ASSUME NEW x \in objects PROVE x \in W
    <3>1. PICK q \in Ranks, n \in DSets, i \in Nat : x = <<q, n, i>>
      BY <2>4
    <3>2. i \in I(q, n)
      BY <2>2, <3>1
    <3>3. x \in Set(q, n)
      BY <3>1, <3>2
    <3> HIDE DEF Set
    <3> QED
      BY <3>3
  <2>6. ASSUME NEW x \in W PROVE x \in objects
    <3>1. PICK q \in Ranks, n \in DSets : x \in Set(q, n)
      OBVIOUS
    <3>2. PICK i \in I(q, n) : x = <<q, n, i>>
      BY <3>1
    <3>3. i \in Nat
      BY <2>3
    <3> QED
      BY <2>2, <3>2, <3>3
  <2> QED
    BY <2>5, <2>6
<1> QED
  BY <1>1, WorkbenchInvariant, PTL

\* A run without -3 leaves the full working set at the position that it has
\* stored for the next one.
THEOREM NextRunFindsTheSet ==
    ASSUME Usable
    PROVE  Spec => []Resumable
<1>1. (Careful => Inv) => Resumable
  <2> SUFFICES ASSUME Inv, Finished, ~Given("-3")
               PROVE  /\ objects = Ranks \X DSets \X (status..(status + precreate - 1))
                      /\ complete = objects
    BY DEF Resumable
  <2>1. PICK p \in Nat :
            /\ complete = objects /\ status = p
            /\ \A q \in Ranks, n \in DSets : \A i \in Nat :
                  <<q, n, i>> \in objects <=> p <= i /\ i < precreate + p
    BY FinishedIs
  <2>2. TypeInv /\ precreate \in Nat \ {0}
    BY PlanIs DEF Inv
  <2>3. p..(p + precreate - 1) = {i \in Nat : p <= i /\ i < precreate + p}
    BY <2>2
  <2>4. objects \subseteq Ranks \X DSets \X Nat
    BY <2>2 DEF TypeInv
  <2>5. objects = Ranks \X DSets \X (p..(p + precreate - 1))
    BY <2>1, <2>3, <2>4
  <2> QED
    BY <2>1, <2>5
<1> QED
  BY <1>1, WorkbenchInvariant, PTL

\* A run with -3 leaves nothing behind: each rank removes what others have
\* created in its data sets.
THEOREM CleanupIsComplete ==
    ASSUME Usable
    PROVE  Spec => []CleanedUp
<1>1. (Careful => Inv) => CleanedUp
  BY FinishedIs DEF CleanedUp
<1> QED
  BY <1>1, WorkbenchInvariant, PTL
=============================================================================
