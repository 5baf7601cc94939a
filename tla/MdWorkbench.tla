---------------------------- MODULE MdWorkbench ----------------------------
(***************************************************************************)
(* md-workbench (md-workbench.c): runs of the program that create a working *)
(* set of objects (-1), benchmark on it (-2) and remove it (-3), and pass   *)
(* the position in the set on in a status file.  In the benchmark a rank    *)
(* takes the oldest object of another rank's data set, and puts a new one   *)
(* into the data set of a third: each data set is a FIFO with one reader    *)
(* and one writer, and nothing but the barriers between the benchmark's     *)
(* iterations keeps the two apart.                                          *)
(***************************************************************************)
EXTENDS Mpi

CONSTANTS Offset,      \* option -O
          precreate,   \* option -P
          StartItem,   \* option --start-item
          Plans        \* what the runs of the program may be

\* runs: the options of the runs in their order; -D, -I, -R (8 times that with
\* -T), -w and -W hold for all of them.  num > precreate is warned of: "this
\* may cause the situation that no objects are available to read".
PlanType == [runs : Seq(SUBSET {"-1", "-2", "-3", "--read-only"}),
             dset_count : Nat \ {0}, num : 1..precreate,
             iterations : Nat \ {0},
             stonewall : BOOLEAN, wearOut : BOOLEAN]

ASSUME WorkbenchAssumption ==
    /\ Offset \in Nat
    /\ precreate \in Nat \ {0}
    /\ StartItem \in Nat
    /\ Plans \subseteq PlanType

VARIABLES
    plan,           \* the runs
    run,            \* number of the current one
    at,             \* where each rank is
    phase,          \* the phase end_phase was called for
    global_iteration,
    f, d,           \* the loop counters of run_benchmark and run_cleanup
    total_num, armed_stone_wall, stonewall_iterations,
    current_index,  \* index of the oldest object
    err,            \* obj_stat.err + obj_read.err
    prefix,         \* does the output directory exist
    dirs,           \* the data sets there are
    objects,        \* the objects there are
    complete,       \* objects that are written in full
    status          \* position in the status file

counters == <<f, d, total_num, armed_stone_wall, stonewall_iterations>>
private == <<phase, global_iteration, counters, current_index, err>>
storage == <<prefix, dirs, objects, complete, status>>
vars == <<plan, run, at, calls, private, storage>>

DSets == 0..(plan.dset_count - 1)

Init ==
    /\ plan \in Plans
    /\ run = 1
    /\ at = [r \in Ranks |-> "start"]
    /\ calls = NoCalls
    /\ phase = [r \in Ranks |-> "precreate"]
    /\ global_iteration = [r \in Ranks |-> 0]
    /\ f = [r \in Ranks |-> 0]
    /\ d = [r \in Ranks |-> 0]
    /\ total_num = [r \in Ranks |-> plan.num]
    /\ armed_stone_wall = [r \in Ranks |-> FALSE]
    /\ stonewall_iterations = [r \in Ranks |-> 0]
    /\ current_index = [r \in Ranks |-> 0]
    /\ err = [r \in Ranks |-> 0]
    /\ prefix = FALSE
    /\ dirs = {}
    /\ objects = {}
    /\ complete = {}
    /\ status = 0

----------------------------------------------------------------------------
At(r, place) == at[r] = place /\ Ready(r)
GoTo(r, place) == at' = [at EXCEPT ![r] = place]

\* ERRF and FAIL end in MPI_Abort.
Abort == at' = [r \in Ranks |-> "aborted"]

\* Is option o given in this run?  Without any of the phases it has all.
Given(o) == o \in plan.runs[run]

----------------------------------------------------------------------------
(* The start, and the precreation.                                         *)

\* The collectives of the set-up come before anything modelled here.
Start(r) ==
    /\ At(r, "start")
    /\ IF Given("-1")
       THEN /\ current_index' = [current_index EXCEPT ![r] = StartItem]
            /\ GoTo(r, "begin")
            /\ UNCHANGED calls
       ELSE /\ Send(r, "Bcast", status)
            /\ GoTo(r, "position")
            /\ UNCHANGED current_index
    /\ UNCHANGED <<plan, run, phase, global_iteration, counters, err, storage>>

\* return_position, overridden by --start-item.
return_position(r) ==
    /\ At(r, "position")
    /\ current_index' = [current_index EXCEPT
                           ![r] = IF StartItem # 0 THEN StartItem
                                  ELSE Sent(0, r)]
    /\ GoTo(r, "begin")
    /\ UNCHANGED <<plan, run, calls, phase, global_iteration, counters, err,
                   storage>>

Begin(r) ==
    /\ At(r, "begin")
    /\ prefix' = (prefix \/ (Given("-1") /\ r = 0))
    /\ CallIf(Given("-1"), r, "Barrier")
    /\ GoTo(r, IF Given("-1") THEN "precreate" ELSE "next")
    /\ UNCHANGED <<plan, run, private, dirs, objects, complete, status>>

\* Called for a phase: the first call of end_phase.
EndPhase(r, name) ==
    /\ phase' = [phase EXCEPT ![r] = name]
    /\ Call(r, "Barrier")
    /\ GoTo(r, "reduce")

\* One step: nobody else works in the data sets of r before the barrier.
run_precreate(r) ==
    /\ At(r, "precreate")
    /\ IF prefix /\ dirs \cap ({r} \X DSets) = {}
       THEN /\ dirs' = dirs \cup ({r} \X DSets)
            /\ LET new == {r} \X DSets \X (current_index[r]..(precreate - 1))
               IN /\ objects' = objects \cup new
                  /\ complete' = complete \cup new
            /\ stonewall_iterations' = [stonewall_iterations EXCEPT ![r] = 0]
            /\ EndPhase(r, "precreate")
       ELSE /\ Abort
            /\ UNCHANGED <<calls, phase, stonewall_iterations, dirs, objects,
                           complete>>
    /\ UNCHANGED <<plan, run, global_iteration, f, d, total_num,
                   armed_stone_wall, current_index, err, prefix, status>>

\* The reductions to rank 0, one more of them with a stonewall; only rank 0
\* waits in them.
EndPhaseReduce(r) ==
    /\ At(r, "reduce")
    /\ LET reductions == IF stonewall_iterations[r] # 0 THEN 2 ELSE 1
       IN calls' = [calls EXCEPT ![r] = @ \o [k \in 1..reductions |->
                                               [op |-> "Reduce", value |-> 0]]]
    /\ GoTo(r, IF phase[r] = "cleanup" THEN "rmdir" ELSE "next")
    /\ UNCHANGED <<plan, run, private, storage>>

----------------------------------------------------------------------------
(* The benchmark.                                                          *)

\* The loop of md_workbench_run over the iterations, and what follows it.
Iterate(r) ==
    /\ At(r, "next")
    /\ stonewall_iterations' = [stonewall_iterations EXCEPT ![r] = 0]
    /\ IF Given("-2") /\ global_iteration[r] < plan.iterations
       THEN /\ global_iteration' = [global_iteration EXCEPT ![r] = @ + 1]
            /\ f' = [f EXCEPT ![r] = 0]
            /\ total_num' = [total_num EXCEPT ![r] = plan.num]
            /\ armed_stone_wall' = [armed_stone_wall EXCEPT
                                      ![r] = plan.stonewall]
            /\ Call(r, "Barrier")
            /\ GoTo(r, "stat")
       ELSE /\ GoTo(r, IF Given("-3") THEN "cleanup" ELSE "store")
            /\ UNCHANGED <<calls, global_iteration, f, total_num,
                           armed_stone_wall>>
    /\ UNCHANGED <<plan, run, phase, d, current_index, err, storage>>

\* readRank and writeRank for data set n.  The code adds size where C's %
\* gives a negative number.
ReadRank(r, n) == (r - Offset * (n + 1)) % N

WriteRank(r, n) == (r + Offset * (n + 1)) % N

\* The object r takes, and the one it creates, in round f of data set d.
Old(r) == <<ReadRank(r, d[r]), d[r], current_index[r] + f[r]>>
New(r) == <<WriteRank(r, d[r]), d[r], precreate + current_index[r] + f[r]>>

\* The loop over the data sets goes on, with or without "continue".
NextSet(r) ==
    IF d[r] + 1 < plan.dset_count
    THEN d' = [d EXCEPT ![r] = @ + 1] /\ GoTo(r, "stat")
    ELSE d' = [d EXCEPT ![r] = 0] /\ GoTo(r, "roundEnd")

Stat(r) ==
    /\ At(r, "stat")
    /\ IF Old(r) \in objects
       THEN GoTo(r, "read") /\ UNCHANGED <<d, err>>
       ELSE NextSet(r) /\ err' = [err EXCEPT ![r] = @ + 1]
    /\ UNCHANGED <<plan, run, calls, phase, global_iteration, f, total_num,
                   armed_stone_wall, stonewall_iterations, current_index,
                   storage>>

\* Opening what is gone ends the run; an object that is not written in full
\* is an error.
Read(r) ==
    /\ At(r, "read")
    /\ IF Old(r) \in objects
       THEN /\ err' = [err EXCEPT
                         ![r] = IF Old(r) \in complete THEN @ ELSE @ + 1]
            /\ IF Given("--read-only")
               THEN NextSet(r)
               ELSE GoTo(r, "remove") /\ UNCHANGED d
       ELSE Abort /\ UNCHANGED <<d, err>>
    /\ UNCHANGED <<plan, run, calls, phase, global_iteration, f, total_num,
                   armed_stone_wall, stonewall_iterations, current_index,
                   storage>>

Remove(r) ==
    /\ At(r, "remove")
    /\ objects' = objects \ {Old(r)}
    /\ complete' = complete \ {Old(r)}
    /\ GoTo(r, "create")
    /\ UNCHANGED <<plan, run, calls, private, prefix, dirs, status>>

Create(r) ==
    /\ At(r, "create")
    /\ IF <<WriteRank(r, d[r]), d[r]>> \in dirs
       THEN /\ objects' = objects \cup {New(r)}
            /\ GoTo(r, "write")
       ELSE Abort /\ UNCHANGED objects
    /\ UNCHANGED <<plan, run, calls, private, prefix, dirs, complete, status>>

\* The object may have been removed meanwhile.
Write(r) ==
    /\ At(r, "write")
    /\ complete' = complete \cup ({New(r)} \cap objects)
    /\ NextSet(r)
    /\ UNCHANGED <<plan, run, calls, phase, global_iteration, f, total_num,
                   armed_stone_wall, stonewall_iterations, current_index, err,
                   prefix, dirs, objects, status>>

GoOn(r, total) == GoTo(r, IF f[r] + 1 < total THEN "stat" ELSE "roundsDone")

\* The end of a round, within the time.
RoundEnd(r) ==
    /\ At(r, "roundEnd")
    /\ f' = [f EXCEPT ![r] = @ + 1]
    /\ GoOn(r, total_num[r])
    /\ UNCHANGED <<plan, run, calls, phase, global_iteration, d, total_num,
                   armed_stone_wall, stonewall_iterations, current_index, err,
                   storage>>

\* The end of a round, after the time of -w.  Without -W the loop is left
\* before this round is counted in f.
StoneWall(r) ==
    /\ At(r, "roundEnd")
    /\ armed_stone_wall[r]
    /\ IF plan.wearOut
       THEN /\ armed_stone_wall' = [armed_stone_wall EXCEPT ![r] = FALSE]
            /\ Send(r, "Allreduce", f[r] + 1)
            /\ GoTo(r, "wearout")
            /\ UNCHANGED stonewall_iterations
       ELSE /\ stonewall_iterations' = [stonewall_iterations EXCEPT ![r] = f[r]]
            /\ GoTo(r, "roundsDone")
            /\ UNCHANGED <<calls, armed_stone_wall>>
    /\ UNCHANGED <<plan, run, phase, global_iteration, f, d, total_num,
                   current_index, err, storage>>

\* Mutant: a rank does only the rounds it had done itself.
M_WearOut(r) ==
    /\ At(r, "wearout")
    /\ total_num' = [total_num EXCEPT ![r] = Sent(r, r)]
    /\ stonewall_iterations' = [stonewall_iterations EXCEPT ![r] = Sent(r, r)]
    /\ f' = [f EXCEPT ![r] = @ + 1]
    /\ GoOn(r, Sent(r, r))
    /\ UNCHANGED <<plan, run, calls, phase, global_iteration, d,
                   armed_stone_wall, current_index, err, storage>>

\* "wear out mode, now reduce the maximum".  total_num is above f, so the
\* test f == total_num that follows never holds.
WearOut(r) ==
    /\ At(r, "wearout")
    /\ total_num' = [total_num EXCEPT ![r] = MaxSent(r)]
    /\ stonewall_iterations' = [stonewall_iterations EXCEPT ![r] = MaxSent(r)]
    /\ f' = [f EXCEPT ![r] = @ + 1]
    /\ GoOn(r, MaxSent(r))
    /\ UNCHANGED <<plan, run, calls, phase, global_iteration, d,
                   armed_stone_wall, current_index, err, storage>>

\* Mutant: a rank that was not stopped does not take part in the wear-out.
M_RoundsDone(r) ==
    /\ At(r, "roundsDone")
    /\ CallIf(plan.stonewall /\ ~plan.wearOut, r, "Allreduce")
    /\ GoTo(r, "agreed")
    /\ UNCHANGED <<plan, run, private, storage>>

\* After the rounds; whoever has not been in the Allreduce of the wear-out
\* joins it here.
RoundsDone(r) ==
    /\ At(r, "roundsDone")
    /\ IF armed_stone_wall[r] /\ plan.wearOut
       THEN Send(r, "Allreduce", total_num[r])
       ELSE IF plan.stonewall /\ ~plan.wearOut
            THEN Send(r, "Allreduce", stonewall_iterations[r])
            ELSE UNCHANGED calls
    /\ GoTo(r, "agreed")
    /\ UNCHANGED <<plan, run, private, storage>>

\* Mutant: the position moves on when nothing was taken, too.
M_Agreed(r) ==
    /\ At(r, "agreed")
    /\ stonewall_iterations' =
          [stonewall_iterations EXCEPT
             ![r] = IF plan.stonewall THEN MaxSent(r) ELSE @]
    /\ current_index' = [current_index EXCEPT ![r] = @ + f[r]]
    /\ EndPhase(r, "benchmark")
    /\ UNCHANGED <<plan, run, global_iteration, f, d, total_num,
                   armed_stone_wall, err, storage>>

\* Mutant: the position moves on by the rounds that were asked for.
M_AgreedAll(r) ==
    /\ At(r, "agreed")
    /\ stonewall_iterations' =
          [stonewall_iterations EXCEPT
             ![r] = IF plan.stonewall THEN MaxSent(r) ELSE @]
    /\ current_index' = [current_index EXCEPT
                           ![r] = IF Given("--read-only") THEN @
                                  ELSE @ + plan.num]
    /\ EndPhase(r, "benchmark")
    /\ UNCHANGED <<plan, run, global_iteration, f, d, total_num,
                   armed_stone_wall, err, storage>>

\* The rest of run_benchmark.
Agreed(r) ==
    /\ At(r, "agreed")
    /\ stonewall_iterations' =
          [stonewall_iterations EXCEPT
             ![r] = IF plan.stonewall THEN MaxSent(r) ELSE @]
    /\ current_index' = [current_index EXCEPT
                           ![r] = IF Given("--read-only") THEN @ ELSE @ + f[r]]
    /\ EndPhase(r, "benchmark")
    /\ UNCHANGED <<plan, run, global_iteration, f, d, total_num,
                   armed_stone_wall, err, storage>>

----------------------------------------------------------------------------
(* The cleanup, and the end of a run.                                      *)

\* Mutant: the objects are removed from number 0 on.
M_Cleanup(r) ==
    LET set == <<r, d[r]>>
        left == objects \ ({r} \X {d[r]} \X (0..(precreate - 1)))
    IN /\ At(r, "cleanup")
       /\ objects' = left
       /\ complete' = complete \cap left
       /\ dirs' = IF \E x \in left : <<x[1], x[2]>> = set THEN dirs
                  ELSE dirs \ {set}
       /\ IF d[r] + 1 < plan.dset_count
          THEN d' = [d EXCEPT ![r] = @ + 1] /\ UNCHANGED <<at, calls, phase>>
          ELSE d' = [d EXCEPT ![r] = 0] /\ EndPhase(r, "cleanup")
       /\ UNCHANGED <<plan, run, global_iteration, f, total_num,
                      armed_stone_wall, stonewall_iterations, current_index,
                      err, prefix, status>>

\* run_cleanup of one data set.  A directory that is not empty stays.
Cleanup(r) ==
    LET set == <<r, d[r]>>
        first == current_index[r]
        left == objects \ ({r} \X {d[r]} \X (first..(first + precreate - 1)))
    IN /\ At(r, "cleanup")
       /\ objects' = left
       /\ complete' = complete \cap left
       /\ dirs' = IF \E x \in left : <<x[1], x[2]>> = set THEN dirs
                  ELSE dirs \ {set}
       /\ IF d[r] + 1 < plan.dset_count
          THEN d' = [d EXCEPT ![r] = @ + 1] /\ UNCHANGED <<at, calls, phase>>
          ELSE d' = [d EXCEPT ![r] = 0] /\ EndPhase(r, "cleanup")
       /\ UNCHANGED <<plan, run, global_iteration, f, total_num,
                      armed_stone_wall, stonewall_iterations, current_index,
                      err, prefix, status>>

\* Rank 0 removes the output directory, if it is empty.
RemovePrefix(r) ==
    /\ At(r, "rmdir")
    /\ prefix' = (prefix /\ ~(r = 0 /\ dirs = {}))
    /\ GoTo(r, "finished")
    /\ UNCHANGED <<plan, run, calls, private, dirs, objects, complete, status>>

store_position(r) ==
    /\ At(r, "store")
    /\ status' = IF r = 0 THEN current_index[r] ELSE status
    /\ GoTo(r, "finished")
    /\ UNCHANGED <<plan, run, calls, private, prefix, dirs, objects, complete>>

Finished == \A r \in Ranks : at[r] = "finished"

\* The program is started again.
NextRun ==
    /\ Finished
    /\ run < Len(plan.runs)
    /\ run' = run + 1
    /\ at' = [r \in Ranks |-> "start"]
    /\ calls' = NoCalls
    /\ global_iteration' = [r \in Ranks |-> 0]
    /\ current_index' = [r \in Ranks |-> 0]
    /\ UNCHANGED <<plan, phase, counters, err, storage>>

Step(r) ==
    \/ Start(r) \/ return_position(r) \/ Begin(r) \/ run_precreate(r)
    \/ EndPhaseReduce(r) \/ Iterate(r)
    \/ Stat(r) \/ Read(r) \/ Remove(r) \/ Create(r) \/ Write(r)
    \/ RoundEnd(r) \/ StoneWall(r) \/ WearOut(r) \/ RoundsDone(r) \/ Agreed(r)
    \/ Cleanup(r) \/ RemovePrefix(r) \/ store_position(r)

Aborted == \A r \in Ranks : at[r] = "aborted"
Ended == (Finished /\ run = Len(plan.runs)) \/ Aborted

Next == \/ \E r \in Ranks : Step(r)
        \/ NextRun
        \/ Ended /\ UNCHANGED vars

Spec == Init /\ [][Next]_vars

\* Every rank is a process that keeps running, and the user starts the next
\* run.
FairSpec == Spec /\ WF_vars(NextRun) /\ \A r \in Ranks : WF_vars(Step(r))

----------------------------------------------------------------------------
(* What must hold.  -w without -W is warned of: "process-specific progress".*)

Careful == plan.stonewall => plan.wearOut

\* Every object a rank looks for is there and written in full, whoever wrote
\* it and however far the others are.
NothingMissed ==
    Careful => /\ \A r \in Ranks : err[r] = 0
               /\ ~Aborted

\* The number of objects of data set n that r has taken from the others, and
\* the number it has put there, since the first run.
InBenchmark(r) == at[r] \in {"stat", "read", "remove", "create", "write",
                             "roundEnd", "wearout", "roundsDone", "agreed"}
RoundPart(r, n, places) ==
    IF at[r] \in {"roundEnd", "wearout"} THEN 1
    ELSE IF at[r] \in {"stat", "read", "remove", "create", "write"}
         THEN IF n < d[r] \/ (n = d[r] /\ at[r] \in places) THEN 1 ELSE 0
         ELSE 0
Progress(r, n, places) ==
    IF InBenchmark(r) /\ ~Given("--read-only")
    THEN current_index[r] + f[r] + RoundPart(r, n, places)
    ELSE current_index[r]
Taken(r, n) == Progress(r, n, {"create", "write"})
Put(r, n) == Progress(r, n, {"write"})

\* In the benchmark each data set holds exactly the objects that its one
\* writer has put there and its one reader has not taken yet.
Window ==
    (Careful /\ \E r \in Ranks : InBenchmark(r) /\ Ready(r))
      => objects = UNION {{q} \X {n} \X (Taken(WriteRank(q, n), n)
                                         ..(precreate + Put(ReadRank(q, n), n) - 1)) :
                             q \in Ranks, n \in DSets}

\* A run without -3 leaves a full working set behind, from the one position
\* that rank 0 has stored for all ranks; the next run finds it there.
Resumable ==
    (Careful /\ Finished /\ ~Given("-3"))
      => /\ objects = Ranks \X DSets \X (status..(status + precreate - 1))
         /\ complete = objects

\* A run with -3 leaves nothing behind, though no rank removes what it has
\* itself created in the benchmark.
CleanedUp ==
    (Careful /\ Finished /\ Given("-3"))
      => objects = {} /\ dirs = {} /\ ~prefix

\* Every run comes to its end on every rank.
Ends == <>Ended
=============================================================================
