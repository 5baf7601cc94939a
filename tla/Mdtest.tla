------------------------------- MODULE Mdtest -------------------------------
(***************************************************************************)
(* mdtest (mdtest.c): every rank creates, stats, reads, renames and removes *)
(* directories and files in trees of directories.  From phase to phase the  *)
(* names and the trees a rank works on are shifted by nstride ranks, so it   *)
(* depends on the barriers and on the agreement about the number of items   *)
(* whether it finds what the others have made.                              *)
(*                                                                         *)
(* A step of a rank is all of its work between two collectives.             *)
(***************************************************************************)
EXTENDS Mpi, FiniteSets, FiniteSetsExt, Functions

CONSTANT Plans   \* what the command lines may be

Phases == {"create", "stat", "read", "rename", "remove"}

\* runs: the program may be run several times, each time with some of the
\* phases (-C -T -E -U -r); the other options stay the same.  first, last,
\* stride: -f, -l, -s.  rootExists, status: the directory of -d and the status
\* file as they are before.
PlanType == [runs : Seq(SUBSET Phases \ {{}}), rootExists : BOOLEAN,
             first : Nat \ {0}, last : Nat, stride : Nat \ {0}, iterations : Nat \ {0},
             dirs_only : BOOLEAN, files_only : BOOLEAN,
             unique_dir_per_task : BOOLEAN, shared_file : BOOLEAN,
             collective_creates : BOOLEAN, leaf_only : BOOLEAN,
             randomize : BOOLEAN, verify_read : BOOLEAN,
             stonewall : BOOLEAN, stoneWallingStatusFile : BOOLEAN,
             branch_factor : Nat \ {0}, depth : Nat,
             items : Nat, items_per_dir : Nat, nstride : Nat,
             path_count : Nat \ {0}, status : {-1, -2}]

\* What md_validate_tests lets pass.
md_validate_tests(p) ==
    /\ p.stonewall => p.branch_factor <= 1
    /\ p.dirs_only \/ p.files_only
    /\ p.shared_file => ~p.dirs_only
    /\ ~(p.shared_file /\ p.collective_creates)
    /\ ~(p.path_count > 1 /\ p.collective_creates)
    /\ ~(p.unique_dir_per_task /\ p.shared_file)
    /\ ~(p.path_count > 1 /\ p.nstride > 0)
    /\ p.path_count > 1 => p.unique_dir_per_task
    /\ p.path_count <= N
    /\ p.items > 0 /\ p.items_per_dir > 0
         => ~p.unique_dir_per_task /\ p.items % p.items_per_dir = 0
    /\ p.verify_read => \A k \in 1..Len(p.runs) : "read" \in p.runs[k]
    /\ p.first <= p.last /\ p.last <= N

\* The combinations that are modelled: collective creation and the stonewall
\* with one loop over the directories, the former in a shared tree.
Covered(p) ==
    /\ p.collective_creates \/ p.stonewall => p.items = 0 \/ p.items_per_dir = 0
    /\ p.collective_creates => ~p.unique_dir_per_task /\ ~p.stonewall

ASSUME MdtestAssumption ==
    \A p \in Plans : p \in PlanType /\ md_validate_tests(p) /\ Covered(p)

VARIABLES
    plan,               \* the command lines
    run,                \* number of the current one
    at,                 \* where each rank is
    tasks, testComm,    \* the number of tasks of this test, the communicator
    iteration, kind,    \* "dir" in directory_test, "file" in file_test
    items, directory_loops,       \* o.items, o.directory_loops
    items_start, items_per_dir,   \* of rank_progress_t
    created_root_dir,
    warned,             \* has an operation failed
    verification_error,
    roots, testdirs, dirs,  \* the directories of -d, test-dir.j-l, the trees
    entries, files,     \* directories in the trees; files and who wrote them
    status              \* the status file, -1 if there is none, -2 if not a number

position == <<tasks, iteration, kind>>
options == <<items, directory_loops>>
progress == <<items_start, items_per_dir>>
reports == <<warned, verification_error>>
tree == <<roots, testdirs, dirs>>
storage == <<tree, entries, files>>
fixed == <<plan, run, testComm, created_root_dir>>
vars == <<fixed, at, calls, position, options, progress, reports, storage, status>>

Shared == -1   \* in place of a rank, in "mdtest.shared." and "mdtest_tree"
Nobody == -1   \* has written to the file yet

----------------------------------------------------------------------------
(* The tree, as mdtest_run computes it.  Its directories are numbered like  *)
(* a heap, from 0 for the root.                                             *)

leaves == plan.branch_factor ^ plan.depth

num_dirs_in_tree ==
    IF plan.branch_factor = 1 THEN plan.depth + 1
    ELSE (plan.branch_factor ^ (plan.depth + 1) - 1) \div (plan.branch_factor - 1)

o_items_per_dir ==
    IF plan.items_per_dir > 0 THEN plan.items_per_dir
    ELSE IF ~plan.leaf_only THEN plan.items \div num_dirs_in_tree
    ELSE plan.items \div leaves

o_items ==
    IF plan.items_per_dir > 0 /\ plan.items > 0 THEN plan.items
    ELSE o_items_per_dir * (IF plan.leaf_only THEN leaves ELSE num_dirs_in_tree)

BothGiven == plan.items > 0 /\ plan.items_per_dir > 0

o_directory_loops == IF BothGiven /\ ~plan.unique_dir_per_task
                     THEN plan.items \div plan.items_per_dir ELSE 1

TreeDirs == 0..(num_dirs_in_tree - 1)

\* The directories create_remove_items visits, and the first of them.
ItemDirs == IF plan.leaf_only THEN (num_dirs_in_tree - leaves)..(num_dirs_in_tree - 1)
            ELSE TreeDirs
FirstItemDir == IF plan.leaf_only THEN num_dirs_in_tree - leaves ELSE 0

Given(phase) == phase \in plan.runs[run]

\* o.filenames[rank % o.path_count]
Path(r) == r % plan.path_count

Loops(r) == 0..(directory_loops[r] - 1)

\* o.base_tree_name
OwnTree(r) == IF plan.unique_dir_per_task THEN r ELSE Shared

testdir(r, l) == <<Path(r), iteration[r], l>>

\* Directory n of the tree with the given root, in a loop of r; the names
\* below the root are made with base_tree_name.
Dir(r, l, root, n) ==
    [testdir |-> testdir(r, l), root |-> root,
     base |-> IF n = 0 THEN root ELSE OwnTree(r), number |-> n]

\* The shift of the names and of the trees in each phase, in units of nstride.
Shift == [create |-> 0, stat |-> 1, read |-> 2, rename |-> 1, remove |-> 3]

\* Mutant: the names are not taken modulo the number of tasks.
M_Name(r, phase) == IF plan.shared_file THEN Shared ELSE r + Shift[phase] * plan.nstride

\* mk_name, stat_name, read_name, rm_name
Name(r, phase) == IF plan.shared_file THEN Shared
                  ELSE (r + Shift[phase] * plan.nstride) % tasks[r]

\* unique_dir_access: rank q creates in the tree of rank q + nstride.
Root(r, phase) == IF plan.unique_dir_per_task
                  THEN (r + (Shift[phase] + 1) * plan.nstride) % tasks[r]
                  ELSE Shared

Item(r, phase, l, n, num) ==
    [dir |-> Dir(r, l, Root(r, phase), n), owner |-> Name(r, phase),
     kind |-> kind[r], num |-> num]

\* create_remove_items: numbers[n] are the items in directory n, as counted
\* within it.
Targets(r, phase, numbers) ==
    UNION {{Item(r, phase, l, n, n * o_items_per_dir + x) : x \in numbers[n]} :
              l \in Loops(r), n \in ItemDirs}

\* create_remove_items_helper when the stonewall is not hit.
All(r) == [n \in ItemDirs |-> items_start[r]..(items_per_dir[r] - 1)]

\* When it is hit after item x of directory d, that directory is left, and
\* each directory after it gets one item; done is progress->items_done.
Amounts(r) ==
    {[numbers |-> All(r), done |-> items_per_dir[r]]} \cup
    IF ~plan.stonewall THEN {}
    ELSE {[numbers |-> [n \in ItemDirs |-> IF n < d THEN All(r)[n]
                                           ELSE IF n = d THEN items_start[r]..x
                                           ELSE {items_start[r]}],
           done |-> IF d = FirstItemDir THEN x + 1 ELSE items_per_dir[r]] :
             d \in ItemDirs, x \in items_start[r]..(items_per_dir[r] - 1)}

\* mdtest_stat, mdtest_read, rename_dir_test: item x of a loop, whose directory
\* is computed from its number.
Numbered(r, phase, l, x) ==
    LET num == x + o_items_per_dir * FirstItemDir
    IN Item(r, phase, l, num \div o_items_per_dir, num)

Stop(r) == IF directory_loops[r] # 1 THEN o_items_per_dir ELSE items[r]

\* With -R the items are the first ones of a shuffled array.
RandArray(r) == IF plan.randomize THEN kSubset(Stop(r), 0..(o_items - 1))
              ELSE {0..(Stop(r) - 1)}

Visited(r, phase, numbers) ==
    {Numbered(r, phase, l, x) : l \in Loops(r), x \in numbers}

----------------------------------------------------------------------------
(* Steps.  Go is the end of the collective that led to a place.            *)

Go(r, place) == at[r] = place /\ ReadyIn(testComm, r)

GoTo(r, place) == at' = [at EXCEPT ![r] = place]

\* A collective on the way to the next place.
Via(r, op, place) == Call(r, op) /\ GoTo(r, place)

Report(failure) == warned' = (warned \/ failure)

Init ==
    /\ plan \in Plans
    /\ run = 1
    /\ at = [r \in Ranks |-> "start"]
    /\ tasks = [r \in Ranks |-> plan.first]
    /\ testComm = Ranks
    /\ calls = NoCalls
    /\ iteration = [r \in Ranks |-> 0]
    /\ kind = [r \in Ranks |-> "dir"]
    /\ items = [r \in Ranks |-> o_items]
    /\ directory_loops = [r \in Ranks |-> o_directory_loops]
    /\ items_start = [r \in Ranks |-> 0]
    /\ items_per_dir = [r \in Ranks |-> o_items_per_dir]
    /\ created_root_dir = [r \in Ranks |-> FALSE]
    /\ warned = FALSE /\ verification_error = FALSE
    /\ roots = IF plan.rootExists THEN 0..(plan.path_count - 1) ELSE {}
    /\ testdirs = {} /\ dirs = {} /\ entries = {} /\ files = << >>
    /\ status = plan.status

\* mdtest_run before its loop over the numbers of tasks.
Start(r) ==
    /\ at[r] = "start"
    /\ LET creates == r < plan.path_count /\ r \notin roots
       IN /\ created_root_dir' = [created_root_dir EXCEPT ![r] = creates]
          /\ roots' = IF creates THEN roots \cup {r} ELSE roots
    /\ GoTo(r, "tasks")
    /\ UNCHANGED <<plan, run, testComm, calls, position, options, progress, reports,
                   testdirs, dirs, entries, files, status>>

\* MPI_Comm_create for all but the last number of tasks, MPI_Comm_dup for that;
\* world_com has to be there as a whole.  Who is not in the new communicator
\* goes on to the next number.
CommCreate ==
    /\ \A r \in Ranks : at[r] = "tasks" /\ tasks[r] <= plan.last
    /\ testComm' = IF tasks[0] < plan.last THEN 0..(tasks[0] - 1) ELSE Ranks
    /\ calls' = NoCalls
    /\ tasks' = [r \in Ranks |-> IF r \in testComm' THEN tasks[r]
                                 ELSE tasks[r] + plan.stride]
    /\ at' = [r \in Ranks |-> IF r \in testComm' THEN "testdir" ELSE "tasks"]
    /\ iteration' = [r \in Ranks |-> 0]
    /\ UNCHANGED <<plan, run, created_root_dir, kind, options, progress, reports,
                   storage, status>>

\* mdtest_iteration, up to the trees.
MakeTestdirs(r) ==
    /\ at[r] = "testdir"
    /\ items_start' = [items_start EXCEPT ![r] = 0]
    /\ items_per_dir' = [items_per_dir EXCEPT ![r] = o_items_per_dir]
    /\ IF Given("create")
       THEN /\ testdirs' = testdirs \cup IF r < plan.path_count
                                         THEN {testdir(r, l) : l \in Loops(r)} ELSE {}
            /\ Via(r, "Barrier", "tree")
       ELSE UNCHANGED <<testdirs, calls>> /\ GoTo(r, "names")
    /\ UNCHANGED <<fixed, position, options, reports, roots, dirs, entries, files, status>>

\* The directories create_remove_directory_tree works on for r.
Trees(r) == IF plan.unique_dir_per_task \/ r = 0
            THEN {Dir(r, l, OwnTree(r), n) : l \in Loops(r), n \in TreeDirs} ELSE {}

MakeTree(r) ==
    /\ Go(r, "tree")
    /\ LET there == {d \in Trees(r) : d.testdir \in testdirs}
       IN dirs' = dirs \cup there /\ Report(there # Trees(r) \/ there \cap dirs # {})
    /\ Via(r, "Barrier", "names")
    /\ UNCHANGED <<fixed, position, options, progress, verification_error, roots,
                   testdirs, entries, files, status>>

\* Ranks from i on skip the tests, but not the barrier after them.
Names(r) ==
    /\ Go(r, "names")
    /\ kind' = [kind EXCEPT ![r] = IF plan.dirs_only THEN "dir" ELSE "file"]
    /\ Via(r, "Barrier", IF r < tasks[r] THEN "create" ELSE "removeTree")
    /\ UNCHANGED <<fixed, tasks, iteration, options, progress, reports, storage, status>>

----------------------------------------------------------------------------
(* The phases of directory_test and file_test.                             *)

Following == [create |-> "stat", stat |-> "read", read |-> "rename",
              rename |-> "remove", remove |-> "afterTest"]

Working == [create |-> "creating", stat |-> "stating", read |-> "reading",
            rename |-> "renaming", remove |-> "removing"]

Runs(r, phase) == Given(phase) /\ (phase = "rename" => kind[r] = "dir" /\ items[r] > 1)

\* Mutant: only rank 0 asks for the status.
M_ReadsStatus(r, phase) ==
    phase = "create" /\ kind[r] = "file" /\ plan.stoneWallingStatusFile /\ r = 0

ReadsStatus(r, phase) ==
    phase = "create" /\ kind[r] = "file" /\ plan.stoneWallingStatusFile

\* phase_prepare, and with -u the barrier of unique_dir_access(MK_UNI_DIR).
phase_prepare(r) ==
    /\ \E phase \in Phases :
          \/ /\ Go(r, phase) /\ Runs(r, phase)
             /\ Via(r, "Barrier", IF phase = "create" /\ plan.unique_dir_per_task
                                  THEN "uniqueDir" ELSE Working[phase])
          \/ /\ Go(r, phase) /\ ~Runs(r, phase) /\ ~ReadsStatus(r, phase)
             /\ GoTo(r, Following[phase]) /\ UNCHANGED calls
    /\ UNCHANGED <<fixed, position, options, progress, reports, storage, status>>

unique_dir_access(r) ==
    /\ Go(r, "uniqueDir")
    /\ Via(r, "Barrier", "creating")
    /\ UNCHANGED <<fixed, position, options, progress, reports, storage, status>>

\* create_remove_dirs and create_file: an item fails without its directory, a
\* directory also if it exists already.
Make(r, targets, writer) ==
    LET there == {i \in targets : i.dir \in dirs}
    IN IF kind[r] = "dir"
       THEN /\ entries' = entries \cup there
            /\ Report(there # targets \/ there \cap entries # {})
            /\ UNCHANGED files
       ELSE /\ files' = [i \in there \cup DOMAIN files |->
                            IF i \in there THEN writer ELSE files[i]]
            /\ Report(there # targets)
            /\ UNCHANGED entries

\* -c: rank 0 creates everything, collective_create_remove works for all ranks
\* in turn; then everybody opens its own files.
collective_create(r) ==
    /\ Go(r, "creating") /\ plan.collective_creates
    /\ IF r = 0
       THEN Make(r, UNION {Targets(q, "create", All(r)) : q \in 0..(tasks[r] - 1)}, Nobody)
       ELSE UNCHANGED <<entries, files, warned>>
    /\ Via(r, "Barrier", IF kind[r] = "dir" THEN "stat" ELSE "creatingOwn")
    /\ UNCHANGED <<fixed, position, options, progress, verification_error, tree, status>>

\* file_test_create and the create phase of directory_test.
create_items(r) ==
    /\ \/ Go(r, "creating") /\ ~plan.collective_creates
       \/ Go(r, "creatingOwn")
    /\ \E amount \in Amounts(r) :
          /\ Make(r, Targets(r, "create", amount.numbers), r)
          /\ IF plan.stonewall /\ kind[r] = "file"
             THEN Send(r, "Allreduce", amount.done) /\ GoTo(r, "stonewall")
             ELSE Via(r, "Barrier", "stat")
    /\ UNCHANGED <<fixed, position, options, progress, verification_error, tree, status>>

\* updateStoneWallIterations: the maximum for all, then the sum for rank 0.
updateStoneWallIterations(r) ==
    /\ Go(r, "stonewall")
    /\ items_start' = [items_start EXCEPT ![r] = Sent(r, r)]
    /\ items_per_dir' = [items_per_dir EXCEPT ![r] = MaxSentIn(testComm, r)]
    /\ Send(r, "Reduce", Sent(r, r))   \* MPI_MIN
    /\ GoTo(r, "minimum")
    /\ UNCHANGED <<fixed, position, options, reports, storage, status>>

ReduceSum(r) ==
    /\ Go(r, "minimum")
    /\ Send(r, "Reduce", Sent(r, r))   \* MPI_SUM
    /\ GoTo(r, "sum")
    /\ UNCHANGED <<fixed, position, options, progress, reports, storage, status>>

\* The result of the sum where it has arrived, its initial value elsewhere.
sum_accessed(r) == IF r # 0 THEN 0
                   ELSE MapThenSumSet(LAMBDA s : Sent(s, r), testComm)

\* Mutant: only the rank that has the sum goes on.
M_Hit(r) == r = 0 /\ items[r] # sum_accessed(r) \div Cardinality(testComm)

Hit(r) == items[r] # sum_accessed(r) \div Cardinality(testComm)

ContinueAfterStonewall(r) ==
    /\ Go(r, "sum")
    /\ IF Hit(r)
       THEN /\ Make(r, Targets(r, "create", All(r)), r)
            /\ items' = [items EXCEPT ![r] = items_per_dir[r]]
       ELSE UNCHANGED <<entries, files, warned, items>>
    /\ status' = IF r = 0 /\ plan.stoneWallingStatusFile THEN items_per_dir[r]
                 ELSE status
    /\ Via(r, "Barrier", "stat")
    /\ UNCHANGED <<fixed, position, directory_loops, progress, verification_error, tree>>

\* ReadStoneWallingIterations when there is no create phase.
AskStatus(r) ==
    /\ Go(r, "create") /\ ~Given("create") /\ ReadsStatus(r, "create")
    /\ IF r = 0 /\ status = -2
       THEN GoTo(r, "stat") /\ UNCHANGED calls   \* returns at once
       ELSE Send(r, "Bcast", status) /\ GoTo(r, "expected")
    /\ UNCHANGED <<fixed, position, options, progress, reports, storage, status>>

ReadStoneWallingIterations(r) ==
    /\ Go(r, "expected")
    /\ LET expected == Sent(0, r)
           looping == directory_loops[r] > 1
       IN IF expected < 0 THEN UNCHANGED <<options, items_per_dir>>
          ELSE /\ items' = [items EXCEPT ![r] = IF looping THEN o_items_per_dir
                                                ELSE expected]
               /\ directory_loops' = [directory_loops EXCEPT ![r] =
                      IF looping THEN expected \div o_items_per_dir ELSE @]
               /\ items_per_dir' = [items_per_dir EXCEPT ![r] =
                      IF looping THEN @ ELSE expected]
    /\ GoTo(r, "stat")
    /\ UNCHANGED <<fixed, calls, position, items_start, reports, storage, status>>

Found == entries \cup DOMAIN files

mdtest_stat(r) ==
    /\ Go(r, "stating")
    /\ \E numbers \in RandArray(r) : Report(~(Visited(r, "stat", numbers) \subseteq Found))
    /\ Via(r, "Barrier", "read")
    /\ UNCHANGED <<fixed, position, options, progress, verification_error, storage, status>>

\* Who has written what r reads, in the opinion of r.
pretend_rank(r) == IF plan.shared_file THEN r
                   ELSE (r + 2 * plan.nstride) % Cardinality(testComm)

\* There is nothing to read in a directory.
mdtest_read(r) ==
    /\ Go(r, "reading")
    /\ IF kind[r] = "dir" THEN UNCHANGED reports
       ELSE \E numbers \in RandArray(r) :
               LET sought == Visited(r, "read", numbers)
               IN /\ Report(~(sought \subseteq Found))
                  /\ verification_error' =
                        (verification_error \/
                           (plan.verify_read /\ \E i \in sought \cap Found :
                                                  files[i] # pretend_rank(r)))
    /\ Via(r, "Barrier", "rename")
    /\ UNCHANGED <<fixed, position, options, progress, storage, status>>

\* The first directory gets another name, the others move up, and the first
\* takes the place of the last but one; the last one stays.
rename_dir_test(r) ==
    /\ Go(r, "renaming")
    /\ IF Stop(r) = 1 THEN UNCHANGED <<entries, warned>>
       ELSE LET moved == 0..(Stop(r) - 2)
                New(x) == IF x = 0 THEN Stop(r) - 2 ELSE x - 1
                Named(l, x) == Numbered(r, "rename", l, x)
            IN /\ entries' = (entries \ Visited(r, "rename", moved))
                             \cup {Named(lx[1], New(lx[2])) : lx \in
                                     {y \in Loops(r) \X moved : Named(y[1], y[2]) \in entries}}
               /\ Report(~(Visited(r, "rename", moved) \subseteq entries))
    /\ Via(r, "Barrier", "remove")
    /\ UNCHANGED <<fixed, position, options, progress, verification_error, tree, files, status>>

\* -c: rank 0 removes everything; the shared file is removed by rank 0 as well.
RemovesFor(r) == IF plan.collective_creates \/ plan.shared_file
                 THEN IF r = 0 THEN 0..(tasks[0] - 1) ELSE {}
                 ELSE {r}

\* Mutant: items_start is not reset before the removal.
M_Removed(r) == All(r)

Removed(r) == [n \in ItemDirs |-> 0..(items_per_dir[r] - 1)]

remove_items(r) ==
    /\ Go(r, "removing")
    /\ items_start' = [items_start EXCEPT ![r] = IF kind[r] = "file" THEN 0 ELSE @]
    /\ LET targets == UNION {Targets(q, "remove", Removed(r)) : q \in RemovesFor(r)}
       IN /\ entries' = entries \ targets
          /\ files' = Restrict(files, DOMAIN files \ targets)
          /\ Report(~(targets \subseteq Found))
    /\ Via(r, "Barrier", "afterTest")
    /\ UNCHANGED <<fixed, position, options, items_per_dir, verification_error, tree, status>>

----------------------------------------------------------------------------
(* The rest of mdtest_iteration and of mdtest_run.                         *)

\* After file_test, "temporary fix needed when using -n and -i together".
AfterTest(r) ==
    /\ Go(r, "afterTest")
    /\ LET second == kind[r] = "dir" /\ plan.files_only
       IN /\ kind' = [kind EXCEPT ![r] = IF second THEN "file" ELSE @]
          /\ Via(r, "Barrier", IF second THEN "create" ELSE "removeTree")
    /\ items' = [items EXCEPT ![r] = IF kind[r] = "file" /\ BothGiven
                                     THEN @ * num_dirs_in_tree ELSE @]
    /\ UNCHANGED <<fixed, tasks, iteration, directory_loops, progress, reports, storage, status>>

\* The directories on the way from n to the root.
Ancestors[n \in TreeDirs] ==
    IF n = 0 THEN {0} ELSE {n} \cup Ancestors[(n - 1) \div plan.branch_factor]

\* What rmdir refuses, because something is left below it.
NotEmpty(d) == \E i \in Found : i.dir.root = d.root /\ i.dir.testdir = d.testdir
                                /\ d.number \in Ancestors[i.dir.number]

RemoveTree(r) ==
    /\ Go(r, "removeTree")
    /\ IF Given("remove")
       THEN /\ LET removed == {d \in Trees(r) \cap dirs : ~NotEmpty(d)}
               IN dirs' = dirs \ removed /\ Report(removed # Trees(r))
            /\ items_start' = [items_start EXCEPT ![r] = 0]
            /\ Via(r, "Barrier", "removeTestdir")
       ELSE UNCHANGED <<dirs, warned, items_start, calls>> /\ GoTo(r, "iterationEnd")
    /\ UNCHANGED <<fixed, position, options, items_per_dir, verification_error, roots,
                   testdirs, entries, files, status>>

RemoveTestdirs(r) ==
    /\ Go(r, "removeTestdir")
    /\ LET own == IF r < plan.path_count
                  THEN {testdir(r, l) : l \in Loops(r)} \cap testdirs ELSE {}
           full == {t \in own : \E d \in dirs : d.testdir = t}
       IN testdirs' = testdirs \ (own \ full) /\ Report(full # {})
    /\ GoTo(r, "iterationEnd")
    /\ UNCHANGED <<fixed, calls, position, options, progress, verification_error, roots,
                   dirs, entries, files, status>>

\* The next iteration, or the Gather of summarize_results.
IterationEnd(r) ==
    /\ at[r] = "iterationEnd"
    /\ IF iteration[r] + 1 < plan.iterations
       THEN /\ iteration' = [iteration EXCEPT ![r] = @ + 1]
            /\ GoTo(r, "testdir") /\ UNCHANGED calls
       ELSE Via(r, "Gather", "summary") /\ UNCHANGED iteration
    /\ UNCHANGED <<fixed, tasks, kind, options, progress, reports, storage, status>>

\* The Bcast of summarize_results and the Reduce of the verification errors.
summarize_results(r) ==
    /\ \/ Go(r, "summary") /\ Via(r, "Bcast", "errors")
       \/ Go(r, "errors") /\ Via(r, "Reduce", "free")
    /\ UNCHANGED <<fixed, position, options, progress, reports, storage, status>>

\* The end of the loop over the numbers of tasks.
NextTasks(r) ==
    /\ Go(r, "free")
    /\ tasks' = [tasks EXCEPT ![r] = @ + plan.stride]
    /\ GoTo(r, "tasks")
    /\ UNCHANGED <<fixed, calls, iteration, kind, options, progress, reports, storage, status>>

\* A directory of -d that is not empty aborts the program.
Finish(r) ==
    /\ at[r] = "tasks" /\ tasks[r] > plan.last
    /\ LET removes == created_root_dir[r] /\ Given("remove")
           full == \E t \in testdirs : t[1] = Path(r)
       IN IF removes /\ full
          THEN at' = [s \in Ranks |-> "aborted"] /\ UNCHANGED roots
          ELSE /\ roots' = IF removes THEN roots \ {r} ELSE roots
               /\ GoTo(r, "finished")
    /\ UNCHANGED <<fixed, calls, position, options, progress, reports, testdirs, dirs,
                   entries, files, status>>

Finished == \A r \in Ranks : at[r] = "finished"
Aborted == \A r \in Ranks : at[r] = "aborted"
Ended == (Finished /\ run = Len(plan.runs)) \/ Aborted

\* The program is started again.
NextRun ==
    /\ Finished /\ run < Len(plan.runs)
    /\ run' = run + 1
    /\ at' = [r \in Ranks |-> "start"]
    /\ tasks' = [r \in Ranks |-> plan.first]
    /\ items' = [r \in Ranks |-> o_items]
    /\ directory_loops' = [r \in Ranks |-> o_directory_loops]
    /\ created_root_dir' = [r \in Ranks |-> FALSE]
    /\ UNCHANGED <<plan, testComm, calls, iteration, kind, progress, reports, storage, status>>

Step(r) ==
    \/ Start(r) \/ MakeTestdirs(r) \/ MakeTree(r) \/ Names(r)
    \/ phase_prepare(r) \/ unique_dir_access(r) \/ collective_create(r) \/ create_items(r)
    \/ updateStoneWallIterations(r) \/ ReduceSum(r) \/ ContinueAfterStonewall(r)
    \/ AskStatus(r) \/ ReadStoneWallingIterations(r)
    \/ mdtest_stat(r) \/ mdtest_read(r) \/ rename_dir_test(r) \/ remove_items(r)
    \/ AfterTest(r) \/ RemoveTree(r) \/ RemoveTestdirs(r) \/ IterationEnd(r)
    \/ summarize_results(r) \/ NextTasks(r) \/ Finish(r)

Next == \/ \E r \in Ranks : Step(r)
        \/ CommCreate
        \/ NextRun
        \/ Ended /\ UNCHANGED vars

Spec == Init /\ [][Next]_vars

\* Every rank keeps running, and the user starts the next run.
FairSpec == /\ Spec /\ WF_vars(CommCreate) /\ WF_vars(NextRun)
            /\ \A r \in Ranks : WF_vars(Step(r))

----------------------------------------------------------------------------
(* What must hold.                                                         *)

\* mdtest looks for nothing that is not there, creates nothing twice and leaves
\* no directory full: whatever the shift of names and trees, the numbering of
\* the items, the stonewall or the split into runs, each phase of a rank finds
\* what another rank made in the phases before it.  What is read with -X was
\* written by the rank that the reader assumes.
NothingMissed == ~warned /\ ~verification_error /\ ~Aborted

\* "ensure all processes did the same number of operations": when the creation
\* of files is over, stonewall or not, every rank has as many as any other.
OwnFiles(r) == {i \in DOMAIN files : i.owner = Name(r, "create")
                                     /\ i.dir.testdir[2] = iteration[r]}
Created(r) == at[r] = "stat" /\ kind[r] = "file" /\ Given("create") /\ Go(r, "stat")
SameNumber ==
    \A r \in Ranks : Created(r) =>
        \A q \in 0..(tasks[r] - 1) : Cardinality(OwnFiles(q)) = Cardinality(OwnFiles(r))

\* A run with -r leaves nothing behind, though no rank removes what it has
\* itself created when names are shifted.
NothingLeft ==
    Finished /\ Given("remove") =>
        /\ Found = {} /\ dirs = {} /\ testdirs = {}
        /\ \A r \in roots : ~created_root_dir[r]

\* Every run comes to its end on every rank.
Ends == <>Ended

=============================================================================
