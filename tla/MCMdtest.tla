------------------------------ MODULE MCMdtest ------------------------------
(* Command lines for the checks of Mdtest.                                  *)
EXTENDS Mdtest

AllPhases == <<Phases>>

\* As mdtest's own tests do it: the phases in runs of their own.
Apart == <<{"create"}, {"stat", "rename"}, {"read"}, {"remove"}>>

Plain == [runs |-> AllPhases, rootExists |-> FALSE,
          first |-> N, last |-> N, stride |-> 1, iterations |-> 1,
          dirs_only |-> TRUE, files_only |-> TRUE,
          unique_dir_per_task |-> FALSE, shared_file |-> FALSE,
          collective_creates |-> FALSE, leaf_only |-> FALSE,
          randomize |-> FALSE, verify_read |-> FALSE,
          stonewall |-> FALSE, stoneWallingStatusFile |-> FALSE,
          branch_factor |-> 1, depth |-> 0,
          items |-> 2, items_per_dir |-> 0, nstride |-> 0, path_count |-> 1, status |-> -1]

\* A tree of three directories with one item each, shifted names.
Tree == [Plain EXCEPT !.branch_factor = 2, !.depth = 1, !.items = 3, !.nstride = 1]

Stonewalled == [Plain EXCEPT !.dirs_only = FALSE, !.stonewall = TRUE, !.rootExists = TRUE]

Usual == {
    [Plain EXCEPT !.iterations = 2, !.nstride = 1, !.rootExists = TRUE],
    [Plain EXCEPT !.runs = Apart, !.items = 3],
    \* -f 1 -s 2: the first test has one task, the last has all of them
    [Plain EXCEPT !.first = 1, !.stride = 2, !.nstride = 1],
    [Plain EXCEPT !.collective_creates = TRUE, !.nstride = 1, !.verify_read = TRUE],
    [Plain EXCEPT !.dirs_only = FALSE, !.shared_file = TRUE],
    \* -n 4 -I 2: two loops, each with a test directory of its own
    [Plain EXCEPT !.items = 4, !.items_per_dir = 2, !.nstride = 1],
    \* -u -d a@b
    [Plain EXCEPT !.unique_dir_per_task = TRUE, !.path_count = 2, !.depth = 1],
    [Plain EXCEPT !.unique_dir_per_task = TRUE, !.nstride = 1, !.verify_read = TRUE],
    [Tree EXCEPT !.randomize = TRUE, !.verify_read = TRUE],
    [Tree EXCEPT !.leaf_only = TRUE, !.items = 4, !.runs = Apart],
    [Tree EXCEPT !.items = 0, !.items_per_dir = 2, !.dirs_only = FALSE],
    [Stonewalled EXCEPT !.nstride = 1, !.verify_read = TRUE],
    [Stonewalled EXCEPT !.items = 3, !.unique_dir_per_task = TRUE, !.nstride = 1],
    \* -x: the other phases in runs of their own
    [Stonewalled EXCEPT !.runs = Apart, !.stoneWallingStatusFile = TRUE]}

\* Cases in which a property does not hold.
\* A status file that does not hold a number: Ends.
BadStatus == {[Plain EXCEPT !.runs = Apart, !.stoneWallingStatusFile = TRUE, !.status = -2]}

\* -W with two iterations: SameNumber.
Repeated == {[Stonewalled EXCEPT !.iterations = 2, !.items = 3]}

\* -W without -F: NothingMissed.
WithDirectories == {[Stonewalled EXCEPT !.dirs_only = TRUE]}

\* -f 1 -l 2 on three ranks: Ends.
FewerTasks == {[Plain EXCEPT !.first = 1, !.last = 2]}
=============================================================================
