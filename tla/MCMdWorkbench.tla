--------------------------- MODULE MCMdWorkbench ---------------------------
(* Sequences of runs for the checks of MdWorkbench.                        *)
EXTENDS MdWorkbench

All == <<{"-1", "-2", "-3"}>>

\* As testing/basic-tests.sh does it: one run for each phase.
Apart == <<{"-1"}, {"-2"}, {"-2", "--read-only"}, {"-3"}>>
Resumed == <<{"-1", "-2"}, {"-2", "-3"}>>

Usual ==
    {[runs |-> All, dset_count |-> 2, num |-> 1, iterations |-> 2,
      stonewall |-> FALSE, wearOut |-> FALSE],
     [runs |-> All, dset_count |-> 1, num |-> 2, iterations |-> 1,
      stonewall |-> TRUE, wearOut |-> FALSE],
     [runs |-> All, dset_count |-> 1, num |-> 2, iterations |-> 2,
      stonewall |-> TRUE, wearOut |-> TRUE]}
    \cup {[runs |-> runs, dset_count |-> 1, num |-> 2, iterations |-> 1,
           stonewall |-> TRUE, wearOut |-> TRUE] : runs \in {Apart, Resumed}}
=============================================================================
