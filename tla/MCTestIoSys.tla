---------------------------- MODULE MCTestIoSys ----------------------------
(* Parameter sets for the runs of TestIoSys.                               *)
EXTENDS TestIoSys

Plain == [filePerProc |-> TRUE, reorder |-> "none",
          writeFile |-> TRUE, checkWrite |-> TRUE,
          readFile |-> TRUE, checkRead |-> TRUE,
          keepFile |-> FALSE, keepFileWithError |-> FALSE,
          intraTestBarriers |-> FALSE, useExistingTestFile |-> FALSE]

\* Every mix of phases of which the ones after a missing write find a file.
Phases == {[Plain EXCEPT !.writeFile = w, !.checkWrite = cw, !.readFile = r,
                         !.checkRead = cr, !.keepFile = ~w] :
             w, cw, r, cr \in BOOLEAN}

\* -C and -Z with and without files per process; -k, -K, -g and -E.
Reordered == {[Plain EXCEPT !.filePerProc = fpp, !.reorder = order,
                            !.readFile = r, !.checkRead = r] :
                fpp, r \in BOOLEAN, order \in {"none", "constant", "random"}}
Kept == {[Plain EXCEPT !.filePerProc = fpp, !.reorder = order,
                       !.keepFile = k, !.keepFileWithError = ~k,
                       !.intraTestBarriers = k, !.useExistingTestFile = k] :
           fpp, k \in BOOLEAN, order \in {"none", "constant"}}

Usable == {t \in Phases : t.writeFile \/ t.checkWrite \/ t.readFile \/ t.checkRead}
            \cup Reordered \cup Kept

\* -Z -Z, file per process, where ReadPermutation does not hold.
Shuffled == {[Plain EXCEPT !.reorder = "shuffle"]}
=============================================================================
