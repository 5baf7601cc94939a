----------------------------- MODULE MCBackends -----------------------------
(* Command lines and storages for the backends.                            *)
EXTENDS Backends

Plain == [api |-> "POSIX", filePerProc |-> FALSE, collective |-> FALSE,
          singleXferAttempt |-> FALSE, fsyncPerWrite |-> FALSE,
          intraTestBarriers |-> FALSE, dryRun |-> FALSE, striping |-> FALSE,
          destroy |-> FALSE, bytes |-> 1,
          short |-> FALSE, fails |-> FALSE, leftover |-> FALSE,
          lost |-> FALSE, unshared |-> FALSE]

Using(x, f) == [Plain EXCEPT !.api = x, !.filePerProc = f]

\* Storage that may move less than it is asked to and storage that may fail,
\* for the backends that cope with it.
Retrying ==
    UNION {{[Using(x, f) EXCEPT !.short = TRUE, !.fails = TRUE, !.singleXferAttempt = s]
              : f \in BOOLEAN, s \in BOOLEAN} : x \in {"POSIX", "MPIIO", "CHFS", "FINCHFS"}}
    \cup {[Using("HDFS", TRUE) EXCEPT !.short = TRUE, !.fails = TRUE]}

\* The others, with storage that moves what it is asked to, or fails.
Reliably ==
    {[Using(x, f) EXCEPT !.fails = TRUE] : f \in BOOLEAN, x \in {"RADOS", "DFS", "GFARM"}}
    \cup {Using(x, f) : f \in BOOLEAN, x \in {"DUMMY"}}
    \cup {Using("MMAP", FALSE), Using("PMDK", TRUE)}
    \cup {[Using("IME", TRUE) EXCEPT !.fails = TRUE], Using("S3", TRUE)}

\* The backends in which every rank truncates: a barrier before they write.
Truncating ==
    {[Using(x, FALSE) EXCEPT !.intraTestBarriers = TRUE] : x \in {"IME", "CEPHFS", "S3"}}

Others ==
    {[Plain EXCEPT !.striping = TRUE, !.leftover = TRUE, !.filePerProc = f] : f \in BOOLEAN}
    \cup {[Using("MPIIO", FALSE) EXCEPT !.collective = TRUE, !.fsyncPerWrite = TRUE, !.leftover = TRUE],
          [Plain EXCEPT !.leftover = TRUE], [Plain EXCEPT !.dryRun = TRUE],
          [Using("MMAP", FALSE) EXCEPT !.dryRun = TRUE], Using("PMDK", FALSE),
          [Using("MPIIO", FALSE) EXCEPT !.dryRun = TRUE],
          [Using("HDFS", FALSE) EXCEPT !.leftover = TRUE],
          [Using("DFS", FALSE) EXCEPT !.destroy = TRUE],
          [Using("DFS", TRUE) EXCEPT !.lost = TRUE]}

\* Backends in which every rank truncates, without that barrier:
\* NothingTruncated does not hold.
AllTruncate == {Using(x, FALSE) : x \in {"IME", "CEPHFS", "S3"}}

\* DAOS with rank 0 failing alone: Finishes does not hold, as the others wait
\* in a Bcast that rank 0 leaves out.
LookupLost == {[Using("DFS", FALSE) EXCEPT !.lost = TRUE]}
HandleLost == {[Using("DFS", f) EXCEPT !.unshared = TRUE] : f \in BOOLEAN}

Usual == Retrying \cup Reliably \cup Truncating \cup Others
=============================================================================
