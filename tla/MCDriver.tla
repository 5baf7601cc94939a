------------------------------ MODULE MCDriver ------------------------------
(* Scripts for Driver.                                                     *)
EXTENDS Driver

L == [kind |-> "run"]
Numbers(name, values) == [kind : {name}, value : values]

\* Every script of up to two lines from these, and some of two tests.
Small == {L} \cup Numbers("dryRun", {1}) \cup Numbers("numTasks", {1, N + 1})
         \cup Numbers("writeFile", {TRUE}) \cup Numbers("api", {"RADOS"})
         \cup {[kind |-> "module", value |-> 1, api |-> "POSIX"]}

AllOf(lines, n) == UNION {[1..k -> lines] : k \in 0..n}

\* Longer ones, with all kinds of lines.
Long ==
    {<<[kind |-> "comment"], [kind |-> "numTasks", value |-> 2], L, L,
       [kind |-> "readFile", value |-> TRUE], [kind |-> "dryRun", value |-> 1], L,
       [kind |-> "stop"], L>>,
     <<[kind |-> "verbose", value |-> 1], L, [kind |-> "verbose", value |-> 0],
       [kind |-> "summary_every_test", value |-> 1], L>>}

Usual == AllOf(Small, 2) \cup {<<L, L, d, L>> : d \in Small} \cup Long

\* An option of a backend after the first RUN.
AfterRun ==
    {<<[kind |-> "module", value |-> v, api |-> "POSIX"], L,
       [kind |-> "module", value |-> w, api |-> "POSIX"], L>> : v, w \in {1, 2}}

\* A single test, as it is and with -v.
Single == {<< >>}
SingleVerbose == {<<[kind |-> "verbose", value |-> 1]>>}

\* Two nodes of unlike size in turn or one after the other, or one each.
Placements == {[r \in Ranks |-> r % 2], [r \in Ranks |-> r \div 2], [r \in Ranks |-> r]}
OneNode == {[r \in Ranks |-> 0]}
=============================================================================
