----------------------------- MODULE TestIoSys -----------------------------
(***************************************************************************)
(* One test of IOR (TestIoSys of ior.c) as its ranks execute it: per        *)
(* repetition the write phase, the write check, the read phase and the      *)
(* removal of the files, with the MPI collectives between them.  Nothing    *)
(* but those collectives orders the ranks, and every rank decides on its    *)
(* own which of them it calls.                                              *)
(*                                                                         *)
(* A step of a rank runs from the return of one collective to the call of   *)
(* the next, or to the next access to a file.  The loop of WriteOrRead is   *)
(* one step here; StoneWall models it.                                      *)
(***************************************************************************)
EXTENDS Mpi

CONSTANTS Repetitions,
          Tests,              \* the parameters a run may have
          Shift,              \* tasks per node of the node mapping (-C)
          TaskPerNodeOffset,  \* option -Q
          MinRandomOffset,    \* nodeoffset * numTasksOnNode0 (-Z)
          TimeLimit,          \* is maxTimeDuration (-T) set
          MaxCorruptions      \* bound: blocks the file system stores wrong

\* What the command line says of the phases.
Parameters == [filePerProc : BOOLEAN,
               reorder : {"none", "constant", "random", "shuffle"},
               writeFile : BOOLEAN, checkWrite : BOOLEAN,
               readFile : BOOLEAN, checkRead : BOOLEAN,
               keepFile : BOOLEAN, keepFileWithError : BOOLEAN,
               intraTestBarriers : BOOLEAN, useExistingTestFile : BOOLEAN]

ASSUME TestAssumption ==
    /\ Repetitions \in Nat \ {0}
    /\ Tests \subseteq Parameters
    /\ Shift \in Nat \ {0} /\ TaskPerNodeOffset \in Nat
    /\ MinRandomOffset \in Nat /\ MinRandomOffset < N
    /\ TimeLimit \in BOOLEAN
    /\ MaxCorruptions \in Nat

VARIABLES
    test,        \* the parameters of this run
    at,          \* where each rank is
    rep,         \* its repetition, from 1
    rankOffset,  \* its rankOffset
    target,      \* its testFileName: the rank the file belongs to
    elapsed,     \* has it seen the time limit pass
    errors,      \* did its last check find errors
    errorFound,  \* its test->errorFound
    opened,      \* "no", "w" or "r": how it has its file open
    exists,      \* the files there are
    block,       \* what each rank's block holds: a repetition's pattern or
                 \*   Nothing, Bad or Old
    corruptions

files == <<opened, exists, block, corruptions>>
private == <<rep, rankOffset, target, elapsed, errors, errorFound>>
vars == <<test, at, calls, private, files>>

Nothing == 0
Bad == -1   \* the file system stored something else
Old == -2   \* written by an earlier run

\* timeStampSignatureValue: set with -G, or new in every repetition.
Signature(r) == IF test.writeFile THEN rep[r] ELSE 1

\* A shared file is the file of rank 0.
FileOf(p) == IF test.filePerProc THEN p ELSE 0

\* (rank + offset) % numTasks
Pretend(r, offset) == (r + offset) % N

\* Files may be there from an earlier run with -k: a test that only reads
\* needs them, with its own signature (-G), for one that writes they hold
\* something else.
Init ==
    /\ test \in Tests
    /\ at = [r \in Ranks |-> "stamp"]
    /\ rep = [r \in Ranks |-> 1]
    /\ calls = NoCalls
    /\ rankOffset = [r \in Ranks |-> 0]
    /\ target = [r \in Ranks |-> FileOf(r)]
    /\ elapsed = [r \in Ranks |-> FALSE]
    /\ errors = [r \in Ranks |-> FALSE]
    /\ errorFound = [r \in Ranks |-> FALSE]
    /\ opened = [r \in Ranks |-> "no"]
    /\ exists \in {{}, {FileOf(r) : r \in Ranks}}
    /\ ~test.writeFile => exists # {}
    /\ block = [r \in Ranks |-> IF exists = {} THEN Nothing
                               ELSE IF test.writeFile THEN Old ELSE 1]
    /\ corruptions = 0

----------------------------------------------------------------------------
(* The steps of a rank.                                                     *)

At(r, place) == at[r] = place /\ Ready(r)
GoTo(r, place) == at' = [at EXCEPT ![r] = place]

\* ERR and FAIL end in MPI_Abort.
Abort == at' = [r \in Ranks |-> "aborted"]

\* What test_time_elapsed may say to r: it reads the local clock.
TimeElapsed(r, answer) ==
    /\ answer \in IF TimeLimit THEN {elapsed[r], TRUE} ELSE {FALSE}
    /\ elapsed' = [elapsed EXCEPT ![r] = answer]

\* GetTestFileName of r.
TestFile(r) == FileOf(Pretend(r, rankOffset[r]))

\* Removes the files in F, if they exist.
Unlink(F) ==
    /\ exists' = exists \ F
    /\ block' = [p \in Ranks |-> IF FileOf(p) \in F THEN Nothing ELSE block[p]]
    /\ UNCHANGED <<opened, corruptions>>

\* Mutant: a rank removes the file it read last, with -Z, too.
M_RemoveFile(r, testFileName) ==
    IF test.filePerProc \/ r = 0 THEN Unlink({testFileName}) ELSE Unlink({})

RemoveFile(r, testFileName) ==
    IF test.filePerProc
    THEN Unlink({IF test.reorder = "random" THEN FileOf(r) ELSE testFileName})
    ELSE Unlink(IF r = 0 THEN {testFileName} ELSE {})

\* WriteOrRead calls CountErrors after every phase of a test with checks.
Checks == test.checkWrite \/ test.checkRead

\* Mutant: a rank counts only the errors it found itself.
M_CountErrors(r) ==
    errorFound' = [errorFound EXCEPT ![r] = @ \/ (Checks /\ errors[r])]

\* CountErrors returns: every rank learns whether any rank saw an error.  No
\* rank can be at its next check before all of them have left this call, so
\* errors still holds what they passed to it.
CountErrors(r) ==
    errorFound' = [errorFound EXCEPT
                     ![r] = @ \/ (Checks /\ \E s \in Ranks : errors[s])]

----------------------------------------------------------------------------
(* The write phase.                                                        *)

Stamp(r) ==
    /\ At(r, "stamp")
    /\ Call(r, "Bcast")
    /\ GoTo(r, "write")
    /\ UNCHANGED <<test, private, files>>

SkipWrite(r) ==
    /\ At(r, "write")
    /\ IF test.writeFile THEN TimeElapsed(r, TRUE) ELSE UNCHANGED elapsed
    /\ GoTo(r, "checkWrite")
    /\ UNCHANGED <<test, calls, rep, rankOffset, target, errors, errorFound,
                   files>>

\* Mutant: no barrier between the removal of the old file and the creation.
M_StartWrite(r) ==
    /\ At(r, "write")
    /\ test.writeFile
    /\ TimeElapsed(r, FALSE)
    /\ target' = [target EXCEPT ![r] = TestFile(r)]
    /\ IF test.useExistingTestFile THEN UNCHANGED files
       ELSE RemoveFile(r, TestFile(r))
    /\ GoTo(r, "create")
    /\ UNCHANGED <<test, calls, rep, rankOffset, errors, errorFound>>

StartWrite(r) ==
    /\ At(r, "write")
    /\ test.writeFile
    /\ TimeElapsed(r, FALSE)
    /\ target' = [target EXCEPT ![r] = TestFile(r)]
    /\ IF test.useExistingTestFile THEN UNCHANGED files
       ELSE RemoveFile(r, TestFile(r))
    /\ Call(r, "Barrier")
    /\ GoTo(r, "create")
    /\ UNCHANGED <<test, rep, rankOffset, errors, errorFound>>

\* Mutant: only rank 0 creates a shared file, the others just open it.
M_Create(r) ==
    /\ At(r, "create")
    /\ IF test.filePerProc \/ r = 0 \/ target[r] \in exists
       THEN /\ exists' = exists \cup {target[r]}
            /\ opened' = [opened EXCEPT ![r] = "w"]
            /\ CallIf(test.intraTestBarriers, r, "Barrier")
            /\ GoTo(r, "writing")
       ELSE Abort /\ UNCHANGED <<calls, exists, opened>>
    /\ UNCHANGED <<test, private, block, corruptions>>

Create(r) ==
    /\ At(r, "create")
    /\ exists' = exists \cup {target[r]}
    /\ opened' = [opened EXCEPT ![r] = "w"]
    /\ CallIf(test.intraTestBarriers, r, "Barrier")
    /\ GoTo(r, "writing")
    /\ UNCHANGED <<test, private, block, corruptions>>

\* WriteOrRead(WRITE) fills pretendRank's block; the file system may store
\* something else.  A removed file that is still open has no readers.
Write(r) ==
    /\ At(r, "writing")
    /\ LET pretendRank == Pretend(r, rankOffset[r])
       IN \/ /\ block' = [block EXCEPT ![pretendRank] =
                             IF target[r] \in exists THEN Signature(r)
                             ELSE Nothing]
             /\ UNCHANGED corruptions
          \/ /\ corruptions < MaxCorruptions
             /\ corruptions' = corruptions + 1
             /\ block' = [block EXCEPT ![pretendRank] = Bad]
    /\ errors' = [errors EXCEPT ![r] = FALSE]
    /\ CallIf(Checks, r, "CountErrors")
    /\ GoTo(r, "written")
    /\ UNCHANGED <<test, rep, rankOffset, target, elapsed, errorFound, opened,
                   exists>>

\* The end of WriteOrRead, before and after the loop was a read or a write.
Transferred(r, from, to) ==
    /\ At(r, from)
    /\ CountErrors(r)
    /\ CallIf(test.intraTestBarriers, r, "Barrier")
    /\ GoTo(r, to)
    /\ UNCHANGED <<test, rep, rankOffset, target, elapsed, errors, files>>

CloseWritten(r) ==
    /\ At(r, "closeW")
    /\ opened' = [opened EXCEPT ![r] = "no"]
    /\ Call(r, "Barrier")
    /\ GoTo(r, "sizeW")
    /\ UNCHANGED <<test, private, exists, block, corruptions>>

\* CheckFileSize stats testFileName and reduces the sizes.
CheckFileSize(r, from, to) ==
    /\ At(r, from)
    /\ IF target[r] \in exists
       THEN /\ Call(r, "Allreduce")
            /\ GoTo(r, to)
       ELSE /\ Abort
            /\ UNCHANGED calls
    /\ UNCHANGED <<test, private, files>>

ProcessIterResults(r, from, to) ==
    /\ At(r, from)
    /\ Call(r, "Reduce")
    /\ GoTo(r, to)
    /\ UNCHANGED <<test, private, files>>

----------------------------------------------------------------------------
(* The write check.                                                        *)

SkipCheckWrite(r) ==
    /\ At(r, "checkWrite")
    /\ IF test.checkWrite THEN TimeElapsed(r, TRUE) ELSE UNCHANGED elapsed
    /\ GoTo(r, "read")
    /\ UNCHANGED <<test, calls, rep, rankOffset, target, errors, errorFound,
                   files>>

StartCheckWrite(r) ==
    /\ At(r, "checkWrite")
    /\ test.checkWrite
    /\ TimeElapsed(r, FALSE)
    /\ Call(r, "Barrier")
    /\ GoTo(r, "openC")
    /\ UNCHANGED <<test, rep, rankOffset, target, errors, errorFound, files>>

\* backend->open of a file that is not there ends the run.
OpenForReading(r, name, to) ==
    /\ IF name \in exists
       THEN /\ opened' = [opened EXCEPT ![r] = "r"]
            /\ GoTo(r, to)
       ELSE Abort /\ UNCHANGED opened
    /\ UNCHANGED <<exists, block, corruptions>>

OpenWriteCheck(r) ==
    /\ At(r, "openC")
    /\ LET offset == IF test.reorder = "constant" THEN (2 * Shift) % N
                     ELSE rankOffset[r]
           name == FileOf(Pretend(r, offset))
       IN /\ rankOffset' = [rankOffset EXCEPT ![r] = offset]
          /\ target' = [target EXCEPT ![r] = name]
          /\ OpenForReading(r, name, "checking")
    /\ UNCHANGED <<test, calls, rep, elapsed, errors, errorFound>>

\* The block r reads does not hold what pretendRank wrote in this repetition.
Mismatch(r) == block[Pretend(r, rankOffset[r])] # Signature(r)

WriteCheck(r) ==
    /\ At(r, "checking")
    /\ errors' = [errors EXCEPT ![r] = Mismatch(r)]
    /\ CallIf(Checks, r, "CountErrors")
    /\ GoTo(r, "closeC")
    /\ UNCHANGED <<test, rep, rankOffset, target, elapsed, errorFound, files>>

CloseChecked(r) ==
    /\ At(r, "closeC")
    /\ CountErrors(r)
    /\ opened' = [opened EXCEPT ![r] = "no"]
    /\ rankOffset' = [rankOffset EXCEPT ![r] = 0]
    /\ GoTo(r, "read")
    /\ UNCHANGED <<test, calls, rep, target, elapsed, errors, exists, block,
                   corruptions>>

----------------------------------------------------------------------------
(* The read phase.                                                         *)

Reads == test.readFile \/ test.checkRead

SkipRead(r) ==
    /\ At(r, "read")
    /\ IF Reads THEN TimeElapsed(r, TRUE) ELSE UNCHANGED elapsed
    /\ GoTo(r, "cleanup")
    /\ UNCHANGED <<test, calls, rep, rankOffset, target, errors, errorFound,
                   files>>

\* The offsets -C, -Z or neither may give a rank.  Both -Z and -Z -Z draw a
\* number per rank.
ReadOffsets(r) ==
    CASE test.reorder = "none" -> {rankOffset[r]}
      [] test.reorder = "constant" -> {(TaskPerNodeOffset * Shift) % N}
      [] test.reorder \in {"random", "shuffle"} ->
             {o \in Ranks : o >= MinRandomOffset}

StartRead(r) ==
    /\ At(r, "read")
    /\ Reads
    /\ TimeElapsed(r, FALSE)
    /\ \E offset \in ReadOffsets(r) :
          /\ rankOffset' = [rankOffset EXCEPT ![r] = offset]
          /\ target' = [target EXCEPT ![r] = FileOf(Pretend(r, offset))]
    /\ Call(r, "Barrier")
    /\ GoTo(r, "openR")
    /\ UNCHANGED <<test, rep, errors, errorFound, files>>

OpenRead(r) ==
    /\ At(r, "openR")
    /\ OpenForReading(r, target[r], "reading")
    /\ CallIf(test.intraTestBarriers /\ target[r] \in exists, r, "Barrier")
    /\ UNCHANGED <<test, private>>

Read(r) ==
    /\ At(r, "reading")
    /\ errors' = [errors EXCEPT ![r] = test.checkRead /\ Mismatch(r)]
    /\ CallIf(Checks, r, "CountErrors")
    /\ GoTo(r, "readDone")
    /\ UNCHANGED <<test, rep, rankOffset, target, elapsed, errorFound, files>>

\* No barrier after it.
CloseRead(r) ==
    /\ At(r, "closeR")
    /\ opened' = [opened EXCEPT ![r] = "no"]
    /\ GoTo(r, "sizeR")
    /\ UNCHANGED <<test, calls, private, exists, block, corruptions>>

----------------------------------------------------------------------------
(* The end of a repetition.                                                *)

Keep(r) == test.keepFile \/ (errorFound[r] /\ test.keepFileWithError)

\* Mutant: the files are removed without waiting for the other ranks.
M_Cleanup(r) ==
    /\ At(r, "cleanup")
    /\ CallIf(Keep(r), r, "Barrier")
    /\ GoTo(r, IF Keep(r) THEN "repEnd" ELSE "remove")
    /\ UNCHANGED <<test, private, files>>

Cleanup(r) ==
    /\ At(r, "cleanup")
    /\ Call(r, "Barrier")
    /\ GoTo(r, IF Keep(r) THEN "repEnd" ELSE "remove")
    /\ UNCHANGED <<test, private, files>>

Remove(r) ==
    /\ At(r, "remove")
    /\ RemoveFile(r, target[r])
    /\ Call(r, "Barrier")
    /\ GoTo(r, "repEnd")
    /\ UNCHANGED <<test, private>>

EndRepetition(r) ==
    /\ At(r, "repEnd")
    /\ errorFound' = [errorFound EXCEPT ![r] = FALSE]
    /\ rankOffset' = [rankOffset EXCEPT ![r] = 0]
    /\ IF rep[r] < Repetitions
       THEN /\ rep' = [rep EXCEPT ![r] = @ + 1]
            /\ GoTo(r, "stamp")
       ELSE /\ GoTo(r, "done")
            /\ UNCHANGED rep
    /\ UNCHANGED <<test, calls, target, elapsed, errors, files>>

Step(r) ==
    \/ Stamp(r) \/ SkipWrite(r) \/ StartWrite(r) \/ Create(r) \/ Write(r)
    \/ Transferred(r, "written", "closeW")
    \/ CloseWritten(r)
    \/ CheckFileSize(r, "sizeW", "resultsW")
    \/ ProcessIterResults(r, "resultsW", "checkWrite")
    \/ SkipCheckWrite(r) \/ StartCheckWrite(r) \/ OpenWriteCheck(r)
    \/ WriteCheck(r) \/ CloseChecked(r)
    \/ SkipRead(r) \/ StartRead(r) \/ OpenRead(r) \/ Read(r)
    \/ Transferred(r, "readDone", "closeR")
    \/ CloseRead(r)
    \/ CheckFileSize(r, "sizeR", "resultsR")
    \/ ProcessIterResults(r, "resultsR", "cleanup")
    \/ Cleanup(r) \/ Remove(r) \/ EndRepetition(r)

Terminated == \A r \in Ranks : at[r] \in {"done", "aborted"}

Next == \/ \E r \in Ranks : Step(r)
        \/ Terminated /\ UNCHANGED vars

Spec == Init /\ [][Next]_vars

\* Every rank is a process of its own that keeps running.
FairSpec == Spec /\ \A r \in Ranks : WF_vars(Step(r))

----------------------------------------------------------------------------
(* What must hold.                                                         *)

\* No rank finds the file missing that it is to open or to stat, whichever
\* rank created it and whoever removes it (RemoveFile runs at the start of
\* every repetition and at its end).
NeverAborts == \A r \in Ranks : at[r] # "aborted"

\* A check reports errors only on data that the file system got wrong, not on
\* a block that is not written yet, was removed or is of another repetition.
ErrorsAreReal == (\E r \in Ranks : errors[r]) => corruptions > 0

\* The files of which a block is stored wrong, which the write check finds.
ErrorFiles == IF test.checkWrite
              THEN {FileOf(p) : p \in {q \in Ranks : block[q] = Bad}} ELSE {}

\* With -K no removal at the end of a repetition takes a file with errors,
\* though the rank that removes it is not the one that found them.
ErrorFilesKept ==
    [][\A r \in Ranks :
           (test.keepFileWithError /\ at[r] = "remove" /\ at'[r] = "repEnd")
               => ErrorFiles \cap (exists \ exists') = {}]_vars

\* With -K no file with errors is ever removed.  It does not hold with two
\* repetitions: the second removes what the first kept.
ErrorFilesSurvive ==
    [][test.keepFileWithError
           => ErrorFiles \cap (exists \ exists') = {}]_vars

\* A file goes away only when no rank has it open.
NoRemovalWhileOpen ==
    [][\A f \in exists \ exists' :
           \A r \in Ranks : opened[r] # "no" => target[r] # f]_vars

\* A test without -k and -K leaves no file behind, in whatever order -C or
\* -Z moved the ranks over them.
NothingLeft ==
    (/\ \A r \in Ranks : at[r] = "done"
     /\ ~test.keepFile /\ ~test.keepFileWithError) => exists = {}

\* Ranks that read file-per-process read different files.  It does not hold
\* with -Z -Z (Tests <- Shuffled).
ReadPermutation ==
    \A r, s \in Ranks :
        /\ test.filePerProc
        /\ r # s
        /\ at[r] = "reading" /\ at[s] = "reading"
        => target[r] # target[s]

\* -T cancels whole repetitions: a rank that wrote in this one does not leave
\* its read phase out.  It does not hold with TimeLimit = TRUE.
TestsAreWhole ==
    [][\A r \in Ranks :
           (Reads /\ at[r] = "read" /\ at'[r] = "cleanup")
               => block[r] # Signature(r)]_vars

\* The test comes to its end on every rank: no rank waits in a collective
\* that another one never calls.
Finishes == <>Terminated
=============================================================================
