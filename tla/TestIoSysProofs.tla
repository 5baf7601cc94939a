-------------------------- MODULE TestIoSysProofs --------------------------
(***************************************************************************)
(* Proofs about one test of IOR (TestIoSys): for every number of ranks and  *)
(* repetitions and every mix of phases, orders and -k, -K, -g, no rank is   *)
(* without the file it is to open, no check reports an error that the file  *)
(* system did not make, no file is removed that is open or that -K is to    *)
(* keep, and nothing is left behind.                                        *)
(***************************************************************************)
EXTENDS TestIoSys, MpiProofs

\* What the proofs are about.  With -T every rank looks at its own clock, and they
\* need not leave out the same phases; a test that does not write finds nothing in
\* its second repetition if it does not keep the files.
WholeTests ==
    /\ TimeLimit = FALSE
    /\ \A t \in Tests : t.writeFile \/ t.keepFile \/ Repetitions = 1

\* The places of the phases.
WritePlaces == {"create", "writing", "written", "closeW", "sizeW", "resultsW"}
CheckPlaces == {"openC", "checking", "closeC"}
ReadPlaces == {"openR", "reading", "readDone", "closeR", "sizeR", "resultsR"}
EndPlaces == {"cleanup", "remove", "repEnd", "done"}
Places == {"stamp", "write", "checkWrite", "read"} \cup WritePlaces \cup CheckPlaces
            \cup ReadPlaces \cup EndPlaces
OpenPlaces == {"writing", "written", "closeW", "checking", "closeC",
               "reading", "readDone", "closeR"}

Files == {FileOf(r) : r \in Ranks}

TypeInv ==
    /\ test \in Tests
    /\ at \in [Ranks -> Places] /\ rep \in [Ranks -> 1..Repetitions]
    /\ rankOffset \in [Ranks -> Nat] /\ target \in [Ranks -> Files]
    /\ elapsed = [r \in Ranks |-> FALSE]
    /\ errors \in [Ranks -> BOOLEAN] /\ errorFound \in [Ranks -> BOOLEAN]
    /\ opened \in [Ranks -> {"no", "w", "r"}]
    /\ exists \in SUBSET Files /\ block \in [Ranks -> Int] /\ corruptions \in Nat
    /\ calls \in CallsIn({0})

----------------------------------------------------------------------------
(* The collectives of a repetition.                                        *)

Optional(condition) == IF condition THEN 1 ELSE 0
Barriers == Optional(test.intraTestBarriers)
Counting == Optional(Checks)

\* The calls up to the ends of the phases.
Written == 1 + IF test.writeFile THEN 4 + 2 * Barriers + Counting ELSE 0
Checked == Written + IF test.checkWrite THEN 2 ELSE 0
WasRead == Checked + IF Reads THEN 3 + 2 * Barriers + Counting ELSE 0

\* The calls up to a place.
Due(place, keep) ==
    CASE place = "stamp" -> 0
      [] place = "write" -> 1
      [] place = "create" -> 2
      [] place = "writing" -> 2 + Barriers
      [] place = "written" -> 2 + Barriers + Counting
      [] place = "closeW" -> 2 + 2 * Barriers + Counting
      [] place = "sizeW" -> 3 + 2 * Barriers + Counting
      [] place = "resultsW" -> 4 + 2 * Barriers + Counting
      [] place = "checkWrite" -> Written
      [] place \in {"openC", "checking"} -> Written + 1
      [] place = "closeC" -> Written + 2
      [] place = "read" -> Checked
      [] place = "openR" -> Checked + 1
      [] place = "reading" -> Checked + 1 + Barriers
      [] place = "readDone" -> Checked + 1 + Barriers + Counting
      [] place \in {"closeR", "sizeR"} -> Checked + 1 + 2 * Barriers + Counting
      [] place = "resultsR" -> Checked + 2 + 2 * Barriers + Counting
      [] place = "cleanup" -> WasRead
      [] place = "remove" -> WasRead + 1
      [] OTHER -> IF keep THEN WasRead + 1 ELSE WasRead + 2

\* Those of which a rank knows there that every rank has called them.
MetBeforeRead == IF test.checkWrite THEN Checked ELSE Written - 1
MetBeforeEnd == IF Reads THEN WasRead - 1 ELSE MetBeforeRead
Met(place, keep) ==
    CASE place \in {"stamp", "write", "create"} -> 0
      [] place = "writing" -> 2
      [] place = "written" -> 2 + Barriers
      [] place = "closeW" -> 2 + Barriers + Counting
      [] place = "sizeW" -> 2 + 2 * Barriers + Counting
      [] place = "resultsW" -> 3 + 2 * Barriers + Counting
      [] place \in {"checkWrite", "openC"} -> Written - 1
      [] place \in {"checking", "closeC"} -> Written + 1
      [] place \in {"read", "openR"} -> MetBeforeRead
      [] place = "reading" -> Checked + 1
      [] place = "readDone" -> Checked + 1 + Barriers
      [] place = "closeR" -> Checked + 1 + Barriers + Counting
      [] place \in {"sizeR", "resultsR"} -> Checked + 1 + 2 * Barriers + Counting
      [] place \in {"cleanup", "remove"} -> MetBeforeEnd
      [] OTHER -> IF keep THEN MetBeforeEnd ELSE WasRead + 1

\* At this place a rank is in a collective in which it waits for all others.
Waits(place) ==
    \/ place \in {"create", "sizeW", "resultsW", "openC", "closeC", "openR", "resultsR",
                  "remove", "repEnd"}
    \/ place \in {"writing", "closeW", "reading", "closeR"} /\ test.intraTestBarriers
    \/ place \in {"written", "readDone"} /\ Checks

Made(r) == Due(at[r], Keep(r))
Known(r) == Met(at[r], Keep(r))

\* The calls of the repetitions before.
Base(r) == Count(r) - Made(r)

CallInv(r) ==
    at[r] # "done" => /\ Base(r) \in Nat
                      /\ Waits(at[r]) => calls[r][Count(r)].op \in Synchronizing

\* Two ranks are in the same repetition, or one has still to leave the last call of
\* the repetition before.
RepInv(r, s) ==
    /\ at[r] = "done" => at[s] = "done" \/ (at[s] = "repEnd" /\ rep[s] = Repetitions)
    /\ at[r] # "done" /\ at[s] # "done" =>
        /\ rep[r] = rep[s] => Base(r) = Base(s) /\ Known(r) <= Made(s)
        /\ rep[r] < rep[s] => /\ rep[s] = rep[r] + 1 /\ at[r] = "repEnd"
                              /\ Base(s) = Count(r) /\ Known(s) = 0

----------------------------------------------------------------------------
(* What a rank does itself.                                                *)

\* The offsets with which all ranks check and read.
CheckTurn == IF test.reorder = "constant" THEN (2 * Shift) % N ELSE 0
ReadTurn == IF test.reorder = "constant" THEN (TaskPerNodeOffset * Shift) % N ELSE 0
InTurn == test.reorder \in {"none", "constant"}

PlaceInv(r) ==
    /\ at[r] \in WritePlaces => test.writeFile
    /\ at[r] \in CheckPlaces => test.checkWrite
    /\ at[r] \in ReadPlaces => Reads
    /\ at[r] = "remove" => ~Keep(r)
    /\ at[r] = "done" => rep[r] = Repetitions
    /\ opened[r] # "no" => at[r] \in OpenPlaces

TargetInv(r) ==
    /\ at[r] \in {"stamp", "write", "checkWrite", "openC", "read", "done"} \cup WritePlaces
        => rankOffset[r] = 0
    /\ at[r] \in {"checking", "closeC"} => rankOffset[r] = CheckTurn
    /\ at[r] \in ReadPlaces /\ InTurn => rankOffset[r] = ReadTurn
    /\ at[r] \in WritePlaces => target[r] = FileOf(r)
    /\ at[r] \in {"checking", "closeC"} \cup ReadPlaces => target[r] = TestFile(r)
    /\ ~Reads /\ ~test.checkWrite => target[r] = FileOf(r)
    /\ ~Reads /\ test.checkWrite /\ at[r] \in {"read"} \cup EndPlaces
        => target[r] = FileOf(Pretend(r, CheckTurn))
    /\ Reads /\ InTurn /\ at[r] \in EndPlaces
        => target[r] = FileOf(Pretend(r, ReadTurn))

----------------------------------------------------------------------------
(* What the ranks learn of errors.                                         *)

ErrorSeen == \E q \in Ranks : errors[q]

\* How many checks a rank has the result of.
Results(r) ==
    IF at[r] \in {"stamp", "write", "create", "writing", "written"} THEN 0
    ELSE IF at[r] \in {"closeW", "sizeW", "resultsW", "checkWrite"} \cup CheckPlaces
    THEN Optional(test.writeFile)
    ELSE IF at[r] \in {"read", "openR", "reading", "readDone"}
    THEN Optional(test.writeFile) + Optional(test.checkWrite)
    ELSE Optional(test.writeFile) + Optional(test.checkWrite) + Optional(Reads)

ErrorInv(r) ==
    /\ ~Checks \/ Results(r) = 0 \/ at[r] = "done" => ~errorFound[r]
    /\ errors[r] => corruptions > 0

\* Ranks with the same results agree, and who has one less is about to get it.
AgreeInv(r, s) ==
    Checks /\ at[r] # "done" /\ at[s] # "done" /\ rep[r] = rep[s] =>
        /\ Results(r) = Results(s) => errorFound[r] = errorFound[s]
        /\ Results(r) < Results(s) => /\ at[r] \in {"written", "closeC", "readDone"}
                                      /\ Results(s) = Results(r) + 1
                                      /\ errorFound[s] = (errorFound[r] \/ ErrorSeen)

\* Who has checked a block that is stored wrong knows it.
BadInv(r) ==
    test.checkWrite /\ block[Pretend(r, CheckTurn)] = Bad =>
        /\ at[r] = "closeC" => errors[r]
        /\ at[r] \in {"read", "cleanup", "remove", "repEnd"} \cup ReadPlaces => errorFound[r]

----------------------------------------------------------------------------
(* What there is of the files.                                             *)

Removed(q) == at[q] = "done" \/ (at[q] = "repEnd" /\ ~Keep(q))
Intact == \A q \in Ranks : ~Removed(q)

\* p has still to leave a repetition that another rank has left.
Behind(p) == at[p] = "repEnd" /\ \E q \in Ranks : rep[p] < rep[q]

\* A file is there from its creation to the first removal.
FileInv(p) ==
    /\ ~test.writeFile /\ (test.keepFile \/ Intact) => FileOf(p) \in exists
    /\ test.writeFile /\ Intact /\ ~Behind(p) /\ at[p] \notin {"stamp", "write", "create"}
        => FileOf(p) \in exists

\* A block has its contents from then on that the rank has written it.
BlockInv(p) ==
    corruptions = 0 =>
        /\ ~test.writeFile /\ (test.keepFile \/ Intact) => block[p] = 1
        /\ test.writeFile /\ Intact /\ ~Behind(p)
              /\ at[p] \notin {"stamp", "write", "create", "writing"} => block[p] = rep[p]

\* What a rank has removed is not there again.
GoneInv(r) ==
    ~test.keepFile /\ ~test.keepFileWithError /\ at[r] \in {"repEnd", "done"} =>
        /\ test.filePerProc
            => (IF test.reorder = "random" THEN FileOf(r) ELSE target[r]) \notin exists
        /\ ~test.filePerProc /\ r = 0 => 0 \notin exists

RankInv(r) ==
    /\ PlaceInv(r) /\ TargetInv(r) /\ CallInv(r) /\ ErrorInv(r)
    /\ BadInv(r) /\ FileInv(r) /\ BlockInv(r) /\ GoneInv(r)

TestInv == /\ TypeInv
           /\ \A r \in Ranks : RankInv(r)
           /\ \A r, s \in Ranks : RepInv(r, s) /\ AgreeInv(r, s)

----------------------------------------------------------------------------
(* Sizes and places.                                                       *)

\* The parameters of a run.
LEMMA TestType ==
    ASSUME TypeInv
    PROVE  /\ test \in Parameters /\ (WholeTests => test.writeFile \/ test.keepFile \/ Repetitions = 1)
           /\ 0 \in Ranks /\ Ranks \subseteq Nat /\ Files \subseteq Ranks
           /\ Repetitions \in Nat \ {0} /\ Shift \in Nat /\ TaskPerNodeOffset \in Nat
           /\ \A r \in Ranks : FileOf(r) \in Files
<1>1. test \in Parameters /\ Repetitions \in Nat \ {0} /\ Shift \in Nat /\ TaskPerNodeOffset \in Nat
  BY TestAssumption DEF TypeInv
<1>2. 0 \in Ranks /\ Ranks \subseteq Nat
  BY MpiAssumption DEF Ranks
<1>3. WholeTests => test.writeFile \/ test.keepFile \/ Repetitions = 1
  BY DEF TypeInv, WholeTests
<1> QED
  BY <1>1, <1>2, <1>3 DEF Files, FileOf

\* The numbers of calls are numbers.
LEMMA SizeType ==
    ASSUME TypeInv
    PROVE  /\ Barriers \in {0, 1} /\ (Barriers = 1 <=> test.intraTestBarriers)
           /\ Counting \in {0, 1} /\ (Counting = 1 <=> Checks)
           /\ Written \in Nat /\ Checked \in Nat /\ WasRead \in Nat
           /\ IF test.writeFile THEN Written = 5 + 2 * Barriers + Counting ELSE Written = 1
           /\ IF test.checkWrite THEN Checked = Written + 2 /\ MetBeforeRead = Checked
              ELSE Checked = Written /\ MetBeforeRead = Written - 1
           /\ IF Reads THEN WasRead = Checked + 3 + 2 * Barriers + Counting /\ MetBeforeEnd = WasRead - 1
              ELSE WasRead = Checked /\ MetBeforeEnd = MetBeforeRead
<1>1. test.intraTestBarriers \in BOOLEAN /\ Checks \in BOOLEAN /\ test.writeFile \in BOOLEAN
      /\ test.checkWrite \in BOOLEAN /\ Reads \in BOOLEAN
  BY TestType DEF Parameters, Checks, Reads
<1>2. Barriers \in {0, 1} /\ (Barriers = 1 <=> test.intraTestBarriers)
      /\ Counting \in {0, 1} /\ (Counting = 1 <=> Checks)
  BY <1>1 DEF Barriers, Counting, Optional
<1>3. IF test.writeFile THEN Written = 5 + 2 * Barriers + Counting ELSE Written = 1
  BY <1>2 DEF Written
<1>4. IF test.checkWrite THEN Checked = Written + 2 /\ MetBeforeRead = Checked
      ELSE Checked = Written /\ MetBeforeRead = Written - 1
  BY <1>2, <1>3 DEF Checked, MetBeforeRead
<1>5. IF Reads THEN WasRead = Checked + 3 + 2 * Barriers + Counting /\ MetBeforeEnd = WasRead - 1
      ELSE WasRead = Checked /\ MetBeforeEnd = MetBeforeRead
  BY <1>2, <1>3, <1>4 DEF WasRead, MetBeforeEnd
<1> QED
  BY <1>1, <1>2, <1>3, <1>4, <1>5

\* A rank knows of no more calls than it has made itself.
LEMMA MadeType ==
    ASSUME TypeInv, NEW r \in Ranks, PlaceInv(r)
    PROVE  Made(r) \in Nat /\ Known(r) \in Nat /\ Known(r) <= Made(r) /\ Count(r) \in Nat
<1>1. at[r] \in Places /\ Count(r) \in Nat
  BY CountIsNat DEF TypeInv
<1> QED
  BY <1>1, SizeType DEF Made, Known, Due, Met, Places, WritePlaces, CheckPlaces, ReadPlaces, EndPlaces,
     PlaceInv, Checks

\* Who goes on after a collective that all wait in, or has done so before, knows that
\* all are in the same repetition and have made that call.
LEMMA AllThere ==
    ASSUME TypeInv, \A s \in Ranks : PlaceInv(s) /\ CallInv(s), \A s, t \in Ranks : RepInv(s, t),
           NEW r \in Ranks, at[r] \notin {"repEnd", "done"}, NEW n \in Nat \ {0},
           n <= Known(r) \/ (n <= Made(r) /\ Ready(r) /\ Waits(at[r]))
    PROVE  \A s \in Ranks : /\ at[s] # "done" /\ rep[s] = rep[r]
                            /\ Base(s) = Base(r) /\ n <= Made(s)
<1> SUFFICES ASSUME NEW s \in Ranks
             PROVE  at[s] # "done" /\ rep[s] = rep[r] /\ Base(s) = Base(r) /\ n <= Made(s)
  OBVIOUS
<1>1. at[s] # "done"
  BY DEF RepInv
<1>2. /\ Made(r) \in Nat /\ Known(r) \in Nat /\ Known(r) <= Made(r) /\ Count(r) \in Nat
      /\ Made(s) \in Nat /\ Known(s) \in Nat /\ Known(s) <= Made(s) /\ Count(s) \in Nat
  BY MadeType
<1>3. Base(r) \in Nat /\ Base(s) \in Nat /\ rep[r] \in Nat /\ rep[s] \in Nat
  BY <1>1, TestType DEF CallInv, TypeInv
<1>4. Count(r) = Base(r) + Made(r) /\ Count(s) = Base(s) + Made(s)
  BY <1>2 DEF Base
<1>5. /\ rep[r] = rep[s] => Base(r) = Base(s) /\ Known(r) <= Made(s)
      /\ ~(rep[r] < rep[s])
      /\ rep[s] < rep[r] => at[s] = "repEnd" /\ Base(r) = Count(s) /\ Known(r) = 0
  BY <1>1 DEF RepInv
<1>6. CASE n <= Known(r)
  BY <1>1, <1>2, <1>3, <1>5, <1>6
<1>7. CASE n <= Made(r) /\ Ready(r) /\ Waits(at[r])
  <2>1. Count(r) > 0
    BY <1>2, <1>3, <1>4, <1>7
  <2>2. calls[r][Count(r)].op \in Synchronizing
    BY <1>7 DEF CallInv
  <2>3. Count(s) >= Count(r)
    BY <1>7, <2>1, <2>2, ReadyMeans
  <2> QED
    BY <1>1, <1>2, <1>3, <1>4, <1>5, <1>7, <2>3
<1> QED
  BY <1>6, <1>7

\* No file of this repetition has been removed while a rank has still to end it.
LEMMA StillIntact ==
    ASSUME TypeInv, \A s \in Ranks : PlaceInv(s) /\ CallInv(s), \A s, t \in Ranks : RepInv(s, t),
           NEW r \in Ranks, at[r] \notin {"remove", "repEnd", "done"}, NEW n \in Nat \ {0},
           n <= Known(r) \/ (n <= Made(r) /\ Ready(r) /\ Waits(at[r]))
    PROVE  Intact /\ \A p \in Ranks : ~Behind(p)
<1>1. \A s \in Ranks : at[s] # "done" /\ rep[s] = rep[r]
  BY AllThere
<1>2. ASSUME NEW s \in Ranks, at[s] = "repEnd", ~Keep(s) PROVE FALSE
  <2>1. Known(s) <= Made(r)
    BY <1>1, <1>2 DEF RepInv
  <2>2. Known(s) = WasRead + 1
    BY <1>2 DEF Known, Met
  <2>3. at[r] \in Places
    BY DEF TypeInv
  <2>4. Made(r) <= WasRead
    BY <2>3, SizeType DEF Made, Due, Places, WritePlaces, CheckPlaces, ReadPlaces, EndPlaces,
       PlaceInv, Checks
  <2>5. Made(r) \in Nat
    BY MadeType
  <2> QED
    BY <2>1, <2>2, <2>4, <2>5, SizeType
<1>3. \A s \in Ranks : rep[s] \in Nat
  BY DEF TypeInv
<1> QED
  BY <1>1, <1>2, <1>3 DEF Intact, Removed, Behind

\* When a rank writes, and after it has written, its file is there.
LEMMA OwnFileThere ==
    ASSUME TypeInv, \A s \in Ranks : RankInv(s), \A s, t \in Ranks : RepInv(s, t),
           NEW r \in Ranks, at[r] \in {"writing", "sizeW"}
    PROVE  Intact /\ ~Behind(r) /\ FileOf(r) \in exists /\ target[r] = FileOf(r)
<1>1. test.writeFile /\ target[r] = FileOf(r)
  BY DEF RankInv, PlaceInv, TargetInv, WritePlaces
<1>2. 2 <= Known(r)
  BY SizeType DEF Known, Met
<1>3. Intact /\ ~Behind(r)
  BY <1>2, StillIntact DEF RankInv
<1> QED
  BY <1>1, <1>3 DEF RankInv, FileInv

\* When a rank opens, reads or checks, and after it has read, the files of all ranks are
\* there, with what they have written in this repetition.
LEMMA AllFilesThere ==
    ASSUME TypeInv, WholeTests, \A s \in Ranks : RankInv(s), \A s, t \in Ranks : RepInv(s, t),
           NEW r \in Ranks, at[r] \in CheckPlaces \cup ReadPlaces,
           at[r] \in {"openC", "openR"} => Ready(r)
    PROVE  \A p \in Ranks : /\ FileOf(p) \in exists
                            /\ corruptions = 0 => block[p] = Signature(r)
<1> SUFFICES ASSUME NEW p \in Ranks
             PROVE  FileOf(p) \in exists /\ (corruptions = 0 => block[p] = Signature(r))
  OBVIOUS
<1>1. Written + 1 <= Known(r) \/ (Written + 1 <= Made(r) /\ Ready(r) /\ Waits(at[r]))
  <2>1. at[r] \in CheckPlaces => test.checkWrite
    BY DEF RankInv, PlaceInv
  <2> QED
    BY <2>1, SizeType DEF Known, Met, Made, Due, Waits, CheckPlaces, ReadPlaces
<1>2. at[r] \notin {"remove", "repEnd", "done"} /\ Written + 1 \in Nat \ {0}
  BY SizeType DEF CheckPlaces, ReadPlaces
<1>3. Intact /\ ~Behind(p)
  BY <1>1, <1>2, StillIntact DEF RankInv
<1>4. at[p] # "done" /\ rep[p] = rep[r] /\ Written + 1 <= Made(p)
  BY <1>1, <1>2, AllThere DEF RankInv
<1>5. FileInv(p) /\ BlockInv(p)
  BY DEF RankInv
<1>6. CASE test.writeFile
  <2>1. at[p] \notin {"stamp", "write", "create", "writing"}
    BY <1>4, <1>6, SizeType DEF Made, Due
  <2> QED
    BY <1>3, <1>4, <1>5, <1>6, <2>1 DEF FileInv, BlockInv, Signature
<1>7. CASE ~test.writeFile
  BY <1>3, <1>5, <1>7 DEF FileInv, BlockInv, Signature
<1> QED
  BY <1>6, <1>7

----------------------------------------------------------------------------
(* What a step changes.                                                    *)

\* A step of a rank leaves alone what the others keep.
Frame(r) ==
    \A s \in Ranks \ {r} :
        /\ at'[s] = at[s] /\ rep'[s] = rep[s] /\ calls'[s] = calls[s]
        /\ rankOffset'[s] = rankOffset[s] /\ target'[s] = target[s]
        /\ errors'[s] = errors[s] /\ errorFound'[s] = errorFound[s]
        /\ opened'[s] = opened[s]

\* The ranks that -C and -Z lead to are ranks.
LEMMA PretendType ==
    ASSUME NEW r \in Ranks, NEW o \in Nat
    PROVE  Pretend(r, o) \in Ranks /\ o % N \in Nat
<1>1. N \in Nat \ {0} /\ r + o \in Nat
  BY MpiAssumption DEF Ranks
<1> HIDE DEF Ranks
<1>2. (r + o) % N \in 0..(N - 1) /\ o % N \in 0..(N - 1)
  BY <1>1
<1> QED
  BY <1>2 DEF Pretend, Ranks

\* A rank makes at most one call in a step.
LEMMA OneCall ==
    ASSUME TypeInv, NEW r \in Ranks, Step(r)
    PROVE  /\ UNCHANGED calls \/ \E op \in Collectives : Call(r, op)
           /\ calls' \in CallsIn({0}) /\ \A s \in Ranks \ {r} : calls'[s] = calls[s]
<1>1. UNCHANGED calls \/ \E op \in {"Bcast", "Barrier", "CountErrors", "Allreduce", "Reduce"} : Call(r, op)
  BY DEF Step, Stamp, SkipWrite, StartWrite, Create, Write, Transferred, CloseWritten, CheckFileSize,
     ProcessIterResults, SkipCheckWrite, StartCheckWrite, OpenWriteCheck, WriteCheck, CloseChecked,
     SkipRead, StartRead, OpenRead, Read, CloseRead, Cleanup, Remove, EndRepetition, CallIf
<1>2. {"Bcast", "Barrier", "CountErrors", "Allreduce", "Reduce"} \subseteq Collectives
  BY DEF Collectives, Synchronizing
<1>3. calls \in CallsIn({0})
  BY DEF TypeInv
<1>4. ASSUME NEW op \in Collectives, Call(r, op)
      PROVE  calls' \in CallsIn({0}) /\ \A s \in Ranks \ {r} : calls'[s] = calls[s]
  <2>1. Send(r, op, 0) /\ 0 \in {0}
    BY <1>4 DEF Call
  <2> HIDE DEF Send
  <2> QED
    BY <1>3, <2>1, SendStep
<1>5. CASE UNCHANGED calls
  BY <1>3, <1>5
<1> QED
  BY <1>1, <1>2, <1>4, <1>5

\* What is removed leaves nothing behind.
LEMMA RemoveType ==
    ASSUME TypeInv, NEW r \in Ranks, NEW f \in Files, RemoveFile(r, f)
    PROVE  exists' \in SUBSET Files /\ block' \in [Ranks -> Int] /\ UNCHANGED <<opened, corruptions>>
BY DEF RemoveFile, Unlink, TypeInv, Nothing

\* The step goes on to a place, and the rest stays as it is typed.
LEMMA StepType ==
    ASSUME TypeInv, WholeTests, NEW r \in Ranks, Step(r), at'[r] # "aborted"
    PROVE  TypeInv' /\ Frame(r) /\ UNCHANGED <<test, elapsed>>
<1> USE DEF TypeInv, Frame
<1> DEFINE Typed == /\ at' \in [Ranks -> Places] /\ rep' \in [Ranks -> 1..Repetitions]
                    /\ rankOffset' \in [Ranks -> Nat] /\ target' \in [Ranks -> Files]
                    /\ errors' \in [Ranks -> BOOLEAN] /\ errorFound' \in [Ranks -> BOOLEAN]
                    /\ opened' \in [Ranks -> {"no", "w", "r"}]
                    /\ exists' \in SUBSET Files /\ block' \in [Ranks -> Int] /\ corruptions' \in Nat
           Others == \A s \in Ranks \ {r} :
                        /\ at'[s] = at[s] /\ rep'[s] = rep[s]
                        /\ rankOffset'[s] = rankOffset[s] /\ target'[s] = target[s]
                        /\ errors'[s] = errors[s] /\ errorFound'[s] = errorFound[s]
                        /\ opened'[s] = opened[s]
           Same == UNCHANGED <<test, elapsed>>
<1>0. calls' \in CallsIn({0}) /\ \A s \in Ranks \ {r} : calls'[s] = calls[s]
  BY OneCall
<1> SUFFICES Typed /\ Others /\ Same
  <2>0. Same => Files' = Files
    BY DEF Files, FileOf
  <2>1. Same /\ Typed => TypeInv'
    BY <1>0, <2>0
  <2>2. Others => Frame(r)
    BY <1>0
  <2> QED
    BY <2>1, <2>2
<1>1. \A f : FileOf(f) = (IF test.filePerProc THEN f ELSE 0)
  BY DEF FileOf
<1>2. \A s, o : s \in Ranks /\ o \in Nat => FileOf(Pretend(s, o)) \in Files
  BY TestType, PretendType
<1>3. \A answer : TimeElapsed(r, answer) => elapsed' = elapsed
  BY DEF TimeElapsed, WholeTests
<1>4. Places = {"stamp", "write", "checkWrite", "read", "cleanup", "remove", "repEnd", "done"}
                 \cup WritePlaces \cup CheckPlaces \cup ReadPlaces
  BY DEF Places, EndPlaces
<1> USE DEF At, GoTo, private, files
<1> USE <1>4 DEF WritePlaces, CheckPlaces, ReadPlaces
<1>5. CASE Stamp(r)
  BY <1>5 DEF Stamp
<1>6. CASE SkipWrite(r)
  BY <1>3, <1>6 DEF SkipWrite
<1>7. CASE StartWrite(r)
  <2>1. TestFile(r) \in Files
    BY <1>2 DEF TestFile
  <2>2. exists' \in SUBSET Files /\ block' \in [Ranks -> Int] /\ UNCHANGED <<opened, corruptions>>
    BY <1>7, <2>1, RemoveType DEF StartWrite
  <2> QED
    BY <1>3, <1>7, <2>1, <2>2 DEF StartWrite
<1>8. CASE Create(r)
  BY <1>8 DEF Create
<1>9. CASE Write(r)
  <2>1. Signature(r) \in Int /\ Nothing \in Int /\ Bad \in Int
    BY DEF Signature, Nothing, Bad
  <2>2. corruptions' \in Nat /\ block' \in [Ranks -> Int]
    BY <1>9, <2>1 DEF Write
  <2> QED
    BY <1>9, <2>2 DEF Write
<1>10. CASE Transferred(r, "written", "closeW") \/ Transferred(r, "readDone", "closeR")
  BY <1>10 DEF Transferred, CountErrors, Checks
<1>11. CASE CloseWritten(r)
  BY <1>11 DEF CloseWritten
<1>12. CASE CheckFileSize(r, "sizeW", "resultsW") \/ CheckFileSize(r, "sizeR", "resultsR")
  BY <1>12 DEF CheckFileSize, Abort
<1>13. CASE ProcessIterResults(r, "resultsW", "checkWrite") \/ ProcessIterResults(r, "resultsR", "cleanup")
  BY <1>13 DEF ProcessIterResults
<1>14. CASE SkipCheckWrite(r)
  BY <1>3, <1>14 DEF SkipCheckWrite
<1>15. CASE StartCheckWrite(r)
  BY <1>3, <1>15 DEF StartCheckWrite
<1>16. CASE OpenWriteCheck(r)
  <2>0. 2 * Shift \in Nat
    BY TestType
  <2>1. (2 * Shift) % N \in Nat
    BY <2>0, PretendType
  <2>2. PICK o \in Nat : /\ rankOffset' = [rankOffset EXCEPT ![r] = o]
                         /\ target' = [target EXCEPT ![r] = FileOf(Pretend(r, o))]
                         /\ OpenForReading(r, FileOf(Pretend(r, o)), "checking")
    BY <1>16, <2>1 DEF OpenWriteCheck
  <2> QED
    BY <1>2, <1>16, <2>2 DEF OpenWriteCheck, OpenForReading, Abort
<1>17. CASE WriteCheck(r)
  BY <1>17 DEF WriteCheck, Mismatch
<1>18. CASE CloseChecked(r)
  BY <1>18 DEF CloseChecked, CountErrors, Checks
<1>19. CASE SkipRead(r)
  BY <1>3, <1>19 DEF SkipRead
<1>20. CASE StartRead(r)
  <2>1. ReadOffsets(r) \subseteq Nat
    <3>1. (TaskPerNodeOffset * Shift) % N \in Nat
      <4>1. TaskPerNodeOffset * Shift \in Nat
        BY TestType
      <4> QED
        BY <4>1, PretendType
    <3>2. test.reorder \in {"none", "constant", "random", "shuffle"}
      BY TestType DEF Parameters
    <3> QED
      BY <3>1, <3>2, TestType DEF ReadOffsets
  <2>2. PICK o \in Nat : /\ rankOffset' = [rankOffset EXCEPT ![r] = o]
                         /\ target' = [target EXCEPT ![r] = FileOf(Pretend(r, o))]
    BY <1>20, <2>1 DEF StartRead
  <2> QED
    BY <1>2, <1>3, <1>20, <2>2 DEF StartRead
<1>21. CASE OpenRead(r)
  BY <1>21 DEF OpenRead, OpenForReading, Abort
<1>22. CASE Read(r)
  <2>1. test.checkRead \in BOOLEAN
    BY TestType DEF Parameters
  <2> QED
    BY <1>22, <2>1 DEF Read, Mismatch
<1>23. CASE CloseRead(r)
  BY <1>23 DEF CloseRead
<1>24. CASE Cleanup(r)
  BY <1>24 DEF Cleanup
<1>25. CASE Remove(r)
  <2>1. exists' \in SUBSET Files /\ block' \in [Ranks -> Int] /\ UNCHANGED <<opened, corruptions>>
    BY <1>25, RemoveType DEF Remove
  <2> QED
    BY <1>25, <2>1 DEF Remove
<1>26. CASE EndRepetition(r)
  <2>1. rep[r] \in 1..Repetitions /\ Repetitions \in Nat
    BY TestType
  <2>2. rep' \in [Ranks -> 1..Repetitions] /\ \A s \in Ranks \ {r} : rep'[s] = rep[s]
    <3>1. CASE rep[r] < Repetitions
      <4>1. rep[r] + 1 \in 1..Repetitions /\ rep' = [rep EXCEPT ![r] = rep[r] + 1]
        BY <1>26, <2>1, <3>1 DEF EndRepetition
      <4> QED
        BY <4>1
    <3>2. CASE ~(rep[r] < Repetitions)
      BY <1>26, <3>2 DEF EndRepetition
    <3> QED
      BY <3>1, <3>2
  <2> QED
    BY <1>26, <2>2 DEF EndRepetition
<1> HIDE DEF Typed, Others, Same, At, GoTo, private, files, WritePlaces, CheckPlaces, ReadPlaces
<1> QED
  BY <1>5, <1>6, <1>7, <1>8, <1>9, <1>10, <1>11, <1>12, <1>13, <1>14, <1>15, <1>16, <1>17,
     <1>18, <1>19, <1>20, <1>21, <1>22, <1>23, <1>24, <1>25, <1>26 DEF Step

\* No rank gives up: what it opens or stats is there.
LEMMA NobodyAborts ==
    ASSUME TypeInv, WholeTests, \A s \in Ranks : RankInv(s), \A s, t \in Ranks : RepInv(s, t),
           NEW r \in Ranks, Step(r)
    PROVE  at'[r] # "aborted"
<1> SUFFICES ASSUME at'[r] = "aborted" PROVE FALSE
  OBVIOUS
<1>1. \/ CheckFileSize(r, "sizeW", "resultsW") \/ CheckFileSize(r, "sizeR", "resultsR")
      \/ OpenWriteCheck(r) \/ OpenRead(r)
  BY DEF Step, Stamp, SkipWrite, StartWrite, Create, Write, Transferred, CloseWritten,
     ProcessIterResults, SkipCheckWrite, StartCheckWrite, WriteCheck, CloseChecked,
     SkipRead, StartRead, Read, CloseRead, Cleanup, Remove, EndRepetition, GoTo, TypeInv
<1>2. rankOffset[r] \in Nat /\ (2 * Shift) % N \in Nat
  <2>1. 2 * Shift \in Nat
    BY TestType
  <2> QED
    BY <2>1, PretendType DEF TypeInv
<1>3. CASE CheckFileSize(r, "sizeW", "resultsW")
  <2>1. target[r] \in exists
    BY <1>3, OwnFileThere DEF CheckFileSize, At
  <2> QED
    BY <1>3, <2>1 DEF CheckFileSize, GoTo, TypeInv
<1>4. CASE CheckFileSize(r, "sizeR", "resultsR")
  <2>1. at[r] = "sizeR" /\ target[r] = TestFile(r)
    BY <1>4 DEF CheckFileSize, At, RankInv, TargetInv, ReadPlaces
  <2>2. target[r] \in exists
    BY <1>2, <2>1, AllFilesThere, PretendType DEF ReadPlaces, TestFile
  <2> QED
    BY <1>4, <2>2 DEF CheckFileSize, GoTo, TypeInv
<1>5. CASE OpenWriteCheck(r)
  <2>1. at[r] = "openC" /\ Ready(r)
    BY <1>5 DEF OpenWriteCheck, At
  <2>2. \A o \in Nat : FileOf(Pretend(r, o)) \in exists
    BY <2>1, AllFilesThere, PretendType DEF CheckPlaces
  <2>3. PICK o \in Nat : OpenForReading(r, FileOf(Pretend(r, o)), "checking")
    BY <1>2, <1>5 DEF OpenWriteCheck
  <2> QED
    BY <2>2, <2>3 DEF OpenForReading, GoTo, TypeInv
<1>6. CASE OpenRead(r)
  <2>1. at[r] = "openR" /\ Ready(r) /\ target[r] = TestFile(r)
    BY <1>6 DEF OpenRead, At, RankInv, TargetInv, ReadPlaces
  <2>2. target[r] \in exists
    BY <1>2, <2>1, AllFilesThere, PretendType DEF ReadPlaces, TestFile
  <2> QED
    BY <1>6, <2>2 DEF OpenRead, OpenForReading, GoTo, TypeInv
<1> QED
  BY <1>1, <1>3, <1>4, <1>5, <1>6

\* The sizes are those of the run.
LEMMA SameSizes ==
    ASSUME UNCHANGED test
    PROVE  /\ Barriers' = Barriers /\ Counting' = Counting /\ Written' = Written
           /\ Checked' = Checked /\ WasRead' = WasRead
           /\ MetBeforeRead' = MetBeforeRead /\ MetBeforeEnd' = MetBeforeEnd
           /\ (Reads' <=> Reads) /\ (Checks' <=> Checks)
BY DEF Barriers, Counting, Written, Checked, WasRead, MetBeforeRead, MetBeforeEnd, Reads, Checks, Optional

\* Where the steps of a repetition lead, and what they call.
Goes(r, from, to, op) ==
    /\ at[r] = from /\ at'[r] = to
    /\ IF op = "none" THEN UNCHANGED calls ELSE Call(r, op)
If(condition, op) == IF condition THEN op ELSE "none"
BarrierCall == If(test.intraTestBarriers, "Barrier")
CountCall == If(Checks, "CountErrors")

WritePhase(r) ==
    \/ Goes(r, "write", "create", "Barrier")
    \/ Goes(r, "create", "writing", BarrierCall) \/ Goes(r, "writing", "written", CountCall)
    \/ Goes(r, "written", "closeW", BarrierCall) \/ Goes(r, "closeW", "sizeW", "Barrier")
    \/ Goes(r, "sizeW", "resultsW", "Allreduce") \/ Goes(r, "resultsW", "checkWrite", "Reduce")

CheckPhase(r) ==
    \/ Goes(r, "checkWrite", "openC", "Barrier") \/ Goes(r, "openC", "checking", "none")
    \/ Goes(r, "checking", "closeC", "CountErrors") \/ Goes(r, "closeC", "read", "none")

ReadPhase(r) ==
    \/ Goes(r, "read", "openR", "Barrier")
    \/ Goes(r, "openR", "reading", BarrierCall) \/ Goes(r, "reading", "readDone", CountCall)
    \/ Goes(r, "readDone", "closeR", BarrierCall) \/ Goes(r, "closeR", "sizeR", "none")
    \/ Goes(r, "sizeR", "resultsR", "Allreduce") \/ Goes(r, "resultsR", "cleanup", "Reduce")

EndPhase(r) ==
    \/ Goes(r, "cleanup", "repEnd", "Barrier") /\ Keep(r)
    \/ Goes(r, "cleanup", "remove", "Barrier") /\ ~Keep(r)
    \/ Goes(r, "remove", "repEnd", "Barrier")

NoPhase(r) ==
    \/ Goes(r, "stamp", "write", "Bcast")
    \/ Goes(r, "write", "checkWrite", "none") /\ ~test.writeFile
    \/ Goes(r, "checkWrite", "read", "none") /\ ~test.checkWrite
    \/ Goes(r, "read", "cleanup", "none") /\ ~Reads

Moves(r) ==
    /\ Ready(r) /\ rep' = rep
    /\ \/ WritePhase(r) /\ test.writeFile
       \/ CheckPhase(r) /\ test.checkWrite
       \/ ReadPhase(r) /\ Reads
       \/ EndPhase(r) /\ UNCHANGED errorFound
       \/ NoPhase(r)

\* A step that does not end the repetition is one of these.
LEMMA StepMoves ==
    ASSUME TypeInv, WholeTests, NEW r \in Ranks, PlaceInv(r), Step(r), at'[r] # "aborted", ~EndRepetition(r)
    PROVE  Moves(r)
<1>1. at \in [Ranks -> Places] /\ Ready(r) /\ rep' = rep
  BY DEF TypeInv, Step, Stamp, SkipWrite, StartWrite, Create, Write, Transferred, CloseWritten, CheckFileSize,
     ProcessIterResults, SkipCheckWrite, StartCheckWrite, OpenWriteCheck, WriteCheck, CloseChecked,
     SkipRead, StartRead, OpenRead, Read, CloseRead, Cleanup, Remove, At, private
<1> HIDE DEF Call
<1>2. ASSUME StartWrite(r) \/ Create(r) \/ Write(r) \/ Transferred(r, "written", "closeW") \/ CloseWritten(r)
             \/ CheckFileSize(r, "sizeW", "resultsW") \/ ProcessIterResults(r, "resultsW", "checkWrite")
      PROVE  WritePhase(r) /\ test.writeFile
  BY <1>1, <1>2 DEF StartWrite, Create, Write, Transferred, CloseWritten, CheckFileSize, Abort,
     ProcessIterResults, WritePhase, Goes, BarrierCall, CountCall, If, CallIf, At, GoTo, PlaceInv, WritePlaces
<1>3. ASSUME StartCheckWrite(r) \/ OpenWriteCheck(r) \/ WriteCheck(r) \/ CloseChecked(r)
      PROVE  CheckPhase(r) /\ test.checkWrite
  BY <1>1, <1>3 DEF StartCheckWrite, OpenWriteCheck, OpenForReading, Abort, WriteCheck, CloseChecked,
     CheckPhase, Goes, CallIf, Checks, At, GoTo, PlaceInv, CheckPlaces
<1>4. ASSUME StartRead(r) \/ OpenRead(r) \/ Read(r) \/ Transferred(r, "readDone", "closeR") \/ CloseRead(r)
             \/ CheckFileSize(r, "sizeR", "resultsR") \/ ProcessIterResults(r, "resultsR", "cleanup")
      PROVE  ReadPhase(r) /\ Reads
  BY <1>1, <1>4 DEF StartRead, OpenRead, OpenForReading, Read, Transferred, CloseRead, CheckFileSize, Abort,
     ProcessIterResults, ReadPhase, Goes, BarrierCall, CountCall, If, CallIf, At, GoTo, PlaceInv, ReadPlaces
<1>5. ASSUME Cleanup(r) \/ Remove(r) PROVE EndPhase(r) /\ UNCHANGED errorFound
  BY <1>1, <1>5 DEF Cleanup, Remove, EndPhase, Goes, At, GoTo, private
<1>6. ASSUME Stamp(r) \/ SkipWrite(r) \/ SkipCheckWrite(r) \/ SkipRead(r) PROVE NoPhase(r)
  <2>1. ~TimeElapsed(r, TRUE)
    BY DEF TimeElapsed, WholeTests
  <2> QED
    BY <1>1, <1>6, <2>1 DEF Stamp, SkipWrite, SkipCheckWrite, SkipRead, NoPhase, Goes, At, GoTo
<1> QED
  BY <1>1, <1>2, <1>3, <1>4, <1>5, <1>6 DEF Moves, Step

\* A step within a repetition makes the call that is due, if one is, and all that the
\* rank learns of the others is that they have made the call it was in.
LEMMA MoveCounts ==
    ASSUME TypeInv, UNCHANGED test, NEW r \in Ranks, PlaceInv(r), Moves(r)
    PROVE  /\ at[r] \notin {"repEnd", "done"} /\ at'[r] \in Places /\ at'[r] # "done"
           /\ \/ UNCHANGED calls /\ Made(r)' = Made(r) /\ ~Waits(at[r])'
              \/ \E op \in Collectives : /\ Call(r, op) /\ Made(r)' = Made(r) + 1
                                         /\ Waits(at[r])' => op \in Synchronizing
           /\ Known(r)' <= Known(r) \/ (Waits(at[r]) /\ Known(r)' <= Made(r))
<1> DEFINE Q == /\ at[r] \notin {"repEnd", "done"} /\ at'[r] \in Places /\ at'[r] # "done"
                /\ \/ UNCHANGED calls /\ Made(r)' = Made(r) /\ ~Waits(at[r])'
                   \/ \E op \in Collectives : /\ Call(r, op) /\ Made(r)' = Made(r) + 1
                                              /\ Waits(at[r])' => op \in Synchronizing
                /\ Known(r)' <= Known(r) \/ (Waits(at[r]) /\ Known(r)' <= Made(r))
<1>1. {"Barrier", "CountErrors", "Allreduce"} \subseteq Synchronizing
      /\ {"Bcast", "Reduce", "Barrier", "CountErrors", "Allreduce"} \subseteq Collectives
  BY DEF Synchronizing, Collectives
<1>2. test.intraTestBarriers' = test.intraTestBarriers
  OBVIOUS
<1> USE <1>1, <1>2, SizeType, SameSizes
    DEF Goes, BarrierCall, CountCall, If, Made, Known, Due, Met, Waits, Places, WritePlaces, CheckPlaces,
        ReadPlaces, EndPlaces
<1> HIDE DEF Call
<1>3. ASSUME WritePhase(r), test.writeFile PROVE Q
  BY <1>3 DEF WritePhase
<1>4. ASSUME CheckPhase(r), test.checkWrite PROVE Q
  BY <1>4 DEF CheckPhase, Checks
<1>5. ASSUME ReadPhase(r), Reads PROVE Q
  BY <1>5 DEF ReadPhase
<1>6. ASSUME EndPhase(r), UNCHANGED errorFound PROVE Q
  <2>1. Keep(r)' = Keep(r)
    BY <1>6 DEF Keep
  <2> QED
    BY <1>6, <2>1 DEF EndPhase, PlaceInv
<1>7. ASSUME NoPhase(r) PROVE Q
  BY <1>7 DEF NoPhase
<1> HIDE <1>1, <1>2, SizeType, SameSizes DEF Q, Goes
<1>8. Q
  BY <1>3, <1>4, <1>5, <1>6, <1>7 DEF Moves
<1> QED
  BY <1>8 DEF Q

\* The others have made what they had made.
LEMMA OthersKeep ==
    ASSUME UNCHANGED test, NEW r \in Ranks, Frame(r), NEW s \in Ranks \ {r}
    PROVE  /\ Made(s)' = Made(s) /\ Known(s)' = Known(s) /\ Count(s)' = Count(s) /\ Base(s)' = Base(s)
           /\ (Keep(s)' <=> Keep(s)) /\ (Waits(at[s])' <=> Waits(at[s]))
<1>1. at'[s] = at[s] /\ errorFound'[s] = errorFound[s] /\ calls'[s] = calls[s]
  BY DEF Frame
<1>2. Keep(s)' <=> Keep(s)
  BY <1>1 DEF Keep
<1>4. Made(s)' = Made(s) /\ Known(s)' = Known(s)
  BY <1>1, <1>2, SameSizes DEF Made, Known, Due, Met, Keep
<1>5. Count(s)' = Count(s)
  BY <1>1 DEF Count
<1>6. Waits(at[s])' <=> Waits(at[s])
  BY <1>1, SameSizes DEF Waits
<1> QED
  BY <1>2, <1>4, <1>5, <1>6 DEF Base

\* A step within a repetition keeps the calls of the ranks in step.
LEMMA MoveReps ==
    ASSUME TypeInv, TypeInv', UNCHANGED test, \A s \in Ranks : PlaceInv(s) /\ CallInv(s),
           \A s, t \in Ranks : RepInv(s, t), NEW r \in Ranks, Moves(r), Frame(r)
    PROVE  /\ \A s \in Ranks : CallInv(s)'
           /\ \A s, t \in Ranks : RepInv(s, t)'
<1>1. /\ at[r] \notin {"repEnd", "done"} /\ at'[r] # "done"
      /\ \/ UNCHANGED calls /\ Made(r)' = Made(r) /\ ~Waits(at[r])'
         \/ \E op \in Collectives : /\ Call(r, op) /\ Made(r)' = Made(r) + 1
                                    /\ Waits(at[r])' => op \in Synchronizing
      /\ Known(r)' <= Known(r) \/ (Waits(at[r]) /\ Known(r)' <= Made(r))
      /\ rep' = rep /\ Ready(r)
  BY MoveCounts DEF Moves
<1>2. \A s \in Ranks : /\ Made(s) \in Nat /\ Known(s) \in Nat /\ Known(s) <= Made(s) /\ Count(s) \in Nat
                       /\ Count(s) = Base(s) + Made(s)
  BY MadeType DEF Base
<1>3. /\ Made(r) <= Made(r)' /\ Made(r)' \in Nat /\ Base(r)' = Base(r) /\ Base(r) \in Nat
      /\ Waits(at[r])' => calls'[r][Count(r)'].op \in Synchronizing
  <2>1. Base(r) \in Nat
    BY <1>1 DEF CallInv
  <2>2. CASE UNCHANGED calls /\ Made(r)' = Made(r) /\ ~Waits(at[r])'
    <3>1. Count(r)' = Count(r)
      BY <2>2 DEF Count
    <3> QED
      BY <1>2, <2>1, <2>2, <3>1 DEF Base
  <2>3. ASSUME NEW op \in Collectives, Call(r, op)
        PROVE  Count(r)' = Count(r) + 1 /\ calls'[r][Count(r)'].op = op
    <3>1. calls \in CallsIn({0}) /\ Send(r, op, 0) /\ 0 \in {0}
      BY <2>3 DEF TypeInv, Call
    <3> HIDE DEF Send
    <3>2. Count(r)' = Count(r) + 1 /\ calls'[r][Count(r) + 1] = [op |-> op, value |-> 0]
      BY <3>1, SendStep
    <3> QED
      BY <3>2
  <2>4. CASE \E op \in Collectives : /\ Call(r, op) /\ Made(r)' = Made(r) + 1
                                     /\ Waits(at[r])' => op \in Synchronizing
    <3>1. PICK op \in Collectives : /\ Call(r, op) /\ Made(r)' = Made(r) + 1
                                    /\ Waits(at[r])' => op \in Synchronizing
      BY <2>4
    <3>0. Call(r, op)
      BY <3>1
    <3>2. Count(r)' = Count(r) + 1 /\ calls'[r][Count(r)'].op = op
      BY <2>3, <3>0
    <3>7. Waits(at[r])' => op \in Synchronizing
      BY <3>1
    <3>3. Waits(at[r])' => calls'[r][Count(r)'].op \in Synchronizing
      BY <3>2, <3>7, ZenonT(20)
    <3>4. Base(r)' = Count(r)' - Made(r)' /\ Base(r) = Count(r) - Made(r)
      BY DEF Base
    <3>5. /\ Count(r)' = Count(r) + 1 /\ Made(r)' = Made(r) + 1
          /\ Count(r) \in Nat /\ Made(r) \in Nat
      <4>1. Made(r)' = Made(r) + 1
        BY <3>1
      <4> QED
        BY <1>2, <3>2, <4>1
    <3>6. Made(r) <= Made(r)' /\ Made(r)' \in Nat /\ Base(r)' = Base(r)
      <4> DEFINE c == Count(r)  m == Made(r)  d == Count(r)'  k == Made(r)'
      <4>1. d = c + 1 /\ k = m + 1 /\ c \in Nat /\ m \in Nat
        BY <3>5
      <4>2. Base(r)' = d - k /\ Base(r) = c - m
        BY <3>4
      <4>3. m <= k /\ k \in Nat /\ d - k = c - m
        <5> HIDE DEF c, m, d, k
        <5> QED
          BY <4>1
      <4>4. Base(r)' = Base(r)
        BY <4>2, <4>3
      <4> QED
        BY <4>3, <4>4
    <3> QED
      BY <2>1, <3>3, <3>6
  <2> QED
    BY <1>1, <2>2, <2>4
<1>4. \A s \in Ranks \ {r} : /\ Made(s)' = Made(s) /\ Known(s)' = Known(s) /\ Count(s)' = Count(s)
                             /\ Base(s)' = Base(s) /\ (Waits(at[s])' <=> Waits(at[s]))
                             /\ at'[s] = at[s] /\ calls'[s] = calls[s]
  BY OthersKeep DEF Frame
<1>5. ASSUME NEW s \in Ranks PROVE CallInv(s)'
  BY <1>3, <1>4 DEF CallInv
<1>6. Known(r)' \in Nat
  <2>1. at'[r] \in Places
    BY DEF TypeInv
  <2>2. MetBeforeRead \in Nat /\ MetBeforeEnd \in Nat
    BY SizeType
  <2>3. /\ Written - 1 \in Nat /\ Written + 1 \in Nat /\ WasRead + 1 \in Nat /\ Checked \in Nat
        /\ Barriers \in Nat /\ Counting \in Nat
    BY SizeType
  <2> QED
    BY <2>1, <2>2, <2>3, SameSizes DEF Known, Met, Places, WritePlaces, CheckPlaces, ReadPlaces, EndPlaces
\* What r learns of the others.
<1>7. ASSUME NEW s \in Ranks \ {r}
      PROVE  RepInv(r, s)' /\ RepInv(s, r)'
  <2>2. at[s] # "done" /\ at'[s] # "done" /\ rep[s] \in Nat /\ rep[r] \in Nat
    BY <1>1, <1>4, TestType DEF RepInv, TypeInv
  <2>3. Known(r)' > 0 /\ ~(Known(r)' <= Known(r)) => rep[s] = rep[r] /\ Known(r)' <= Made(s)
    <3>1. ASSUME Known(r)' > 0, ~(Known(r)' <= Known(r)) PROVE rep[s] = rep[r] /\ Known(r)' <= Made(s)
      <4>1. Waits(at[r]) /\ Known(r)' <= Made(r) /\ Known(r)' \in Nat \ {0}
        BY <1>1, <1>6, <3>1
      <4>2. \A n \in Nat \ {0} : n <= Made(r) => rep[s] = rep[r] /\ n <= Made(s)
        BY <1>1, <4>1, AllThere
      <4> QED
        BY <4>1, <4>2
    <3> QED
      BY <3>1
  <2>4. CASE rep[r] = rep[s]
    <3>1. Base(r) = Base(s) /\ Known(r) <= Made(s) /\ Known(s) <= Made(r)
      BY <1>1, <2>2, <2>4 DEF RepInv
    <3>2. Known(r)' <= Made(s)
      BY <1>2, <1>6, <2>3, <3>1
    <3>3. Known(s) <= Made(r)'
      BY <1>2, <1>3, <3>1
    <3>4. Base(r)' = Base(s)' /\ Known(r)' <= Made(s)' /\ Known(s)' <= Made(r)' /\ rep'[r] = rep'[s]
      BY <1>1, <1>3, <1>4, <2>4, <3>1, <3>2, <3>3
    <3> QED
      BY <1>1, <2>2, <3>4 DEF RepInv
  <2>5. CASE rep[s] < rep[r]
    <3>1. rep[r] = rep[s] + 1 /\ at[s] = "repEnd" /\ Base(r) = Count(s) /\ Known(r) = 0
      BY <1>1, <2>2, <2>5 DEF RepInv
    <3>2. Known(r)' = 0
      BY <1>6, <2>2, <2>3, <2>5, <3>1
    <3>3. rep'[s] < rep'[r] /\ rep'[r] = rep'[s] + 1 /\ at'[s] = "repEnd" /\ Base(r)' = Count(s)' /\ Known(r)' = 0
      BY <1>1, <1>3, <1>4, <2>5, <3>1, <3>2
    <3> QED
      BY <1>1, <2>2, <3>3 DEF RepInv
  <2>6. CASE rep[r] < rep[s]
    BY <1>1, <2>2, <2>6 DEF RepInv
  <2> QED
    BY <2>2, <2>4, <2>5, <2>6
<1>8. RepInv(r, r)'
  <2>1. Base(r)' = Base(r)' /\ Known(r)' <= Made(r)' /\ rep'[r] \in Nat
    <3>1. Known(r)' <= Made(r)
      BY <1>1, <1>2, <1>6
    <3> QED
      BY <1>1, <1>2, <1>3, <1>6, <3>1, TestType DEF TypeInv
  <2> QED
    BY <1>1, <2>1 DEF RepInv
<1>9. ASSUME NEW s \in Ranks \ {r}, NEW t \in Ranks \ {r} PROVE RepInv(s, t)'
  BY <1>1, <1>4 DEF RepInv
<1> QED
  BY <1>5, <1>7, <1>8, <1>9

----------------------------------------------------------------------------
(* What the ranks know of errors.                                          *)

Checkers == {"writing", "checking", "reading"}
Learners == {"written", "closeC", "readDone"}

\* Only a check changes what a rank has found, and only the result of a check what it
\* knows of.
LEMMA StepErrors ==
    ASSUME TypeInv, NEW r \in Ranks, Step(r), at'[r] # "aborted", ~EndRepetition(r)
    PROVE  /\ at[r] \notin Checkers => errors' = errors
           /\ at[r] \in Checkers /\ errors'[r]
                => at[r] \in {"checking", "reading"} /\ Mismatch(r)
           /\ at[r] \notin Learners => errorFound' = errorFound
           /\ at[r] \in Learners => errorFound'[r] = (errorFound[r] \/ (Checks /\ ErrorSeen))
           /\ corruptions' = corruptions \/ corruptions' = corruptions + 1
           /\ corruptions' # corruptions => at[r] = "writing"
<1> USE DEF TypeInv, Checkers, Learners, At, private, files, ErrorSeen
<1>1. CASE Stamp(r) \/ SkipWrite(r) \/ Create(r) \/ CloseWritten(r)
           \/ CheckFileSize(r, "sizeW", "resultsW") \/ ProcessIterResults(r, "resultsW", "checkWrite")
  BY <1>1 DEF Stamp, SkipWrite, Create, CloseWritten, CheckFileSize, ProcessIterResults
<1>2. CASE StartWrite(r)
  BY <1>2, RemoveType DEF StartWrite, RemoveFile, Unlink
<1>3. CASE Write(r)
  BY <1>3 DEF Write
<1>4. CASE Transferred(r, "written", "closeW") \/ Transferred(r, "readDone", "closeR") \/ CloseChecked(r)
  BY <1>4 DEF Transferred, CloseChecked, CountErrors
<1>5. CASE SkipCheckWrite(r) \/ StartCheckWrite(r) \/ OpenWriteCheck(r) \/ SkipRead(r) \/ StartRead(r)
           \/ OpenRead(r)
  BY <1>5 DEF SkipCheckWrite, StartCheckWrite, OpenWriteCheck, OpenForReading, SkipRead, StartRead, OpenRead
<1>6. CASE WriteCheck(r) \/ Read(r)
  BY <1>6 DEF WriteCheck, Read
<1>7. CASE CloseRead(r) \/ CheckFileSize(r, "sizeR", "resultsR")
           \/ ProcessIterResults(r, "resultsR", "cleanup") \/ Cleanup(r)
  BY <1>7 DEF CloseRead, CheckFileSize, ProcessIterResults, Cleanup
<1>8. CASE Remove(r)
  BY <1>8, RemoveType DEF Remove, RemoveFile, Unlink
<1> HIDE DEF Checkers, Learners, ErrorSeen, At, private, files, TypeInv
<1> QED
  BY <1>1, <1>2, <1>3, <1>4, <1>5, <1>6, <1>7, <1>8 DEF Step

\* The results of a check come one by one.
LEMMA MoveResults ==
    ASSUME TypeInv, UNCHANGED test, NEW r \in Ranks, PlaceInv(r), Moves(r)
    PROVE  Results(r)' = IF at[r] \in Learners THEN Results(r) + 1 ELSE Results(r)
<1> USE DEF Goes, Results, Learners, CheckPlaces, Optional, PlaceInv
<1> HIDE DEF Call
<1>0. test' = test /\ (Reads' <=> Reads)
  BY SameSizes
<1> USE <1>0
<1>1. ASSUME WritePhase(r), test.writeFile PROVE Results(r)' = IF at[r] \in Learners THEN Results(r) + 1 ELSE Results(r)
  BY <1>1 DEF WritePhase
<1>2. ASSUME CheckPhase(r), test.checkWrite PROVE Results(r)' = IF at[r] \in Learners THEN Results(r) + 1 ELSE Results(r)
  BY <1>2 DEF CheckPhase
<1>3. ASSUME ReadPhase(r), Reads PROVE Results(r)' = IF at[r] \in Learners THEN Results(r) + 1 ELSE Results(r)
  BY <1>3 DEF ReadPhase
<1>4. ASSUME EndPhase(r) PROVE Results(r)' = IF at[r] \in Learners THEN Results(r) + 1 ELSE Results(r)
  BY <1>4 DEF EndPhase
<1>5. ASSUME NoPhase(r) PROVE Results(r)' = IF at[r] \in Learners THEN Results(r) + 1 ELSE Results(r)
  BY <1>5 DEF NoPhase
<1> QED
  BY <1>1, <1>2, <1>3, <1>4, <1>5 DEF Moves

\* Who gets the result of a check finds no rank with fewer results, and with as many only
\* ranks that get this one.
LEMMA AllHaveChecked ==
    ASSUME TypeInv, \A s \in Ranks : PlaceInv(s) /\ CallInv(s), \A s, t \in Ranks : RepInv(s, t),
           NEW r \in Ranks, at[r] \in Learners, Ready(r), Checks
    PROVE  \A s \in Ranks : /\ at[s] # "done" /\ rep[s] = rep[r] /\ Results(s) >= Results(r)
                            /\ Results(s) = Results(r) => at[s] = at[r]
<1> SUFFICES ASSUME NEW s \in Ranks
             PROVE  /\ at[s] # "done" /\ rep[s] = rep[r] /\ Results(s) >= Results(r)
                    /\ Results(s) = Results(r) => at[s] = at[r]
  OBVIOUS
<1>1. Made(r) \in Nat \ {0} /\ Waits(at[r]) /\ at[r] \notin {"repEnd", "done"}
  BY SizeType DEF Made, Due, Waits, Learners
<1>2. at[s] # "done" /\ rep[s] = rep[r] /\ Made(r) <= Made(s)
  BY <1>1, AllThere
<1>3. at[s] \in Places /\ PlaceInv(s) /\ PlaceInv(r)
  BY DEF TypeInv
<1> USE SizeType DEF PlaceInv, WritePlaces, CheckPlaces, ReadPlaces, Results, Optional, Made, Due
<1>4. CASE at[r] = "written"
  BY <1>2, <1>3, <1>4 DEF Places, EndPlaces
<1>5. CASE at[r] = "closeC"
  BY <1>2, <1>3, <1>5 DEF Places, EndPlaces
<1>6. CASE at[r] = "readDone"
  BY <1>2, <1>3, <1>6 DEF Places, EndPlaces
<1> QED
  BY <1>2, <1>4, <1>5, <1>6 DEF Learners

\* While a rank checks, no rank has still to get the result of the last check.
LEMMA NobodyLearns ==
    ASSUME TypeInv, \A s \in Ranks : PlaceInv(s) /\ CallInv(s), \A s, t \in Ranks : RepInv(s, t),
           NEW r \in Ranks, at[r] \in Checkers, Checks,
           NEW s \in Ranks, NEW t \in Ranks, at[s] \in Learners, at[t] # "done", rep[s] = rep[t],
           Results(s) < Results(t)
    PROVE  FALSE
<1>1. at[r] \in Places /\ at[t] \in Places /\ PlaceInv(r) /\ PlaceInv(s) /\ PlaceInv(t)
  BY DEF TypeInv
<1>2. Known(s) \in Nat \ {0} /\ at[s] \notin {"repEnd", "done"}
  BY SizeType DEF Learners, Known, Met
<1>3. at[r] # "done" /\ rep[r] = rep[s]
  BY <1>2, AllThere
<1>4. Known(t) <= Made(r) /\ Known(s) <= Made(r) /\ Known(r) <= Made(s)
  BY <1>2, <1>3 DEF RepInv
<1>5. Made(s) < Known(t) \/ Known(t) > Made(r) \/ Known(s) > Made(r) \/ Known(r) > Made(s)
  <2> USE SizeType DEF PlaceInv, WritePlaces, CheckPlaces, ReadPlaces, Results, Optional, Made, Due, Known, Met,
          Checkers
  <2>1. CASE at[s] = "written"
    BY <1>1, <2>1 DEF Places, EndPlaces
  <2>2. CASE at[s] = "closeC"
    BY <1>1, <2>2 DEF Places, EndPlaces
  <2>3. CASE at[s] = "readDone"
    BY <1>1, <2>3 DEF Places, EndPlaces
  <2> QED
    BY <2>1, <2>2, <2>3 DEF Learners
<1>6. Known(t) <= Made(s)
  BY <1>2 DEF RepInv
<1>7. Known(t) \in Nat /\ Made(r) \in Nat /\ Known(s) \in Nat /\ Known(r) \in Nat /\ Made(s) \in Nat
  BY MadeType
<1> QED
  BY <1>4, <1>5, <1>6, <1>7

\* A check finds errors only if the file system made them.
LEMMA MismatchIsReal ==
    ASSUME TypeInv, WholeTests, \A s \in Ranks : RankInv(s), \A s, t \in Ranks : RepInv(s, t),
           NEW r \in Ranks, at[r] \in {"checking", "reading"}, Mismatch(r)
    PROVE  corruptions > 0
<1>1. rankOffset[r] \in Nat /\ corruptions \in Nat
  BY DEF TypeInv
<1>2. Pretend(r, rankOffset[r]) \in Ranks
  BY <1>1, PretendType
<1>3. corruptions = 0 => block[Pretend(r, rankOffset[r])] = Signature(r)
  BY <1>2, AllFilesThere DEF CheckPlaces, ReadPlaces
<1> QED
  BY <1>1, <1>3 DEF Mismatch

\* A step within a repetition: the ranks agree on what they know.
LEMMA MoveErrors ==
    ASSUME TypeInv, TypeInv', WholeTests, UNCHANGED test, \A s \in Ranks : RankInv(s),
           \A s, t \in Ranks : RepInv(s, t) /\ AgreeInv(s, t),
           NEW r \in Ranks, Step(r), at'[r] # "aborted", ~EndRepetition(r), Moves(r), Frame(r)
    PROVE  /\ \A s \in Ranks : ErrorInv(s)'
           /\ \A s, t \in Ranks : AgreeInv(s, t)'
<1>0. \A s \in Ranks : PlaceInv(s) /\ CallInv(s) /\ ErrorInv(s)
  BY DEF RankInv
<1>1. /\ at[r] \notin Checkers => errors' = errors
      /\ at[r] \in Checkers => (errors'[r] => at[r] \in {"checking", "reading"} /\ Mismatch(r))
      /\ at[r] \notin Learners => errorFound' = errorFound
      /\ at[r] \in Learners => errorFound'[r] = (errorFound[r] \/ (Checks /\ ErrorSeen))
      /\ corruptions \in Nat /\ corruptions' \in Nat /\ corruptions' >= corruptions
  <2>1. corruptions \in Nat /\ (corruptions' = corruptions \/ corruptions' = corruptions + 1)
    BY StepErrors DEF TypeInv
  <2> QED
    BY <2>1, StepErrors
<1>2. /\ at[r] \notin {"repEnd", "done"} /\ at'[r] # "done"
      /\ Results(r)' = (IF at[r] \in Learners THEN Results(r) + 1 ELSE Results(r))
      /\ (Checks' <=> Checks) /\ rep' = rep
  BY <1>0, MoveCounts, MoveResults, SameSizes DEF Moves
<1>3. \A s \in Ranks : Results(s) \in Nat
  BY DEF Results, Optional
<1>4. \A s \in Ranks \ {r} : /\ at'[s] = at[s] /\ Results(s)' = Results(s)
                             /\ errors'[s] = errors[s] /\ errorFound'[s] = errorFound[s]
  <2>1. Reads' <=> Reads
    BY SameSizes
  <2> QED
    BY <2>1 DEF Frame, Results
<1>5. ASSUME NEW s \in Ranks PROVE ErrorInv(s)'
  <2>1. errors'[s] => corruptions' > 0
    <3>1. CASE s = r /\ at[r] \in Checkers
      <4>1. errors'[r] => corruptions > 0
        BY <1>1, <3>1, MismatchIsReal
      <4> QED
        BY <1>1, <3>1, <4>1
    <3>2. CASE ~(s = r /\ at[r] \in Checkers)
      <4>1. errors'[s] = errors[s]
        BY <1>1, <1>4, <3>2
      <4>2. errors[s] => corruptions > 0
        BY <1>0 DEF ErrorInv
      <4> QED
        BY <1>1, <4>1, <4>2
    <3> QED
      BY <3>1, <3>2
  <2>2. (~Checks \/ Results(s)' = 0 \/ at'[s] = "done") => ~errorFound'[s]
    <3>1. CASE s = r /\ at[r] \in Learners
      <4>1. Results(r)' # 0 /\ at'[r] # "done"
        BY <1>2, <1>3, <3>1
      <4>2. ~Checks => ~errorFound[r]
        BY <1>0 DEF ErrorInv
      <4>3. ~Checks => ~errorFound'[r]
        BY <1>1, <3>1, <4>2
      <4> QED
        BY <3>1, <4>1, <4>3
    <3>2. CASE ~(s = r /\ at[r] \in Learners)
      <4>1. Results(s)' = Results(s) /\ errorFound'[s] = errorFound[s] /\ (at'[s] = "done" => at[s] = "done")
        BY <1>1, <1>2, <1>4, <3>2
      <4>2. (~Checks \/ Results(s) = 0 \/ at[s] = "done") => ~errorFound[s]
        BY <1>0 DEF ErrorInv
      <4> QED
        BY <4>1, <4>2
    <3> QED
      BY <3>1, <3>2
  <2> QED
    BY <1>2, <2>1, <2>2 DEF ErrorInv
<1>6. ASSUME NEW s \in Ranks, NEW t \in Ranks, Checks, at'[s] # "done", at'[t] # "done", rep[s] = rep[t]
      PROVE  /\ Results(s)' = Results(t)' => errorFound'[s] = errorFound'[t]
             /\ Results(s)' < Results(t)' => /\ at'[s] \in Learners /\ Results(t)' = Results(s)' + 1
                                             /\ errorFound'[t] = (errorFound'[s] \/ ErrorSeen')
  <2>0. at[s] # "done" /\ at[t] # "done"
    BY <1>2, <1>4, <1>6
  <2>1. /\ Results(s) = Results(t) => errorFound[s] = errorFound[t]
        /\ Results(s) < Results(t) => /\ at[s] \in Learners /\ Results(t) = Results(s) + 1
                                      /\ errorFound[t] = (errorFound[s] \/ ErrorSeen)
        /\ Results(t) < Results(s) => at[t] \in Learners
    BY <1>6, <2>0 DEF AgreeInv, Learners
  <2>2. CASE at[r] \in Learners
    <3>1. /\ errors' = errors /\ errorFound'[r] = (errorFound[r] \/ ErrorSeen)
          /\ Results(r)' = Results(r) + 1 /\ (ErrorSeen' <=> ErrorSeen)
      BY <1>1, <1>2, <1>6, <2>2 DEF Learners, Checkers, ErrorSeen
    <3>2. \A q \in Ranks : Results(q) >= Results(r) /\ (Results(q) = Results(r) => at[q] = at[r])
      BY <1>0, <1>6, <2>2, AllHaveChecked DEF Moves
    <3>3. CASE s = r /\ t = r
      BY <1>3, <3>1, <3>3
    <3>4. CASE s = r /\ t # r
      <4>1. Results(t)' = Results(t) /\ errorFound'[t] = errorFound[t] /\ Results(t) >= Results(r)
        BY <1>4, <3>2, <3>4
      <4>2. Results(r) \in Nat /\ Results(t) \in Nat /\ (Results(r) < Results(t) => Results(t) = Results(r) + 1)
        BY <1>3, <2>1, <3>4
      <4>3. ~(Results(r)' < Results(t)')
        BY <3>1, <4>1, <4>2
      <4>4. Results(r)' = Results(t)' => Results(r) < Results(t)
        BY <3>1, <4>1, <4>2
      <4> QED
        BY <2>1, <3>1, <3>4, <4>1, <4>3, <4>4
    <3>5. CASE s # r /\ t = r
      <4>1. Results(s)' = Results(s) /\ errorFound'[s] = errorFound[s] /\ Results(s) >= Results(r) /\ at'[s] = at[s]
        BY <1>4, <3>2, <3>5
      <4>2. Results(r) \in Nat /\ Results(s) \in Nat
        BY <1>3
      <4>3. CASE Results(s) = Results(r)
        <5>1. at[s] = at[r] /\ errorFound[s] = errorFound[r]
          BY <2>1, <3>2, <3>5, <4>3
        <5>2. Results(s)' # Results(r)' /\ Results(r)' = Results(s)' + 1
          BY <3>1, <4>1, <4>2, <4>3
        <5> QED
          BY <2>2, <3>1, <3>5, <4>1, <5>1, <5>2
      <4>4. CASE Results(s) > Results(r)
        <5>1. Results(s) = Results(r) + 1 /\ errorFound[s] = (errorFound[r] \/ ErrorSeen)
          BY <1>2, <1>3, <1>6, <2>0, <3>5, <4>4 DEF AgreeInv
        <5>2. Results(s)' = Results(r)'
          BY <3>1, <4>1, <5>1
        <5> QED
          BY <1>2, <3>1, <3>5, <4>1, <4>2, <5>1, <5>2
      <4> QED
        BY <4>1, <4>2, <4>3, <4>4
    <3>6. CASE s # r /\ t # r
      BY <1>4, <2>1, <3>1, <3>6
    <3> QED
      BY <3>3, <3>4, <3>5, <3>6
  <2>3. CASE at[r] \notin Learners
    <3>1. errorFound' = errorFound /\ Results(s)' = Results(s) /\ Results(t)' = Results(t)
      BY <1>1, <1>2, <1>4, <2>3
    <3>2. at[r] \notin Checkers => errors' = errors /\ (ErrorSeen' <=> ErrorSeen)
      BY <1>1 DEF ErrorSeen
    <3>3. ASSUME Results(s) < Results(t)
          PROVE  at'[s] \in Learners /\ (ErrorSeen' <=> ErrorSeen)
      <4>1. at[s] \in Learners
        BY <2>1, <3>3
      <4>2. at[r] \notin Checkers
        BY <1>0, <1>6, <2>0, <3>3, <4>1, NobodyLearns
      <4> QED
        BY <1>4, <2>3, <3>2, <4>1, <4>2
    <3> QED
      BY <2>1, <3>1, <3>3
  <2> QED
    BY <2>2, <2>3
<1>7. ASSUME NEW s \in Ranks, NEW t \in Ranks PROVE AgreeInv(s, t)'
  BY <1>2, <1>6 DEF AgreeInv, Learners
<1> QED
  BY <1>5, <1>7

----------------------------------------------------------------------------
(* Where the ranks are, and with which file.                               *)

\* Without an offset a rank is itself.
LEMMA PretendSelf ==
    ASSUME NEW r \in Ranks
    PROVE  Pretend(r, 0) = r
<1>1. r \in 0..(N - 1) /\ N \in Nat \ {0} /\ r + 0 = r
  BY MpiAssumption DEF Ranks
<1>2. r % N = r
  BY <1>1
<1> QED
  BY <1>1, <1>2 DEF Pretend

\* The orders and names of a run stay.
LEMMA SameNames ==
    ASSUME UNCHANGED test, NEW r \in Ranks
    PROVE  /\ CheckTurn' = CheckTurn /\ ReadTurn' = ReadTurn /\ (InTurn' <=> InTurn)
           /\ FileOf(r)' = FileOf(r) /\ TestFile(r)' = FileOf(Pretend(r, rankOffset'[r]))
           /\ FileOf(Pretend(r, CheckTurn))' = FileOf(Pretend(r, CheckTurn))
           /\ FileOf(Pretend(r, ReadTurn))' = FileOf(Pretend(r, ReadTurn))
           /\ (Keep(r)' <=> test.keepFile \/ (errorFound'[r] /\ test.keepFileWithError))
BY DEF CheckTurn, ReadTurn, InTurn, FileOf, TestFile, Pretend, Keep

\* A rank is only at the places of its test, with a file open only where it uses one.
LEMMA StepPlace ==
    ASSUME TypeInv, TypeInv', WholeTests, UNCHANGED test, NEW r \in Ranks, PlaceInv(r), Step(r),
           at'[r] # "aborted"
    PROVE  PlaceInv(r)'
<1>0. /\ at' \in [Ranks -> Places] /\ at \in [Ranks -> Places] /\ opened \in [Ranks -> {"no", "w", "r"}]
      /\ rep[r] \in 1..Repetitions /\ Repetitions \in Nat
      /\ test' = test /\ (Reads' <=> Reads) /\ (Checks' <=> Checks)
  BY SameSizes, TestType DEF TypeInv
<1>1. CASE ~EndRepetition(r)
  <2>1. Moves(r)
    BY <1>1, StepMoves
  <2>2. /\ at'[r] \in WritePlaces => test.writeFile
        /\ at'[r] \in CheckPlaces => test.checkWrite
        /\ at'[r] \in ReadPlaces => Reads
        /\ at'[r] # "done"
    BY <2>1 DEF Moves, WritePhase, CheckPhase, ReadPhase, EndPhase, NoPhase, Goes, WritePlaces, CheckPlaces,
       ReadPlaces
  <2>3. at'[r] = "remove" => ~Keep(r)'
    <3>1. at'[r] = "remove" => UNCHANGED errorFound /\ ~Keep(r)
      BY <2>1 DEF Moves, WritePhase, CheckPhase, ReadPhase, EndPhase, NoPhase, Goes
    <3> QED
      BY <3>1 DEF Keep
  <2>4. opened'[r] # "no" => at'[r] \in OpenPlaces
    <3> USE <1>0 DEF OpenPlaces, PlaceInv, At, GoTo, private, files
    <3>1. CASE Stamp(r) \/ SkipWrite(r) \/ Create(r) \/ Write(r) \/ CloseWritten(r)
               \/ CheckFileSize(r, "sizeW", "resultsW") \/ ProcessIterResults(r, "resultsW", "checkWrite")
      BY <3>1 DEF Stamp, SkipWrite, Create, Write, CloseWritten, CheckFileSize, ProcessIterResults
    <3>2. CASE Transferred(r, "written", "closeW") \/ Transferred(r, "readDone", "closeR") \/ CloseChecked(r)
               \/ WriteCheck(r) \/ Read(r) \/ SkipCheckWrite(r) \/ StartCheckWrite(r)
      BY <3>2 DEF Transferred, CloseChecked, WriteCheck, Read, SkipCheckWrite, StartCheckWrite
    <3>3. CASE OpenWriteCheck(r) \/ SkipRead(r) \/ StartRead(r) \/ OpenRead(r)
      BY <3>3 DEF OpenWriteCheck, OpenForReading, SkipRead, StartRead, OpenRead, Abort
    <3>4. CASE CloseRead(r) \/ CheckFileSize(r, "sizeR", "resultsR")
               \/ ProcessIterResults(r, "resultsR", "cleanup") \/ Cleanup(r)
      BY <3>4 DEF CloseRead, CheckFileSize, ProcessIterResults, Cleanup
    <3>5. CASE StartWrite(r) \/ Remove(r)
      BY <3>5 DEF StartWrite, Remove, RemoveFile, Unlink
    <3> HIDE DEF OpenPlaces, PlaceInv, At, GoTo, private, files
    <3> QED
      BY <1>1, <3>1, <3>2, <3>3, <3>4, <3>5 DEF Step
  <2> QED
    BY <1>0, <2>2, <2>3, <2>4 DEF PlaceInv
<1>2. CASE EndRepetition(r)
  <2>1. /\ at[r] = "repEnd" /\ opened' = opened
        /\ IF rep[r] < Repetitions THEN at'[r] = "stamp" ELSE at'[r] = "done" /\ rep' = rep
    BY <1>0, <1>2 DEF EndRepetition, At, GoTo, files
  <2> QED
    BY <1>0, <2>1 DEF PlaceInv, WritePlaces, CheckPlaces, ReadPlaces, OpenPlaces
<1> QED
  BY <1>1, <1>2

\* A rank has the file that its offset leads to.
LEMMA StepTarget ==
    ASSUME TypeInv, TypeInv', WholeTests, UNCHANGED test, NEW r \in Ranks, PlaceInv(r), TargetInv(r),
           Step(r), at'[r] # "aborted"
    PROVE  TargetInv(r)'
<1>0. /\ at' \in [Ranks -> Places] /\ at \in [Ranks -> Places]
      /\ rankOffset \in [Ranks -> Nat] /\ target \in [Ranks -> Files]
      /\ test' = test /\ (Reads' <=> Reads)
      /\ CheckTurn' = CheckTurn /\ ReadTurn' = ReadTurn /\ (InTurn' <=> InTurn)
      /\ FileOf(r)' = FileOf(r) /\ TestFile(r)' = FileOf(Pretend(r, rankOffset'[r]))
      /\ FileOf(Pretend(r, CheckTurn))' = FileOf(Pretend(r, CheckTurn))
      /\ FileOf(Pretend(r, ReadTurn))' = FileOf(Pretend(r, ReadTurn))
      /\ TestFile(r) = FileOf(Pretend(r, rankOffset[r])) /\ Pretend(r, 0) = r
  BY SameSizes, SameNames, PretendSelf DEF TypeInv, TestFile
<1> USE <1>0 DEF TargetInv, At, GoTo, private, files, EndPlaces, WritePlaces, CheckPlaces, ReadPlaces
<1>1. CASE Stamp(r) \/ SkipWrite(r) \/ Create(r) \/ Write(r) \/ CloseWritten(r)
  BY <1>1 DEF Stamp, SkipWrite, Create, Write, CloseWritten
<1>2. CASE StartWrite(r)
  BY <1>2 DEF StartWrite
<1>3. CASE \/ CheckFileSize(r, "sizeW", "resultsW") \/ ProcessIterResults(r, "resultsW", "checkWrite")
           \/ Transferred(r, "written", "closeW")
  BY <1>3 DEF CheckFileSize, Abort, ProcessIterResults, Transferred, PlaceInv
<1>4. CASE SkipCheckWrite(r) \/ StartCheckWrite(r)
  <2>1. ~TimeElapsed(r, TRUE)
    BY DEF TimeElapsed, WholeTests
  <2> QED
    BY <1>4, <2>1 DEF SkipCheckWrite, StartCheckWrite
<1>5. CASE OpenWriteCheck(r)
  BY <1>5 DEF OpenWriteCheck, OpenForReading, Abort, CheckTurn, PlaceInv
<1>6. CASE WriteCheck(r) \/ CloseChecked(r)
  BY <1>6 DEF WriteCheck, CloseChecked, PlaceInv
<1>7. CASE SkipRead(r)
  <2>1. ~Reads
    BY <1>7 DEF SkipRead, TimeElapsed, WholeTests
  <2> QED
    BY <1>7, <2>1 DEF SkipRead
<1>8. CASE StartRead(r)
  <2>1. test.reorder \in {"none", "constant", "random", "shuffle"}
    BY TestType DEF Parameters
  <2> QED
    BY <1>8, <2>1 DEF StartRead, ReadOffsets, ReadTurn, InTurn
<1>9. CASE OpenRead(r) \/ Read(r) \/ CloseRead(r) \/ Transferred(r, "readDone", "closeR")
  BY <1>9 DEF OpenRead, OpenForReading, Abort, Read, CloseRead, Transferred
<1>10. CASE CheckFileSize(r, "sizeR", "resultsR") \/ ProcessIterResults(r, "resultsR", "cleanup")
  BY <1>10 DEF CheckFileSize, Abort, ProcessIterResults, PlaceInv
<1>11. CASE Cleanup(r) \/ Remove(r)
  BY <1>11 DEF Cleanup, Remove
<1>12. CASE EndRepetition(r)
  BY <1>12 DEF EndRepetition
<1> HIDE DEF TargetInv, At, GoTo, private, files, EndPlaces, WritePlaces, CheckPlaces, ReadPlaces
<1> QED
  BY <1>1, <1>2, <1>3, <1>4, <1>5, <1>6, <1>7, <1>8, <1>9, <1>10, <1>11, <1>12 DEF Step

----------------------------------------------------------------------------
(* What there is of the files.                                             *)

\* Only these steps change the files.
LEMMA StepFiles ==
    ASSUME NEW r \in Ranks, Step(r), ~StartWrite(r), ~Create(r), ~Write(r), ~Remove(r)
    PROVE  UNCHANGED <<exists, block>>
BY DEF Step, Stamp, SkipWrite, Transferred, CloseWritten, CheckFileSize, ProcessIterResults, SkipCheckWrite,
   StartCheckWrite, OpenWriteCheck, OpenForReading, WriteCheck, CloseChecked, SkipRead, StartRead, OpenRead, Read,
   CloseRead, Cleanup, EndRepetition, files

\* What a rank removes at the start of the write phase is the file that it creates.
LEMMA StartWriteRemoves ==
    ASSUME TypeInv, NEW r \in Ranks, TargetInv(r), StartWrite(r)
    PROVE  /\ at[r] = "write" /\ test.writeFile /\ at'[r] = "create"
           /\ exists' \subseteq exists
           /\ \A p \in Ranks : block'[p] = block[p] \/ block'[p] = Nothing
           /\ \A p \in Ranks : test.filePerProc /\ p # r =>
                /\ FileOf(p) \in exists => FileOf(p) \in exists'
                /\ block'[p] = block[p]
<1>1. at[r] = "write" /\ test.writeFile /\ at'[r] = "create" /\ TestFile(r) = FileOf(r)
  <2>1. rankOffset[r] = 0 /\ at[r] = "write"
    BY DEF TargetInv, StartWrite, At
  <2>2. TestFile(r) = FileOf(r)
    BY <2>1, PretendSelf DEF TestFile
  <2> QED
    BY <2>1, <2>2 DEF StartWrite, GoTo, TypeInv
<1>2. UNCHANGED files \/ RemoveFile(r, FileOf(r))
  BY <1>1 DEF StartWrite
<1>3. CASE UNCHANGED files
  BY <1>1, <1>3 DEF files
<1>4. CASE RemoveFile(r, FileOf(r))
  BY <1>1, <1>4 DEF RemoveFile, Unlink, FileOf
<1> QED
  BY <1>1, <1>2, <1>3, <1>4

\* A rank removes one file in the end.
LEMMA RemoveRemoves ==
    ASSUME TypeInv, NEW r \in Ranks, PlaceInv(r), Remove(r)
    PROVE  /\ at[r] = "remove" /\ Ready(r) /\ at'[r] = "repEnd" /\ ~Keep(r) /\ exists' \subseteq exists
           /\ UNCHANGED <<target, errorFound, opened, corruptions>>
           /\ \A p \in Ranks : block'[p] = block[p] \/ block'[p] = Nothing
           /\ test.filePerProc
                => (IF test.reorder = "random" THEN FileOf(r) ELSE target[r]) \notin exists'
           /\ ~test.filePerProc /\ r = 0 => 0 \notin exists'
<1>1. at[r] = "remove" /\ Ready(r) /\ at'[r] = "repEnd" /\ RemoveFile(r, target[r]) /\ ~Keep(r)
      /\ UNCHANGED <<target, errorFound>>
  BY DEF Remove, At, GoTo, TypeInv, PlaceInv, private
<1>2. ~test.filePerProc => target[r] = 0
  BY DEF TypeInv, Files, FileOf
<1> QED
  BY <1>1, <1>2 DEF RemoveFile, Unlink

\* Nobody has a use for the files of the last repetition when a rank starts to write.
LEMMA NobodyUses ==
    ASSUME TypeInv, \A s \in Ranks : PlaceInv(s) /\ CallInv(s), \A s, t \in Ranks : RepInv(s, t),
           NEW r \in Ranks, at[r] = "write", test.writeFile,
           NEW p \in Ranks, at[p] \notin {"stamp", "write", "create", "done"}, ~Behind(p)
    PROVE  FALSE
<1>1. at[p] \in Places /\ Made(r) = 1 /\ Known(p) \in Nat
  BY MadeType DEF TypeInv, Made, Due
<1>2. Known(p) >= 2
  BY <1>1, SizeType DEF Known, Met, Places, WritePlaces, CheckPlaces, ReadPlaces, EndPlaces, PlaceInv
<1>3. CASE at[p] # "repEnd"
  <2>1. 2 <= Made(r)
    BY <1>1, <1>2, <1>3, AllThere
  <2> QED
    BY <1>1, <2>1
<1>4. CASE at[p] = "repEnd"
  <2>1. rep[r] \in Nat /\ rep[p] \in Nat /\ ~(rep[p] < rep[r])
    BY <1>4 DEF TypeInv, Behind
  <2>2. rep[r] = rep[p]
    BY <1>4, <2>1 DEF RepInv
  <2> QED
    BY <1>1, <1>2, <1>4, <2>2 DEF RepInv
<1> QED
  BY <1>3, <1>4

\* What was intact before a step if it is so afterwards.
LEMMA MoveIntact ==
    ASSUME TypeInv, UNCHANGED test, NEW r \in Ranks, PlaceInv(r), Moves(r), Frame(r)
    PROVE  /\ Intact' => Intact
           /\ \A p \in Ranks : ~Behind(p)' => ~Behind(p)
<1>1. at[r] \notin {"repEnd", "done"} /\ rep' = rep
  BY MoveCounts DEF Moves
<1>2. ASSUME NEW p \in Ranks, p # r PROVE at'[p] = at[p] /\ (Keep(p)' <=> Keep(p))
  BY <1>2, OthersKeep DEF Frame
<1>3. ASSUME Intact', NEW p \in Ranks PROVE ~Removed(p)
  <2>1. ~Removed(p)'
    BY <1>3 DEF Intact
  <2> QED
    BY <1>1, <1>2, <2>1 DEF Removed
<1>4. ASSUME NEW p \in Ranks, ~Behind(p)' PROVE ~Behind(p)
  BY <1>1, <1>2, <1>4 DEF Behind
<1> QED
  BY <1>3, <1>4 DEF Intact

\* A step within a repetition leaves the files that are in use there.
LEMMA MoveFiles ==
    ASSUME TypeInv, TypeInv', WholeTests, UNCHANGED test, \A s \in Ranks : RankInv(s),
           \A s, t \in Ranks : RepInv(s, t),
           NEW r \in Ranks, Step(r), ~EndRepetition(r), Moves(r), Frame(r), NEW p \in Ranks
    PROVE  FileInv(p)' /\ BlockInv(p)'
<1>0. \A s \in Ranks : PlaceInv(s) /\ CallInv(s) /\ FileInv(s) /\ BlockInv(s) /\ TargetInv(s)
  BY DEF RankInv
<1>1. /\ Intact' => Intact
      /\ ~Behind(p)' => ~Behind(p)
      /\ rep' = rep /\ test' = test /\ FileOf(p)' = FileOf(p)
  BY <1>0, MoveIntact DEF Moves, FileOf
<1>2. at[p] = "done" => ~Intact
  BY DEF Intact, Removed
<1>3. p # r => at'[p] = at[p]
  BY DEF Frame
<1>4. CASE StartWrite(r)
  <2>1. /\ at[r] = "write" /\ test.writeFile /\ at'[r] = "create"
        /\ \A q \in Ranks : test.filePerProc /\ q # r =>
             /\ FileOf(q) \in exists => FileOf(q) \in exists'
             /\ block'[q] = block[q]
    BY <1>0, <1>4, StartWriteRemoves
  <2>2. ASSUME Intact', ~Behind(p)', at'[p] \notin {"stamp", "write", "create"}
        PROVE  test.filePerProc /\ p # r
    BY <1>0, <1>1, <1>2, <1>3, <2>1, <2>2, NobodyUses
  <2>3. corruptions' = corruptions
    BY <1>4, RemoveType DEF StartWrite, files, RemoveFile, Unlink
  <2> QED
    BY <1>0, <1>1, <1>3, <2>1, <2>2, <2>3 DEF FileInv, BlockInv
<1>5. CASE Create(r)
  <2>1. /\ at[r] = "create" /\ exists' = exists \cup {target[r]} /\ UNCHANGED <<block, corruptions>>
        /\ at'[r] = "writing"
    BY <1>5 DEF Create, At, GoTo, TypeInv
  <2>2. test.writeFile /\ target[r] = FileOf(r)
    BY <1>0, <2>1 DEF PlaceInv, TargetInv, WritePlaces
  <2>3. FileInv(p)'
    BY <1>0, <1>1, <1>3, <2>1, <2>2 DEF FileInv
  <2>4. BlockInv(p)'
    BY <1>0, <1>1, <1>3, <2>1, <2>2 DEF BlockInv
  <2> QED
    BY <2>3, <2>4
<1>6. CASE Write(r)
  <2>1. at[r] = "writing" /\ at'[r] = "written" /\ exists' = exists
    BY <1>6 DEF Write, At, GoTo, TypeInv
  <2>2. /\ Intact /\ FileOf(r) \in exists /\ target[r] = FileOf(r) /\ test.writeFile
        /\ Pretend(r, rankOffset[r]) = r
    BY <1>0, <2>1, OwnFileThere, PretendSelf DEF PlaceInv, TargetInv, WritePlaces
  <2>3. corruptions' = 0 => corruptions = 0 /\ block' = [block EXCEPT ![r] = rep[r]]
    <3>1. corruptions \in Nat
      BY DEF TypeInv
    <3> QED
      BY <1>6, <2>2, <3>1 DEF Write, Signature
  <2>4. FileInv(p)'
    BY <1>0, <1>1, <1>3, <2>1, <2>2 DEF FileInv
  <2>5. BlockInv(p)'
    <3>1. block \in [Ranks -> Int]
      BY DEF TypeInv
    <3> QED
      BY <1>0, <1>1, <1>3, <2>1, <2>2, <2>3, <3>1 DEF BlockInv
  <2> QED
    BY <2>4, <2>5
<1>7. CASE Remove(r)
  <2>1. at[r] = "remove" /\ at'[r] = "repEnd" /\ ~Keep(r) /\ UNCHANGED errorFound
    BY <1>0, <1>7, RemoveRemoves
  <2>2. ~test.keepFile /\ ~Intact'
    BY <1>1, <2>1 DEF Keep, Intact, Removed
  <2> QED
    BY <1>1, <2>2 DEF FileInv, BlockInv
<1>8. CASE ~StartWrite(r) /\ ~Create(r) /\ ~Write(r) /\ ~Remove(r)
  <2>1. UNCHANGED <<exists, block>>
    BY <1>8, StepFiles
  <2>2. corruptions' = 0 => corruptions = 0
    <3>1. corruptions \in Nat /\ at'[r] # "aborted"
      BY DEF TypeInv, Places, WritePlaces, CheckPlaces, ReadPlaces, EndPlaces
    <3>2. corruptions' = corruptions \/ corruptions' = corruptions + 1
      BY <3>1, StepErrors
    <3> QED
      BY <3>1, <3>2
  <2>3. at[r] \notin {"create", "writing"} /\ (test.writeFile => at[r] # "write" \/ at'[r] = "create")
    <3>1. at[r] \in {"write", "create", "writing"} => SkipWrite(r)
      BY <1>8 DEF Step, Stamp, Transferred, CloseWritten, CheckFileSize, ProcessIterResults, SkipCheckWrite,
         StartCheckWrite, OpenWriteCheck, WriteCheck, CloseChecked, SkipRead, StartRead, OpenRead, Read,
         CloseRead, Cleanup, EndRepetition, At
    <3>2. SkipWrite(r) => ~test.writeFile /\ at[r] = "write"
      BY DEF SkipWrite, TimeElapsed, WholeTests, At
    <3> QED
      BY <3>1, <3>2
  <2>4. at[r] = "stamp" => at'[r] = "write"
    BY DEF Moves, WritePhase, CheckPhase, ReadPhase, EndPhase, NoPhase, Goes
  <2>5. FileInv(p)'
    BY <1>0, <1>1, <1>3, <2>1, <2>3, <2>4 DEF FileInv
  <2>6. BlockInv(p)'
    BY <1>0, <1>1, <1>3, <2>1, <2>2, <2>3, <2>4 DEF BlockInv
  <2> QED
    BY <2>5, <2>6
<1> QED
  BY <1>4, <1>5, <1>6, <1>7, <1>8

\* A step within a repetition: who has checked a block that is stored wrong knows it.
LEMMA MoveBad ==
    ASSUME TypeInv, TypeInv', WholeTests, UNCHANGED test, \A s \in Ranks : RankInv(s),
           \A s, t \in Ranks : RepInv(s, t),
           NEW r \in Ranks, Step(r), ~EndRepetition(r), Moves(r), Frame(r), NEW s \in Ranks
    PROVE  BadInv(s)'
<1> DEFINE q == Pretend(s, CheckTurn)
<1>0. /\ \A t \in Ranks : PlaceInv(t) /\ CallInv(t) /\ TargetInv(t) /\ BadInv(t)
      /\ at'[r] # "aborted" /\ test' = test /\ q' = q /\ CheckTurn' = CheckTurn
  BY SameNames DEF RankInv, TypeInv, Places, WritePlaces, CheckPlaces, ReadPlaces, EndPlaces, Pretend
<1>1. q \in Ranks
  <2>1. 2 * Shift \in Nat
    BY TestType
  <2>2. CheckTurn \in Nat
    BY <2>1, PretendType DEF CheckTurn
  <2> QED
    BY <2>2, PretendType
<1> SUFFICES ASSUME test.checkWrite, block'[q] = Bad
             PROVE  /\ at'[s] = "closeC" => errors'[s]
                    /\ at'[s] \in {"read", "cleanup", "remove", "repEnd"} \cup ReadPlaces => errorFound'[s]
  BY <1>0 DEF BadInv
<1>2. /\ at[r] \notin Checkers => errors' = errors
      /\ at[r] \notin Learners => errorFound' = errorFound
      /\ at[r] \in Learners => errorFound'[r] = (errorFound[r] \/ (Checks /\ ErrorSeen))
      /\ at'[r] \in Places /\ Checks
  BY <1>0, StepErrors DEF TypeInv, Checks
<1>3. s # r => at'[s] = at[s] /\ errors'[s] = errors[s] /\ errorFound'[s] = errorFound[s]
  BY DEF Frame
<1>4. CASE Write(r)
  <2>1. at[r] = "writing" /\ at'[r] = "written" /\ test.writeFile
    BY <1>0, <1>4 DEF Write, At, GoTo, TypeInv, PlaceInv, WritePlaces
  <2>2. 2 <= Known(r)
    BY <2>1, SizeType DEF Known, Met
  <2>3. at[s] # "done" /\ rep[s] = rep[r]
    BY <1>0, <2>1, <2>2, AllThere
  <2>4. Known(s) <= Made(r)
    BY <2>1, <2>3 DEF RepInv
  <2>5. at[s] \notin {"closeC", "read", "cleanup", "remove", "repEnd"} \cup ReadPlaces
    BY <2>1, <2>4, SizeType DEF Known, Met, Made, Due, ReadPlaces
  <2>6. at'[s] \notin {"closeC", "read", "cleanup", "remove", "repEnd"} \cup ReadPlaces
    BY <1>3, <2>1, <2>5 DEF ReadPlaces
  <2> QED
    BY <2>6
<1>5. CASE ~Write(r)
  <2>1. block[q] = Bad
    <3>1. CASE StartWrite(r)
      BY <1>0, <1>1, <3>1, StartWriteRemoves DEF Nothing, Bad
    <3>2. CASE Remove(r)
      BY <1>0, <1>1, <3>2, RemoveRemoves DEF Nothing, Bad
    <3>3. CASE Create(r)
      BY <3>3 DEF Create
    <3>4. CASE ~StartWrite(r) /\ ~Remove(r) /\ ~Create(r)
      BY <1>5, <3>4, StepFiles
    <3> QED
      BY <3>1, <3>2, <3>3, <3>4
  <2>2. /\ at[s] = "closeC" => errors[s]
        /\ at[s] \in {"read", "cleanup", "remove", "repEnd"} \cup ReadPlaces => errorFound[s]
    BY <1>0, <2>1 DEF BadInv
  <2>3. CASE s # r
    BY <1>3, <2>2, <2>3
  <2>4. CASE s = r
    <3>1. at'[r] = "closeC" => at[r] = "checking" /\ WriteCheck(r)
      <4>1. at'[r] = "closeC" => at[r] = "checking"
        BY DEF Moves, WritePhase, CheckPhase, ReadPhase, EndPhase, NoPhase, Goes
      <4>2. at[r] = "checking" => WriteCheck(r)
        BY DEF Step, Stamp, SkipWrite, StartWrite, Create, Write, Transferred, CloseWritten, CheckFileSize,
           ProcessIterResults, SkipCheckWrite, StartCheckWrite, OpenWriteCheck, CloseChecked, SkipRead,
           StartRead, OpenRead, Read, CloseRead, Cleanup, Remove, EndRepetition, At
      <4> QED
        BY <4>1, <4>2
    <3>2. ASSUME at'[r] = "closeC" PROVE errors'[r]
      <4>1. rankOffset[r] = CheckTurn
        BY <1>0, <3>1, <3>2 DEF TargetInv
      <4>2. Signature(r) # Bad
        BY TestType DEF Signature, Bad, TypeInv
      <4>3. Mismatch(r)
        BY <2>1, <2>4, <4>1, <4>2 DEF Mismatch
      <4> QED
        BY <3>1, <3>2, <4>3 DEF WriteCheck, TypeInv
    <3>3. ASSUME at'[r] \in {"read", "cleanup", "remove", "repEnd"} \cup ReadPlaces PROVE errorFound'[r]
      <4>1. at[r] \in {"closeC", "read", "cleanup", "remove", "repEnd"} \cup ReadPlaces
        BY <3>3 DEF Moves, WritePhase, CheckPhase, ReadPhase, EndPhase, NoPhase, Goes, ReadPlaces
      <4>2. CASE at[r] = "closeC"
        <5>1. errors[r]
          BY <2>2, <2>4, <4>2
        <5> QED
          BY <1>2, <4>2, <5>1 DEF Learners, ErrorSeen
      <4>3. CASE at[r] # "closeC"
        BY <1>2, <2>2, <2>4, <4>1, <4>3
      <4> QED
        BY <4>2, <4>3
    <3> QED
      BY <2>4, <3>2, <3>3
  <2> QED
    BY <2>3, <2>4
<1> QED
  BY <1>4, <1>5

\* A step within a repetition brings no removed file back.
LEMMA MoveGone ==
    ASSUME TypeInv, TypeInv', WholeTests, UNCHANGED test, \A s \in Ranks : RankInv(s),
           \A s, t \in Ranks : RepInv(s, t),
           NEW r \in Ranks, Step(r), ~EndRepetition(r), Moves(r), Frame(r), NEW s \in Ranks
    PROVE  GoneInv(s)'
<1>0. /\ \A t \in Ranks : PlaceInv(t) /\ CallInv(t) /\ TargetInv(t) /\ GoneInv(t)
      /\ test' = test /\ FileOf(s)' = FileOf(s)
  BY SameNames DEF RankInv
<1> SUFFICES ASSUME ~test.keepFile, ~test.keepFileWithError, at'[s] \in {"repEnd", "done"}
             PROVE  /\ test.filePerProc
                         => (IF test.reorder = "random" THEN FileOf(s) ELSE target'[s]) \notin exists'
                    /\ ~test.filePerProc /\ s = 0 => 0 \notin exists'
  BY <1>0 DEF GoneInv
<1>1. CASE s = r
  <2>1. at'[r] = "repEnd" /\ (at[r] = "remove" \/ (at[r] = "cleanup" /\ Keep(r)))
    BY <1>1 DEF Moves, WritePhase, CheckPhase, ReadPhase, EndPhase, NoPhase, Goes
  <2>2. Remove(r)
    BY <2>1 DEF Keep, Step, Stamp, SkipWrite, StartWrite, Create, Write, Transferred, CloseWritten,
       CheckFileSize, ProcessIterResults, SkipCheckWrite, StartCheckWrite, OpenWriteCheck, WriteCheck,
       CloseChecked, SkipRead, StartRead, OpenRead, Read, CloseRead, Cleanup, EndRepetition, At
  <2> QED
    BY <1>0, <1>1, <2>2, RemoveRemoves
<1>2. CASE s # r
  <2>1. at[s] \in {"repEnd", "done"} /\ target'[s] = target[s]
    BY <1>2 DEF Frame
  <2>2. /\ test.filePerProc => (IF test.reorder = "random" THEN FileOf(s) ELSE target[s]) \notin exists
        /\ ~test.filePerProc /\ s = 0 => 0 \notin exists
    BY <1>0, <2>1 DEF GoneInv
  <2>3. ~Create(r)
    <3> SUFFICES ASSUME Create(r) PROVE FALSE
      OBVIOUS
    <3>1. at[r] = "create" /\ Ready(r) /\ test.writeFile
      BY <1>0 DEF Create, At, PlaceInv, WritePlaces
    <3>2. Made(r) = 2 /\ Waits(at[r])
      BY <3>1 DEF Made, Due, Waits
    <3>3. at[s] # "done" /\ rep[s] = rep[r]
      BY <1>0, <3>1, <3>2, AllThere
    <3>4. Known(s) <= Made(r)
      BY <3>1, <3>3 DEF RepInv
    <3>5. Known(s) = WasRead + 1
      BY <2>1, <3>3 DEF Known, Met, Keep
    <3> QED
      BY <3>1, <3>2, <3>4, <3>5, SizeType
  <2>4. exists' \subseteq exists
    <3>1. CASE StartWrite(r)
      BY <1>0, <3>1, StartWriteRemoves
    <3>2. CASE Remove(r)
      BY <1>0, <3>2, RemoveRemoves
    <3>3. CASE Write(r)
      BY <3>3 DEF Write
    <3>4. CASE ~StartWrite(r) /\ ~Remove(r) /\ ~Write(r)
      BY <2>3, <3>4, StepFiles
    <3> QED
      BY <3>1, <3>2, <3>3, <3>4
  <2> QED
    BY <2>1, <2>2, <2>4
<1> QED
  BY <1>1, <1>2

----------------------------------------------------------------------------
(* The end of a repetition.                                                *)

\* When a rank ends a repetition, the others are about to, or have done so.
LEMMA AllEnd ==
    ASSUME TypeInv, \A s \in Ranks : PlaceInv(s) /\ CallInv(s) /\ ErrorInv(s),
           \A s, t \in Ranks : RepInv(s, t) /\ AgreeInv(s, t),
           NEW r \in Ranks, at[r] = "repEnd", Ready(r), NEW s \in Ranks
    PROVE  \/ at[s] = "done" /\ rep[r] = Repetitions
           \/ at[s] = "repEnd" /\ rep[s] = rep[r] /\ Count(s) = Count(r) /\ (Keep(s) <=> Keep(r))
           \/ at[s] # "done" /\ rep[s] = rep[r] + 1 /\ Base(s) = Count(r) /\ Known(s) = 0
<1>1. at[s] = "done" => rep[r] = Repetitions
  BY DEF RepInv
<1> SUFFICES ASSUME at[s] # "done"
             PROVE  \/ at[s] = "repEnd" /\ rep[s] = rep[r] /\ Count(s) = Count(r) /\ (Keep(s) <=> Keep(r))
                    \/ rep[s] = rep[r] + 1 /\ Base(s) = Count(r) /\ Known(s) = 0
  BY <1>1
<1>2. /\ Made(r) \in Nat /\ Made(s) \in Nat /\ Count(r) \in Nat /\ Count(s) \in Nat
      /\ Base(r) \in Nat /\ Base(s) \in Nat /\ rep[r] \in Nat /\ rep[s] \in Nat
      /\ Count(r) = Base(r) + Made(r) /\ Count(s) = Base(s) + Made(s)
  BY MadeType DEF CallInv, Base, TypeInv
<1>3. Made(r) = (IF Keep(r) THEN WasRead + 1 ELSE WasRead + 2) /\ Made(r) > 0
  BY SizeType DEF Made, Due
<1>4. Count(s) >= Count(r)
  <2>1. Count(r) > 0 /\ calls[r][Count(r)].op \in Synchronizing
    BY <1>2, <1>3 DEF CallInv, Waits
  <2> QED
    BY <2>1, ReadyMeans
<1>5. ASSUME rep[s] < rep[r] PROVE FALSE
  <2>1. Base(r) = Count(s)
    BY <1>5 DEF RepInv
  <2> QED
    BY <1>2, <1>3, <1>4, <2>1
<1>6. CASE rep[r] < rep[s]
  BY <1>6 DEF RepInv
<1>7. CASE rep[r] = rep[s]
  <2>1. Base(r) = Base(s)
    BY <1>7 DEF RepInv
  <2>2. Made(s) >= WasRead + 1 /\ Made(s) >= Made(r)
    BY <1>2, <1>3, <1>4, <2>1, SizeType
  <2>3. at[s] \in {"remove", "repEnd"}
    <3>1. at[s] \in Places /\ PlaceInv(s)
      BY DEF TypeInv
    <3> QED
      BY <2>2, <3>1, SizeType DEF Made, Due, Places, WritePlaces, CheckPlaces, ReadPlaces, EndPlaces, PlaceInv
  <2>4. errorFound[s] = errorFound[r]
    <3>1. CASE Checks
      <4>1. Results(s) = Results(r)
        BY <2>3 DEF Results, CheckPlaces
      <4> QED
        BY <1>7, <3>1, <4>1 DEF AgreeInv
    <3>2. CASE ~Checks
      BY <3>2 DEF ErrorInv, TypeInv
    <3> QED
      BY <3>1, <3>2
  <2>5. Keep(s) <=> Keep(r)
    BY <2>4 DEF Keep
  <2>6. at[s] = "repEnd"
    <3>1. at[s] = "remove" => Made(s) = WasRead + 1 /\ ~Keep(s)
      BY DEF Made, Due, PlaceInv
    <3> QED
      BY <1>2, <1>3, <2>2, <2>3, <2>5, <3>1, SizeType
  <2>7. Made(s) = Made(r)
    BY <2>5, <2>6, <1>3 DEF Made, Due
  <2> QED
    BY <1>2, <1>7, <2>1, <2>5, <2>6, <2>7
<1>8. rep[s] < rep[r] \/ rep[r] < rep[s] \/ rep[r] = rep[s]
  BY <1>2
<1> QED
  BY <1>5, <1>6, <1>7, <1>8

\* A rank ends a repetition.
LEMMA EndChanges ==
    ASSUME TypeInv, NEW r \in Ranks, EndRepetition(r)
    PROVE  /\ at[r] = "repEnd" /\ Ready(r) /\ ~errorFound'[r] /\ rankOffset'[r] = 0
           /\ IF rep[r] < Repetitions THEN at'[r] = "stamp" /\ rep'[r] = rep[r] + 1
              ELSE at'[r] = "done" /\ rep'[r] = rep[r] /\ rep[r] = Repetitions
           /\ UNCHANGED <<test, calls, target, elapsed, errors, opened, exists, block, corruptions>>
<1>1. rep[r] \in 1..Repetitions /\ Repetitions \in Nat
  BY TestType DEF TypeInv
<1> QED
  BY <1>1 DEF EndRepetition, At, GoTo, TypeInv, files

\* The end of a repetition keeps the calls of the ranks in step.
LEMMA EndReps ==
    ASSUME TypeInv, TypeInv', UNCHANGED test, \A s \in Ranks : PlaceInv(s) /\ CallInv(s) /\ ErrorInv(s),
           \A s, t \in Ranks : RepInv(s, t) /\ AgreeInv(s, t), NEW r \in Ranks, EndRepetition(r), Frame(r)
    PROVE  /\ \A s \in Ranks : CallInv(s)'
           /\ \A s, t \in Ranks : RepInv(s, t)'
<1>1. /\ at[r] = "repEnd" /\ Ready(r)
      /\ IF rep[r] < Repetitions THEN at'[r] = "stamp" /\ rep'[r] = rep[r] + 1
         ELSE at'[r] = "done" /\ rep'[r] = rep[r] /\ rep[r] = Repetitions
      /\ calls' = calls
  BY EndChanges
<1>2. \A s \in Ranks : /\ Made(s) \in Nat /\ Known(s) \in Nat /\ Count(s) \in Nat
                       /\ rep[s] \in 1..Repetitions /\ Repetitions \in Nat
  BY MadeType, TestType DEF TypeInv
<1>3. \A s \in Ranks \ {r} : /\ Made(s)' = Made(s) /\ Known(s)' = Known(s) /\ Count(s)' = Count(s)
                             /\ Base(s)' = Base(s) /\ (Waits(at[s])' <=> Waits(at[s]))
                             /\ at'[s] = at[s] /\ rep'[s] = rep[s]
  BY OthersKeep DEF Frame
<1>4. at'[r] = "stamp" => Made(r)' = 0 /\ Known(r)' = 0 /\ Base(r)' = Count(r) /\ ~Waits(at[r])'
  <2>1. ASSUME at'[r] = "stamp" PROVE Made(r)' = 0 /\ Known(r)' = 0 /\ ~Waits(at[r])'
    BY <2>1 DEF Made, Known, Due, Met, Waits
  <2>2. Count(r)' = Count(r)
    BY <1>1 DEF Count
  <2> QED
    BY <1>2, <2>1, <2>2 DEF Base
<1>5. ASSUME NEW s \in Ranks PROVE CallInv(s)'
  <2>1. CASE s = r
    BY <1>1, <1>2, <1>4, <2>1 DEF CallInv
  <2>2. CASE s # r
    BY <1>1, <1>3, <2>2 DEF CallInv
  <2> QED
    BY <2>1, <2>2
<1>6. ASSUME NEW s \in Ranks \ {r} PROVE RepInv(r, s)' /\ RepInv(s, r)'
  <2>1. \/ at[s] = "done" /\ rep[r] = Repetitions
        \/ at[s] = "repEnd" /\ rep[s] = rep[r] /\ Count(s) = Count(r)
        \/ at[s] # "done" /\ rep[s] = rep[r] + 1 /\ Base(s) = Count(r) /\ Known(s) = 0
    BY <1>1, AllEnd
  <2>2. CASE rep[r] < Repetitions
    BY <1>1, <1>2, <1>3, <1>4, <2>1, <2>2 DEF RepInv
  <2>3. CASE ~(rep[r] < Repetitions)
    BY <1>1, <1>2, <1>3, <2>1, <2>3 DEF RepInv
  <2> QED
    BY <2>2, <2>3
<1>7. RepInv(r, r)'
  BY <1>1, <1>2, <1>4 DEF RepInv
<1>8. ASSUME NEW s \in Ranks \ {r}, NEW t \in Ranks \ {r} PROVE RepInv(s, t)'
  BY <1>3 DEF RepInv
<1> QED
  BY <1>5, <1>6, <1>7, <1>8

\* A rank that knows of no call of the others has no result of a check, and has not
\* created its file.
LEMMA NothingKnown ==
    ASSUME TypeInv, NEW s \in Ranks, PlaceInv(s), at[s] # "done", Known(s) = 0
    PROVE  /\ Checks => Results(s) = 0
           /\ test.writeFile => at[s] \in {"stamp", "write", "create"}
<1>1. at[s] \in Places
  BY DEF TypeInv
<1> QED
  BY <1>1, SizeType DEF Known, Met, Results, Optional, Places, WritePlaces, CheckPlaces, ReadPlaces, EndPlaces,
     PlaceInv, Checks, Reads

\* The end of a repetition: what the ranks know.
LEMMA EndErrors ==
    ASSUME TypeInv, TypeInv', UNCHANGED test, \A s \in Ranks : RankInv(s),
           \A s, t \in Ranks : RepInv(s, t) /\ AgreeInv(s, t), NEW r \in Ranks, EndRepetition(r), Frame(r)
    PROVE  /\ \A s \in Ranks : ErrorInv(s)' /\ BadInv(s)' /\ GoneInv(s)'
           /\ \A s, t \in Ranks : AgreeInv(s, t)'
<1>0. /\ \A s \in Ranks : PlaceInv(s) /\ CallInv(s) /\ ErrorInv(s) /\ BadInv(s) /\ GoneInv(s)
      /\ test' = test /\ (Checks' <=> Checks) /\ CheckTurn' = CheckTurn
  BY SameSizes DEF RankInv, CheckTurn
<1>1. /\ at[r] = "repEnd" /\ Ready(r) /\ ~errorFound'[r]
      /\ IF rep[r] < Repetitions THEN at'[r] = "stamp" /\ rep'[r] = rep[r] + 1
         ELSE at'[r] = "done" /\ rep'[r] = rep[r] /\ rep[r] = Repetitions
      /\ UNCHANGED <<test, target, errors, exists, block, corruptions>>
  BY EndChanges
<1>2. \A s \in Ranks \ {r} : /\ at'[s] = at[s] /\ rep'[s] = rep[s] /\ errorFound'[s] = errorFound[s]
                             /\ Results(s)' = Results(s)
  <2>1. Reads' <=> Reads
    BY SameSizes
  <2> QED
    BY <2>1 DEF Frame, Results
<1>3. ASSUME NEW s \in Ranks PROVE ErrorInv(s)'
  BY <1>0, <1>1, <1>2 DEF ErrorInv
<1>4. ASSUME NEW s \in Ranks PROVE BadInv(s)'
  <2>1. Pretend(s, CheckTurn)' = Pretend(s, CheckTurn)
    BY <1>0 DEF Pretend
  <2>2. CASE s = r
    BY <1>1, <2>2 DEF BadInv, ReadPlaces
  <2>3. CASE s # r
    BY <1>0, <1>1, <1>2, <2>1, <2>3 DEF BadInv
  <2> QED
    BY <2>2, <2>3
<1>5. ASSUME NEW s \in Ranks PROVE GoneInv(s)'
  <2>1. FileOf(s)' = FileOf(s) /\ (at'[s] \in {"repEnd", "done"} => at[s] \in {"repEnd", "done"})
    BY <1>1, <1>2 DEF FileOf
  <2> QED
    BY <1>0, <1>1, <2>1 DEF GoneInv
<1>6. ASSUME NEW s \in Ranks \ {r}, at'[r] # "done", at[s] # "done", rep[s] = rep'[r], Checks
      PROVE  Results(s)' = 0 /\ Results(r)' = 0 /\ ~errorFound'[s] /\ ~errorFound'[r]
  <2>1. at'[r] = "stamp" /\ rep[s] = rep[r] + 1 /\ rep[r] \in Nat
    BY <1>1, <1>6 DEF TypeInv
  <2>2. Known(s) = 0
    BY <1>0, <1>1, <1>6, <2>1, AllEnd
  <2>3. Results(s) = 0
    BY <1>0, <1>6, <2>2, NothingKnown
  <2>4. ~errorFound[s]
    BY <1>0, <2>3 DEF ErrorInv
  <2>5. Results(r)' = 0
    BY <2>1 DEF Results
  <2> QED
    BY <1>1, <1>2, <2>3, <2>4, <2>5
<1>7. ASSUME NEW s \in Ranks, NEW t \in Ranks PROVE AgreeInv(s, t)'
  <2>1. ErrorSeen' <=> ErrorSeen
    BY <1>1 DEF ErrorSeen
  <2>2. CASE s = r /\ t = r
    BY <1>3, <2>2 DEF AgreeInv, Results, Optional
  <2>3. ASSUME NEW q \in Ranks \ {r}, Checks, at'[r] # "done", at'[q] # "done", rep'[r] = rep'[q]
        PROVE  Results(q)' = 0 /\ Results(r)' = 0 /\ errorFound'[q] = errorFound'[r]
    <3>1. errorFound'[q] \in BOOLEAN /\ errorFound'[r] \in BOOLEAN
      BY DEF TypeInv
    <3> QED
      BY <1>2, <1>6, <2>3, <3>1
  <2>4. CASE (s = r /\ t # r) \/ (s # r /\ t = r)
    <3> SUFFICES ASSUME Checks, at'[s] # "done", at'[t] # "done", rep'[s] = rep'[t]
                 PROVE  Results(s)' = Results(t)' /\ Results(s)' = 0 /\ errorFound'[s] = errorFound'[t]
      BY <1>0 DEF AgreeInv
    <3> QED
      BY <2>3, <2>4
  <2>5. CASE s # r /\ t # r
    BY <1>0, <1>2, <2>1, <2>5 DEF AgreeInv
  <2> QED
    BY <2>2, <2>4, <2>5
<1> QED
  BY <1>3, <1>4, <1>5, <1>7

\* The end of a repetition: what there is of the files.
LEMMA EndFiles ==
    ASSUME TypeInv, TypeInv', WholeTests, UNCHANGED test, \A s \in Ranks : RankInv(s),
           \A s, t \in Ranks : RepInv(s, t) /\ AgreeInv(s, t), NEW r \in Ranks, EndRepetition(r), Frame(r),
           NEW p \in Ranks
    PROVE  FileInv(p)' /\ BlockInv(p)'
<1>0. /\ \A s \in Ranks : PlaceInv(s) /\ CallInv(s) /\ ErrorInv(s) /\ FileInv(s) /\ BlockInv(s)
      /\ test' = test /\ FileOf(p)' = FileOf(p)
  BY DEF RankInv, FileOf
<1>1. /\ at[r] = "repEnd" /\ Ready(r)
      /\ IF rep[r] < Repetitions THEN at'[r] = "stamp" /\ rep'[r] = rep[r] + 1
         ELSE at'[r] = "done" /\ rep'[r] = rep[r] /\ rep[r] = Repetitions
      /\ UNCHANGED <<exists, block, corruptions>>
  BY EndChanges
<1>2. \A s \in Ranks \ {r} : /\ at'[s] = at[s] /\ rep'[s] = rep[s] /\ (Removed(s)' <=> Removed(s))
  BY OthersKeep DEF Frame, Removed
<1>3. \A s \in Ranks : rep[s] \in Nat
  BY DEF TypeInv
<1>4. ASSUME Intact', ~test.writeFile PROVE test.keepFile \/ Intact
  <2>1. at'[r] # "done"
    BY <1>4 DEF Intact, Removed
  <2>2. rep[r] < Repetitions /\ rep[r] \in 1..Repetitions
    BY <1>1, <2>1 DEF TypeInv
  <2>3. Repetitions # 1
    BY <2>2
  <2> QED
    BY <1>4, <2>3, TestType
<1>5. ASSUME Intact', test.writeFile, at'[p] \notin {"stamp", "write", "create"}, ~Behind(p)'
      PROVE  Intact /\ ~Behind(p) /\ at'[p] = at[p] /\ rep'[p] = rep[p]
  <2>0. at'[r] # "done" /\ at'[p] # "done"
    BY <1>5 DEF Intact, Removed
  <2>1. p # r /\ at'[r] = "stamp" /\ rep'[r] = rep[r] + 1 /\ at[p] # "done"
    <3>1. at'[r] = "stamp" /\ rep'[r] = rep[r] + 1
      BY <1>1, <2>0
    <3>2. p # r
      BY <1>5, <3>1
    <3> QED
      BY <1>2, <2>0, <3>1, <3>2
  <2>2. ~(at[p] = "repEnd" /\ rep[p] = rep[r])
    BY <1>2, <1>3, <1>5, <2>1 DEF Behind
  <2>3. Known(p) = 0
    BY <1>0, <1>1, <2>1, <2>2, AllEnd
  <2>4. at[p] \in {"stamp", "write", "create"}
    BY <1>0, <1>5, <2>1, <2>3, NothingKnown
  <2> QED
    BY <1>2, <1>5, <2>1, <2>4
<1>6. FileInv(p)'
  BY <1>0, <1>1, <1>4, <1>5 DEF FileInv
<1>7. BlockInv(p)'
  BY <1>0, <1>1, <1>4, <1>5 DEF BlockInv
<1> QED
  BY <1>6, <1>7

----------------------------------------------------------------------------
(* The invariant.                                                          *)

\* The others stay where they are, with the same file.
LEMMA OthersStay ==
    ASSUME UNCHANGED test, NEW r \in Ranks, Frame(r), NEW s \in Ranks \ {r}, PlaceInv(s), TargetInv(s)
    PROVE  PlaceInv(s)' /\ TargetInv(s)'
<1>1. /\ at'[s] = at[s] /\ rep'[s] = rep[s] /\ rankOffset'[s] = rankOffset[s] /\ target'[s] = target[s]
      /\ errorFound'[s] = errorFound[s] /\ opened'[s] = opened[s] /\ test' = test
  BY DEF Frame
<1>2. /\ (Reads' <=> Reads) /\ (Keep(s)' <=> Keep(s))
  BY <1>1, SameSizes DEF Keep
<1>3. /\ CheckTurn' = CheckTurn /\ ReadTurn' = ReadTurn /\ (InTurn' <=> InTurn)
      /\ FileOf(s)' = FileOf(s) /\ TestFile(s)' = TestFile(s)
      /\ FileOf(Pretend(s, CheckTurn))' = FileOf(Pretend(s, CheckTurn))
      /\ FileOf(Pretend(s, ReadTurn))' = FileOf(Pretend(s, ReadTurn))
  BY <1>1, SameNames DEF TestFile
<1>4. PlaceInv(s)'
  BY <1>1, <1>2 DEF PlaceInv
<1>5. TargetInv(s)'
  BY <1>1, <1>2, <1>3 DEF TargetInv
<1> QED
  BY <1>4, <1>5

\* It holds at the start.
LEMMA TestInit == Init => TestInv
<1> SUFFICES ASSUME Init PROVE TestInv
  OBVIOUS
<1>1. TypeInv
  <2>1. Repetitions \in Nat \ {0} /\ 0 \in Ranks /\ Ranks \subseteq Nat
    BY TestAssumption, MpiAssumption DEF Ranks
  <2>2. calls \in CallsIn({0})
    BY DEF Init, NoCalls, CallsIn
  <2>3. exists \in SUBSET Files /\ block \in [Ranks -> Int] /\ corruptions \in Nat
    BY DEF Init, Files, Nothing, Old
  <2> QED
    BY <2>1, <2>2, <2>3 DEF Init, TypeInv, Places, Files
<1>2. ASSUME NEW r \in Ranks
      PROVE  /\ at[r] = "stamp" /\ rep[r] = 1 /\ ~errors[r] /\ ~errorFound[r] /\ opened[r] = "no"
             /\ rankOffset[r] = 0 /\ target[r] = FileOf(r) /\ calls[r] = << >>
  BY DEF Init, NoCalls
<1>3. ASSUME NEW r \in Ranks
      PROVE  Made(r) = 0 /\ Known(r) = 0 /\ Results(r) = 0 /\ Base(r) = 0 /\ ~Waits(at[r])
  <2>1. Made(r) = 0 /\ Known(r) = 0 /\ Results(r) = 0 /\ ~Waits(at[r])
    BY <1>2 DEF Made, Known, Due, Met, Results, Waits
  <2>2. Count(r) = 0
    BY <1>2 DEF Count
  <2>3. Base(r) = 0
    BY <2>1, <2>2 DEF Base
  <2> QED
    BY <2>1, <2>3
<1>4. ~test.writeFile => exists = Files /\ \A p \in Ranks : FileOf(p) \in exists /\ block[p] = 1
  BY <1>1, TestType DEF Init, Files
<1>5. ASSUME NEW r \in Ranks PROVE PlaceInv(r) /\ TargetInv(r)
  BY <1>2 DEF PlaceInv, TargetInv, WritePlaces, CheckPlaces, ReadPlaces, EndPlaces
<1>6. ASSUME NEW r \in Ranks PROVE CallInv(r) /\ ErrorInv(r) /\ BadInv(r) /\ GoneInv(r)
  BY <1>2, <1>3 DEF CallInv, ErrorInv, BadInv, GoneInv, ReadPlaces
<1>7. ASSUME NEW r \in Ranks PROVE FileInv(r) /\ BlockInv(r)
  BY <1>2, <1>4 DEF FileInv, BlockInv
<1>8. ASSUME NEW r \in Ranks, NEW s \in Ranks PROVE RepInv(r, s) /\ AgreeInv(r, s)
  <2>1. RepInv(r, s)
    BY <1>2, <1>3 DEF RepInv
  <2>2. Results(r) = Results(s) /\ ~(Results(r) < Results(s)) /\ errorFound[r] = errorFound[s]
    BY <1>3 DEF Init
  <2> QED
    BY <2>1, <2>2 DEF AgreeInv
<1> QED
  BY <1>1, <1>5, <1>6, <1>7, <1>8 DEF TestInv, RankInv

\* Every step keeps it, and no step aborts.
LEMMA TestStep ==
    ASSUME TestInv, WholeTests, NEW r \in Ranks, Step(r)
    PROVE  TestInv' /\ at'[r] # "aborted" /\ UNCHANGED test /\ Frame(r)
<1>1. TypeInv /\ (\A s \in Ranks : RankInv(s)) /\ \A s, t \in Ranks : RepInv(s, t) /\ AgreeInv(s, t)
  BY DEF TestInv
<1>2. at'[r] # "aborted"
  BY <1>1, NobodyAborts
<1>3. TypeInv' /\ Frame(r) /\ UNCHANGED test
  BY <1>1, <1>2, StepType
<1>4. \A s \in Ranks : PlaceInv(s) /\ TargetInv(s) /\ CallInv(s) /\ ErrorInv(s)
  BY <1>1 DEF RankInv
<1>5. ASSUME NEW s \in Ranks PROVE PlaceInv(s)' /\ TargetInv(s)'
  <2>1. CASE s = r
    BY <1>1, <1>2, <1>3, <1>4, <2>1, StepPlace, StepTarget
  <2>2. CASE s # r
    BY <1>3, <1>4, <2>2, OthersStay
  <2> QED
    BY <2>1, <2>2
<1>6. CASE EndRepetition(r)
  <2>1. (\A s \in Ranks : CallInv(s)') /\ \A s, t \in Ranks : RepInv(s, t)'
    BY <1>1, <1>3, <1>4, <1>6, EndReps
  <2>2. (\A s \in Ranks : ErrorInv(s)' /\ BadInv(s)' /\ GoneInv(s)') /\ \A s, t \in Ranks : AgreeInv(s, t)'
    BY <1>1, <1>3, <1>6, EndErrors
  <2>3. \A s \in Ranks : FileInv(s)' /\ BlockInv(s)'
    BY <1>1, <1>3, <1>6, EndFiles
  <2> QED
    BY <1>2, <1>3, <1>5, <2>1, <2>2, <2>3 DEF TestInv, RankInv
<1>7. CASE ~EndRepetition(r)
  <2>1. Moves(r)
    BY <1>1, <1>2, <1>4, <1>7, StepMoves
  <2>2. (\A s \in Ranks : CallInv(s)') /\ \A s, t \in Ranks : RepInv(s, t)'
    BY <1>1, <1>3, <1>4, <2>1, MoveReps
  <2>3. (\A s \in Ranks : ErrorInv(s)') /\ \A s, t \in Ranks : AgreeInv(s, t)'
    BY <1>1, <1>2, <1>3, <1>7, <2>1, MoveErrors
  <2>4. \A s \in Ranks : FileInv(s)' /\ BlockInv(s)' 
    BY <1>1, <1>3, <1>7, <2>1, MoveFiles
  <2>5. \A s \in Ranks : BadInv(s)' 
    BY <1>1, <1>2, <1>3, <1>7, <2>1, MoveBad
  <2>6. \A s \in Ranks : GoneInv(s)' 
    BY <1>1, <1>2, <1>3, <1>7, <2>1, MoveGone
  <2> QED
    BY <1>2, <1>3, <1>5, <2>2, <2>3, <2>4, <2>5, <2>6 DEF TestInv, RankInv
<1> QED
  BY <1>6, <1>7

\* Nothing happens.
LEMMA TestStutter ==
    ASSUME TestInv, UNCHANGED vars
    PROVE  TestInv'
<1>1. test' = test /\ at' = at /\ calls' = calls /\ rep' = rep /\ rankOffset' = rankOffset /\ target' = target
      /\ elapsed' = elapsed /\ errors' = errors /\ errorFound' = errorFound /\ opened' = opened
      /\ exists' = exists /\ block' = block /\ corruptions' = corruptions
  BY DEF vars, private, files
<1>2. (Reads' <=> Reads) /\ (Checks' <=> Checks) /\ Files' = Files
      /\ CheckTurn' = CheckTurn /\ ReadTurn' = ReadTurn /\ (InTurn' <=> InTurn)
  BY <1>1, SameSizes DEF CheckTurn, ReadTurn, InTurn, Files, FileOf
<1>3. /\ (Intact' <=> Intact) /\ (ErrorSeen' <=> ErrorSeen)
      /\ \A r \in Ranks : (Behind(r)' <=> Behind(r))
  BY <1>1 DEF Intact, Removed, Keep, ErrorSeen, Behind
<1>4. ASSUME NEW r \in Ranks
      PROVE  /\ (Keep(r)' <=> Keep(r)) /\ FileOf(r)' = FileOf(r) /\ TestFile(r)' = TestFile(r)
             /\ Pretend(r, CheckTurn)' = Pretend(r, CheckTurn) /\ (Waits(at[r])' <=> Waits(at[r]))
             /\ FileOf(Pretend(r, CheckTurn))' = FileOf(Pretend(r, CheckTurn))
             /\ FileOf(Pretend(r, ReadTurn))' = FileOf(Pretend(r, ReadTurn))
  BY <1>1, <1>2 DEF Keep, FileOf, TestFile, Pretend, Waits
<1>5. ASSUME NEW r \in Ranks
      PROVE  /\ Made(r)' = Made(r) /\ Known(r)' = Known(r) /\ Count(r)' = Count(r) /\ Base(r)' = Base(r)
             /\ Results(r)' = Results(r)
  <2>1. Made(r)' = Made(r) /\ Known(r)' = Known(r)
    BY <1>1, <1>4, SameSizes DEF Made, Known, Due, Met
  <2>2. Count(r)' = Count(r) /\ Results(r)' = Results(r)
    BY <1>1, <1>2 DEF Count, Results, Optional
  <2> QED
    BY <2>1, <2>2 DEF Base
<1>6. TypeInv'
  BY <1>1, <1>2 DEF TestInv, TypeInv
<1>7. ASSUME NEW r \in Ranks PROVE PlaceInv(r)' /\ TargetInv(r)' /\ CallInv(r)' /\ ErrorInv(r)'
  <2>0. PlaceInv(r) /\ TargetInv(r) /\ CallInv(r) /\ ErrorInv(r)
    BY DEF TestInv, RankInv
  <2>1. PlaceInv(r)' /\ ErrorInv(r)'
    BY <1>1, <1>2, <1>4, <1>5, <2>0 DEF PlaceInv, ErrorInv
  <2>2. TargetInv(r)'
    BY <1>1, <1>2, <1>4, <2>0 DEF TargetInv
  <2>3. CallInv(r)'
    BY <1>1, <1>4, <1>5, <2>0 DEF CallInv
  <2> QED
    BY <2>1, <2>2, <2>3
<1>8. ASSUME NEW r \in Ranks PROVE BadInv(r)' /\ FileInv(r)' /\ BlockInv(r)' /\ GoneInv(r)'
  <2>0. BadInv(r) /\ FileInv(r) /\ BlockInv(r) /\ GoneInv(r)
    BY DEF TestInv, RankInv
  <2>1. BadInv(r)' /\ GoneInv(r)'
    BY <1>1, <1>4, <2>0 DEF BadInv, GoneInv
  <2>2. FileInv(r)' /\ BlockInv(r)'
    BY <1>1, <1>3, <1>4, <2>0 DEF FileInv, BlockInv
  <2> QED
    BY <2>1, <2>2
<1>9. ASSUME NEW r \in Ranks, NEW s \in Ranks PROVE RepInv(r, s)' /\ AgreeInv(r, s)'
  <2>0. RepInv(r, s) /\ AgreeInv(r, s)
    BY DEF TestInv
  <2>1. RepInv(r, s)'
    BY <1>1, <1>5, <2>0 DEF RepInv
  <2>2. AgreeInv(r, s)'
    BY <1>1, <1>2, <1>3, <1>5, <2>0 DEF AgreeInv
  <2> QED
    BY <2>1, <2>2
<1> QED
  BY <1>6, <1>7, <1>8, <1>9 DEF TestInv, RankInv

\* Every state of a test that does all its phases satisfies the invariant.
THEOREM TestInvariant ==
    ASSUME WholeTests
    PROVE  Spec => []TestInv
<1>1. Init => TestInv
  BY TestInit
<1>2. TestInv /\ [Next]_vars => TestInv'
  BY TestStep, TestStutter DEF Next
<1> QED
  BY <1>1, <1>2, PTL DEF Spec

----------------------------------------------------------------------------
(* What the users of a test rely on.                                       *)

\* No rank finds a file missing that it is to open or to stat.
THEOREM NoRankAborts ==
    ASSUME WholeTests
    PROVE  Spec => []NeverAborts
<1>1. TestInv => NeverAborts
  BY DEF TestInv, TypeInv, NeverAborts, Places, WritePlaces, CheckPlaces, ReadPlaces, EndPlaces
<1> QED
  BY <1>1, TestInvariant, PTL

\* The checks report nothing that the file system has not got wrong: no block is read
\* before it is written in this repetition, or after it is removed.
THEOREM ErrorsAreOfTheFiles ==
    ASSUME WholeTests
    PROVE  Spec => []ErrorsAreReal
<1>1. TestInv => ErrorsAreReal
  BY DEF TestInv, RankInv, ErrorInv, ErrorsAreReal
<1> QED
  BY <1>1, TestInvariant, PTL

\* Only a rank that starts to write and one that ends its repetition remove files.
LEMMA WhoRemoves ==
    ASSUME NEW r \in Ranks, Step(r), NEW f \in exists \ exists'
    PROVE  StartWrite(r) \/ Remove(r)
<1>1. Create(r) => exists \subseteq exists'
  BY DEF Create
<1>2. Write(r) => exists' = exists
  BY DEF Write
<1> QED
  BY <1>1, <1>2, StepFiles

\* The offsets are numbers.
LEMMA TurnType ==
    ASSUME TypeInv
    PROVE  CheckTurn \in Nat /\ ReadTurn \in Nat
<1>1. 0 \in Ranks /\ 2 * Shift \in Nat /\ TaskPerNodeOffset * Shift \in Nat
  BY TestType
<1>2. (2 * Shift) % N \in Nat /\ (TaskPerNodeOffset * Shift) % N \in Nat
  BY <1>1, PretendType
<1> QED
  BY <1>2 DEF CheckTurn, ReadTurn

\* When a rank removes its file in the end, all ranks have left their phases, and those
\* that checked agree on the errors.
LEMMA AllFinished ==
    ASSUME TestInv, NEW r \in Ranks, Remove(r), NEW s \in Ranks
    PROVE  /\ at[s] \in {"remove", "repEnd"}
           /\ Checks => errorFound[s] = errorFound[r]
<1>0. /\ TypeInv /\ (\A t \in Ranks : PlaceInv(t) /\ CallInv(t))
      /\ (\A t, u \in Ranks : RepInv(t, u)) /\ AgreeInv(s, r)
  BY DEF TestInv, RankInv
<1>1. at[r] = "remove" /\ Ready(r)
  BY DEF Remove, At
<1>2. WasRead + 1 \in Nat \ {0} /\ Made(r) = WasRead + 1 /\ Waits(at[r])
  BY <1>0, <1>1, SizeType DEF Made, Due, Waits
<1>3. at[s] # "done" /\ rep[s] = rep[r] /\ WasRead + 1 <= Made(s)
  BY <1>0, <1>1, <1>2, AllThere
<1>4. at[s] \in {"remove", "repEnd"}
  <2>1. at[s] \in Places /\ PlaceInv(s)
    BY <1>0 DEF TypeInv
  <2> QED
    BY <1>0, <1>3, <2>1, SizeType DEF Made, Due, Places, WritePlaces, CheckPlaces, ReadPlaces, EndPlaces,
       PlaceInv
<1>5. Results(s) = Results(r)
  BY <1>1, <1>4 DEF Results, CheckPlaces
<1> QED
  BY <1>0, <1>1, <1>3, <1>4, <1>5 DEF AgreeInv

\* A file goes away only when no rank has it open.
THEOREM OpenFilesStay ==
    ASSUME WholeTests
    PROVE  Spec => NoRemovalWhileOpen
<1>1. ASSUME TestInv, NEW r \in Ranks, Step(r), NEW f \in exists \ exists', NEW q \in Ranks, opened[q] # "no"
      PROVE  FALSE
  <2>1. /\ TypeInv /\ (\A s \in Ranks : PlaceInv(s) /\ CallInv(s)) /\ (\A s, t \in Ranks : RepInv(s, t))
    BY <1>1 DEF TestInv, RankInv
  <2>2. at[q] \in OpenPlaces
    BY <1>1, <2>1 DEF PlaceInv
  <2>3. CASE StartWrite(r)
    <3>1. at[r] = "write" /\ test.writeFile
      BY <2>3 DEF StartWrite, At
    <3>2. at[q] \notin {"stamp", "write", "create", "done"} /\ ~Behind(q)
      BY <2>2 DEF OpenPlaces, Behind
    <3> QED
      BY <2>1, <3>1, <3>2, NobodyUses
  <2>4. CASE Remove(r)
    BY <1>1, <2>2, <2>4, AllFinished DEF OpenPlaces
  <2> QED
    BY <1>1, <2>3, <2>4, WhoRemoves
<1>2. TestInv /\ [Next]_vars => [\A f \in exists \ exists' :
           \A r \in Ranks : opened[r] # "no" => target[r] # f]_vars
  BY <1>1 DEF Next
<1> QED
  BY <1>2, TestInvariant, PTL DEF Spec, NoRemovalWhileOpen

\* With -K the removal at the end of a repetition leaves the files with errors, whoever
\* found them.
THEOREM ErrorFilesStay ==
    ASSUME WholeTests
    PROVE  Spec => ErrorFilesKept
<1>1. ASSUME TestInv, NEW q \in Ranks, Step(q), NEW r \in Ranks,
             test.keepFileWithError, at[r] = "remove", at'[r] = "repEnd",
             NEW f \in ErrorFiles, f \in exists \ exists'
      PROVE  FALSE
  <2>1. Frame(q)
    BY <1>1, TestStep
  <2>2. r = q
    BY <1>1, <2>1 DEF Frame
  <2>3. Remove(r)
    BY <1>1, <2>2, WhoRemoves DEF StartWrite, At
  <2>4. PICK p \in Ranks : test.checkWrite /\ block[p] = Bad
    BY <1>1 DEF ErrorFiles
  <2>5. PICK s \in Ranks : Pretend(s, CheckTurn) = p
    <3>1. CheckTurn \in Nat
      BY <1>1, TurnType DEF TestInv
    <3> QED
      BY <3>1, RotationReachesAll DEF Pretend
  <2>6. at[s] \in {"remove", "repEnd"} /\ errorFound[s] = errorFound[r]
    BY <1>1, <2>3, <2>4, AllFinished DEF Checks
  <2>7. errorFound[s]
    BY <1>1, <2>4, <2>5, <2>6 DEF TestInv, RankInv, BadInv
  <2>8. ~errorFound[r]
    BY <1>1 DEF TestInv, RankInv, PlaceInv, Keep
  <2> QED
    BY <2>6, <2>7, <2>8
<1>2. TestInv /\ [Next]_vars => [\A r \in Ranks :
           (test.keepFileWithError /\ at[r] = "remove" /\ at'[r] = "repEnd")
               => ErrorFiles \cap (exists \ exists') = {}]_vars
  BY <1>1 DEF Next
<1> QED
  BY <1>2, TestInvariant, PTL DEF Spec, ErrorFilesKept

\* No two ranks read the same file of file-per-process: not with -Z -Z.
InTurns == \A t \in Tests : t.filePerProc /\ (t.readFile \/ t.checkRead) => t.reorder # "shuffle"

\* A test without -k and -K leaves no file behind.
THEOREM NothingIsLeft ==
    ASSUME WholeTests, InTurns
    PROVE  Spec => []NothingLeft
<1>1. ASSUME TestInv, \A r \in Ranks : at[r] = "done", ~test.keepFile, ~test.keepFileWithError,
             NEW f \in exists
      PROVE  FALSE
  <2>1. TypeInv /\ \A r \in Ranks : TargetInv(r) /\ GoneInv(r)
    BY <1>1 DEF TestInv, RankInv
  <2>2. PICK p \in Ranks : f = FileOf(p)
    BY <2>1 DEF TypeInv, Files
  <2>3. CASE ~test.filePerProc
    BY <1>1, <2>1, <2>2, <2>3, TestType DEF GoneInv, FileOf
  <2>4. CASE test.filePerProc /\ test.reorder = "random"
    BY <1>1, <2>1, <2>2, <2>4 DEF GoneInv
  <2>5. CASE test.filePerProc /\ test.reorder # "random"
    <3>1. \A r \in Ranks : target[r] # f
      BY <1>1, <2>1, <2>5 DEF GoneInv
    <3>2. Reads => InTurn
      BY <2>1, <2>5, TestType DEF InTurns, InTurn, Reads, TypeInv, Parameters
    <3> DEFINE turn == IF Reads THEN ReadTurn ELSE IF test.checkWrite THEN CheckTurn ELSE 0
    <3>3. \A r \in Ranks : target[r] = FileOf(Pretend(r, turn))
      BY <1>1, <2>1, <3>2, PretendSelf DEF TargetInv, EndPlaces
    <3>4. turn \in Nat
      BY <2>1, TurnType
    <3> HIDE DEF turn
    <3>5. PICK r \in Ranks : Pretend(r, turn) = p
      BY <3>4, RotationReachesAll DEF Pretend
    <3> QED
      BY <2>2, <3>1, <3>3, <3>5
  <2> QED
    BY <2>3, <2>4, <2>5
<1>2. TestInv => NothingLeft
  BY <1>1 DEF NothingLeft
<1> QED
  BY <1>2, TestInvariant, PTL
=============================================================================
