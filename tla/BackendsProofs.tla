--------------------------- MODULE BackendsProofs ---------------------------
(***************************************************************************)
(* Proofs about a test on the backends that address a file by offset        *)
(* (Backends): whatever the backend and however many ranks, the collectives *)
(* of a rank follow from where it is, and so a rank that goes on from a      *)
(* barrier knows how far the others are.  From that, and from where each of  *)
(* them has come to in its transfer, follows what is in the files.           *)
(***************************************************************************)
EXTENDS Backends, MpiProofs, FiniteSetTheorems

DfsPlaces == {"finalize", "cont_close", "destroy", "disconnect"}
Places == {"initialize", "remove_old", "create", "late_create", "write", "sync", "close", "size",
           "reduce_size", "check_size", "checked", "open", "read", "close_read", "remove", "done"}
            \cup DfsPlaces

\* The values that the ranks have passed are none of our business.
TypeInv ==
    /\ job \in Jobs /\ at \in [Ranks -> Places] /\ ahead \in [Ranks -> Seq(Collectives)]
    /\ \E V : calls \in CallsIn(V)
    /\ dfs \in [Ranks -> {"none", "container", "pool", "disconnected"}]
    /\ destroyed \in BOOLEAN

----------------------------------------------------------------------------
(* The collectives of a test.                                              *)

Optional(condition) == IF condition THEN 1 ELSE 0
Shared == ~job.filePerProc

\* The calls of opening, of a barrier of -g, of a collective transfer and of closing.
Opening == IF ~Shared THEN 0
           ELSE CASE job.api = "MPIIO" -> IF Dry THEN 0 ELSE 2
                  [] job.api = "DFS" -> 2
                  [] job.api = "HDFS" -> 1
                  [] job.api = "POSIX" -> Optional(job.striping)
                  [] OTHER -> 0
Reopening == IF job.api = "MPIIO" THEN Len(Together) ELSE IF job.api = "DFS" /\ Shared THEN 2 ELSE 0
Sizing == CASE job.api = "MPIIO" -> Optional(Shared /\ ~Dry)
            [] job.api = "DFS" -> Optional(Shared)
            [] job.api = "CEPHFS" -> 1 + Optional(Shared)
            [] OTHER -> 0

\* The calls up to the ends of the phases.
ToCreate == IF job.api = "DFS" THEN 7 ELSE 1
ToWrite == ToCreate + Opening + Len(AfterCreate)
ToClose == ToWrite + Len(TransferTogether) + IF job.fsyncPerWrite THEN Len(Together) ELSE 0
ToSize == ToClose + Len(AfterTransfer) + Len(Together) + 1
ToOpen == ToSize + Sizing + Optional(Shared) + 3
ToRemove == ToOpen + Reopening + Len(TransferTogether) + Len(Together) + 1

\* The calls that a rank makes up to a place.
Due == [place \in Places |->
    CASE place = "initialize" -> 0
      [] place = "remove_old" -> ToCreate - 1
      [] place = "create" -> ToCreate
      [] place = "late_create" -> ToCreate + 1
      [] place = "write" -> ToWrite
      [] place = "sync" -> ToWrite + Len(TransferTogether)
      [] place = "close" -> ToClose
      [] place = "size" -> ToSize
      [] place = "reduce_size" -> ToSize + 1
      [] place = "check_size" -> ToSize + Sizing
      [] place = "checked" -> ToSize + Sizing + 1
      [] place = "open" -> ToOpen
      [] place = "read" -> ToOpen + Reopening
      [] place = "close_read" -> ToOpen + Reopening + Len(TransferTogether)
      [] place = "remove" -> ToRemove
      [] place = "finalize" -> ToRemove + 1
      [] place = "cont_close" -> ToRemove + 4
      [] place = "destroy" -> ToRemove + 5
      [] place = "disconnect" -> ToRemove + 5 + Optional(job.destroy)
      [] place = "done" -> ToRemove + IF job.api = "DFS" THEN 6 + Optional(job.destroy) ELSE 1]

\* A barrier is before these.
BarrierPlaces == {"create", "size", "open", "remove", "finalize", "cont_close", "destroy", "done"}

\* The last call before writing, or before what is left to do of creating.
WriteWait == IF job.intraTestBarriers THEN "Barrier"
             ELSE IF Opening = 0 THEN "none"
             ELSE IF job.api \in {"MPIIO", "DFS"} THEN "Bcast" ELSE "Barrier"
LateWait == IF job.api = "MPIIO" THEN "Allreduce" ELSE "Barrier"

\* The last call before a place, if it matters.
Awaited == [place \in Places |->
    IF place \in BarrierPlaces THEN "Barrier"
    ELSE IF place = "write" THEN WriteWait
    ELSE IF place = "late_create" THEN LateWait ELSE "none"]

\* Only some backends and options lead to a place.
Reachable ==
    {place \in Places :
        /\ place = "reduce_size" => job.api = "CEPHFS"
        /\ place = "late_create" => Opening > 0 /\ job.api # "DFS"
        /\ place = "sync" => job.fsyncPerWrite
        /\ place \in DfsPlaces => job.api = "DFS"}

CallInv(r) ==
    /\ at[r] \in Reachable
    /\ Count(r) + Len(ahead[r]) = Due[at[r]]
    /\ Awaited[at[r]] # "none" =>
        IF ahead[r] = << >> THEN calls[r][Count(r)].op = Awaited[at[r]]
        ELSE ahead[r][Len(ahead[r])] = Awaited[at[r]]

\* What a rank has open of DAOS.
Left == {"destroy", "disconnect", "done"}
DaosInv(r) ==
    /\ job.api # "DFS" => dfs[r] = "none"
    /\ at[r] \in Left => dfs[r] # "container"
    /\ destroyed => at[r] \in Left

\* DAOS fails no rank alone: what rank 0 opens for the others is found and can
\* be shared.
Answers == ~job.unshared /\ (job.lost => job.filePerProc)
DaosAnswers == \A j \in Jobs : ~j.unshared /\ (j.lost => j.filePerProc)

Inv == TypeInv /\ Answers /\ \A r \in Ranks : CallInv(r) /\ DaosInv(r)

\* The calls that share a handle, and those of opening a file to read it.
Handle == <<"Bcast", "Bcast">>
Reopened == IF job.api = "MPIIO" THEN Together ELSE IF job.api = "DFS" THEN OnTestComm(Handle) ELSE << >>

\* Then every rank makes them all.
LEMMA HandlesAreShared ==
    ASSUME Answers, NEW r
    PROVE  /\ HandleDistribute(r) = {Handle} /\ share_file_handle(r) = {OnTestComm(Handle)}
           /\ OpenCalls(r) = {Reopened}
           /\ LookupFails(r) => job.filePerProc \/ r = 0
           /\ LookupFails(r) => job.filePerProc
<1>1. SubSeq(Handle, 1, 2) = Handle
  <2> DEFINE both == [i \in 1..2 |-> Handle[i]]
  <2>1. Handle \in Seq({"Bcast"}) /\ Len(Handle) = 2
    BY DEF Handle
  <2>2. /\ SubSeq(Handle, 1, 2) \in Seq({"Bcast"}) /\ Len(SubSeq(Handle, 1, 2)) = 2
        /\ \A i \in 1..2 : SubSeq(Handle, 1, 2)[i] = Handle[i]
    BY <2>1
  <2> HIDE DEF both
  <2> QED
    BY <2>1, <2>2
<1>2. HandleDistribute(r) = {SubSeq(Handle, 1, k) : k \in {2}}
  BY DEF HandleDistribute, Answers, Handle
<1>3. HandleDistribute(r) = {Handle}
  BY <1>1, <1>2
<1>4. share_file_handle(r) = {OnTestComm(Handle)}
  BY <1>3 DEF share_file_handle
<1> QED
  BY <1>3, <1>4 DEF OpenCalls, Reopened, LookupFails, Answers

----------------------------------------------------------------------------
(* Sequences of collectives.                                               *)

\* The operations that the backends call.
LEMMA OpsType == {"Bcast", "Barrier", "Allreduce"} \subseteq Collectives
BY DEF Collectives, Synchronizing

\* A barrier at the end of other collectives.
LEMMA BarrierLast ==
    ASSUME NEW s \in Seq(Collectives)
    PROVE  /\ s \o <<"Barrier">> \in Seq(Collectives) /\ s \o <<"Barrier">> # << >>
           /\ Len(s \o <<"Barrier">>) = Len(s) + 1
           /\ (s \o <<"Barrier">>)[Len(s) + 1] = "Barrier"
<1>1. <<"Barrier">> \in Seq(Collectives) /\ Len(<<"Barrier">>) = 1
  BY OpsType
<1> QED
  BY <1>1

\* What is called together is called by all ranks or by none.
LEMMA OpsOfJob ==
    /\ AfterCreate \in Seq(Collectives) /\ Len(AfterCreate) \in Nat
    /\ AfterTransfer \in Seq(Collectives) /\ Len(AfterTransfer) \in Nat
    /\ Together \in Seq(Collectives) /\ Len(Together) \in Nat
    /\ TransferTogether \in Seq(Collectives) /\ Len(TransferTogether) \in Nat
<1>1. << >> \in Seq(Collectives) /\ <<"Barrier">> \in Seq(Collectives) /\ <<"Allreduce">> \in Seq(Collectives)
  BY OpsType
<1>2. AfterCreate \in Seq(Collectives) /\ AfterTransfer \in Seq(Collectives)
  BY <1>1 DEF AfterCreate, AfterTransfer
<1>3. Together \in Seq(Collectives)
  BY <1>1 DEF Together
<1>4. TransferTogether \in Seq(Collectives)
  BY <1>1, <1>3 DEF TransferTogether
<1> QED
  BY <1>2, <1>3, <1>4

\* One or two operations after the same of all ranks, or of none.
LEMMA OpsBefore ==
    ASSUME NEW s \in Seq(Collectives), NEW a \in Collectives
    PROVE  /\ <<a>> \o s \in Seq(Collectives) /\ Len(<<a>> \o s) = Len(s) + 1
           /\ <<a, a>> \o s \in Seq(Collectives) /\ Len(<<a, a>> \o s) = Len(s) + 2
           /\ << >> \o s \in Seq(Collectives) /\ Len(<< >> \o s) = Len(s)
<1>1. <<a>> \in Seq(Collectives) /\ Len(<<a>>) = 1
  OBVIOUS
<1>2. <<a, a>> \in Seq(Collectives) /\ Len(<<a, a>>) = 2
  OBVIOUS
<1>3. << >> \in Seq(Collectives) /\ Len(<< >>) = 0
  OBVIOUS
<1> QED
  BY <1>1, <1>2, <1>3

\* The numbers of calls are numbers.
LEMMA SizeType ==
    /\ Opening \in Nat /\ Reopening \in Nat /\ Sizing \in Nat
    /\ ToCreate \in Nat \ {0} /\ ToWrite \in Nat /\ ToClose \in Nat /\ ToSize \in Nat
    /\ ToOpen \in Nat /\ ToRemove \in Nat
    /\ Optional(Shared) \in {0, 1} /\ Optional(job.destroy) \in {0, 1}
    /\ ToCreate <= ToWrite /\ ToWrite <= ToClose /\ ToClose < ToSize /\ ToSize < ToOpen /\ ToOpen < ToRemove
<1>1. /\ Len(AfterCreate) \in Nat /\ Len(AfterTransfer) \in Nat
      /\ Len(Together) \in Nat /\ Len(TransferTogether) \in Nat
  BY OpsOfJob
<1>2. Opening \in Nat /\ Reopening \in Nat /\ Sizing \in Nat
  BY <1>1 DEF Opening, Reopening, Sizing, Optional
<1>3. ToCreate \in Nat \ {0} /\ Optional(Shared) \in {0, 1} /\ Optional(job.destroy) \in {0, 1}
  BY DEF ToCreate, Optional
<1>4. ToWrite \in Nat /\ ToCreate <= ToWrite
  BY <1>1, <1>2, <1>3 DEF ToWrite
<1>5. ToClose \in Nat /\ ToWrite <= ToClose
  <2> DEFINE own == IF job.fsyncPerWrite THEN Len(Together) ELSE 0
  <2>1. own \in Nat
    BY <1>1
  <2>2. ToClose = ToWrite + Len(TransferTogether) + own
    BY DEF ToClose
  <2> HIDE DEF own
  <2> QED
    BY <1>1, <1>4, <2>1, <2>2
<1>6. ToSize \in Nat /\ ToClose < ToSize
  BY <1>1, <1>5 DEF ToSize
<1>7. ToOpen \in Nat /\ ToSize < ToOpen
  BY <1>2, <1>3, <1>6 DEF ToOpen
<1>8. ToRemove \in Nat /\ ToOpen < ToRemove
  BY <1>1, <1>2, <1>7 DEF ToRemove
<1> QED
  BY <1>2, <1>3, <1>4, <1>5, <1>6, <1>7, <1>8

\* They are so all the time.
LEMMA SameSizes ==
    ASSUME UNCHANGED job
    PROVE  Due' = Due /\ Reachable' = Reachable /\ Awaited' = Awaited
<1>1. (Dry' <=> Dry) /\ (Shared' <=> Shared)
  BY DEF Dry, Shared
<1>2. Opening' = Opening /\ Together' = Together
  BY <1>1 DEF Opening, Together, Optional
<1>3. TransferTogether' = TransferTogether /\ AfterCreate' = AfterCreate /\ AfterTransfer' = AfterTransfer
  BY <1>2 DEF TransferTogether, AfterCreate, AfterTransfer
<1>4. Reopening' = Reopening /\ Sizing' = Sizing
  BY <1>1, <1>2 DEF Reopening, Sizing, Optional
<1>5. ToCreate' = ToCreate /\ ToWrite' = ToWrite
  BY <1>2, <1>3 DEF ToCreate, ToWrite
<1>6. ToClose' = ToClose /\ ToSize' = ToSize
  BY <1>2, <1>3, <1>5 DEF ToClose, ToSize
<1>7. ToOpen' = ToOpen /\ ToRemove' = ToRemove
  BY <1>1, <1>2, <1>3, <1>4, <1>6 DEF ToOpen, ToRemove, Optional
<1> QED
  BY <1>1, <1>2, <1>3, <1>4, <1>5, <1>6, <1>7
     DEF Due, Reachable, Optional, Awaited, WriteWait, LateWait

\* What is due at each place.
LEMMA DueAt ==
    /\ Due["initialize"] = 0 /\ Due["remove_old"] = ToCreate - 1 /\ Due["create"] = ToCreate
    /\ Due["late_create"] = ToCreate + 1 /\ Due["write"] = ToWrite
    /\ Due["sync"] = ToWrite + Len(TransferTogether) /\ Due["close"] = ToClose
    /\ Due["size"] = ToSize /\ Due["reduce_size"] = ToSize + 1
    /\ Due["check_size"] = ToSize + Sizing /\ Due["checked"] = ToSize + Sizing + 1
    /\ Due["open"] = ToOpen /\ Due["read"] = ToOpen + Reopening
    /\ Due["close_read"] = ToOpen + Reopening + Len(TransferTogether)
    /\ Due["remove"] = ToRemove /\ Due["finalize"] = ToRemove + 1
    /\ Due["cont_close"] = ToRemove + 4 /\ Due["destroy"] = ToRemove + 5
    /\ Due["disconnect"] = ToRemove + 5 + Optional(job.destroy)
    /\ job.api = "DFS" => Due["done"] = ToRemove + 6 + Optional(job.destroy)
    /\ job.api # "DFS" => Due["done"] = ToRemove + 1
<1>1. Optional(job.destroy) \in {0, 1} /\ ToRemove \in Nat
  BY SizeType
<1>2. /\ job.api = "DFS" => Due["done"] = ToRemove + 6 + Optional(job.destroy)
      /\ job.api # "DFS" => Due["done"] = ToRemove + 1
  BY <1>1 DEF Due, Places
<1> QED
  BY <1>2 DEF Due, Places, DfsPlaces
----------------------------------------------------------------------------
(* The way of a rank: from a place, through some collectives, to the next.  *)

Way(from, ops, to) ==
    /\ ops \in Seq(Collectives) /\ to \in Reachable
    /\ Due[to] = Due[from] + Len(ops)
    /\ Awaited[to] # "none" => IF ops = << >> THEN Awaited[from] = Awaited[to]
                                ELSE ops[Len(ops)] = Awaited[to]
    /\ from \in Left => to \in Left
    /\ to \in Left => from \in Left \cup {"cont_close"} \/ job.api # "DFS"

\* Sequences of a few collectives.
LEMMA Few ==
    /\ << >> \in Seq(Collectives) /\ Len(<< >>) = 0
    /\ \A a \in Collectives : <<a>> \in Seq(Collectives) /\ Len(<<a>>) = 1 /\ <<a>>[1] = a
    /\ \A a, b \in Collectives : <<a, b>> \in Seq(Collectives) /\ Len(<<a, b>>) = 2 /\ <<a, b>>[2] = b
    /\ \A a, b, c \in Collectives :
          <<a, b, c>> \in Seq(Collectives) /\ Len(<<a, b, c>>) = 3 /\ <<a, b, c>>[3] = c
OBVIOUS

\* What comes after some collectives comes after all of them.
LEMMA Concat ==
    ASSUME NEW s \in Seq(Collectives), NEW t \in Seq(Collectives)
    PROVE  /\ s \o t \in Seq(Collectives) /\ Len(s \o t) = Len(s) + Len(t)
           /\ Len(t) > 0 => Len(s \o t) > 0 /\ (s \o t)[Len(s \o t)] = t[Len(t)]
OBVIOUS

\* What is called last before a place.
LEMMA AwaitedAt ==
    /\ \A place \in BarrierPlaces : Awaited[place] = "Barrier"
    /\ Awaited["write"] = WriteWait /\ Awaited["late_create"] = LateWait
    /\ \A place \in Places \ (BarrierPlaces \cup {"write", "late_create"}) : Awaited[place] = "none"
BY DEF Awaited, BarrierPlaces, Places, DfsPlaces

\* What makes a way.
LEMMA MakeAnyWay ==
    ASSUME NEW from, NEW to \in Reachable, NEW ops \in Seq(Collectives),
           Due[to] = Due[from] + Len(ops), to \notin {"write", "late_create"},
           to \in BarrierPlaces => Len(ops) > 0 /\ ops[Len(ops)] = "Barrier",
           from \in Left => to \in Left,
           to \in Left => from \in Left \cup {"cont_close"} \/ job.api # "DFS"
    PROVE  Way(from, ops, to)
<1>1. CASE to \in BarrierPlaces
  <2>1. Awaited[to] = "Barrier" /\ ops # << >>
    BY <1>1, AwaitedAt
  <2> QED
    BY <1>1, <2>1 DEF Way
<1>2. CASE to \notin BarrierPlaces
  <2>1. Awaited[to] = "none"
    BY <1>2, AwaitedAt DEF Reachable
  <2> QED
    BY <2>1 DEF Way
<1> QED
  BY <1>1, <1>2

\* What makes a way between places before DAOS is given up.
LEMMA MakeWay ==
    ASSUME NEW from, NEW to, NEW ops \in Seq(Collectives),
           from \notin Left, to \notin Left, to \in Reachable,
           Due[to] = Due[from] + Len(ops),
           to \notin {"write", "late_create"},
           to \in BarrierPlaces => Len(ops) > 0 /\ ops[Len(ops)] = "Barrier"
    PROVE  Way(from, ops, to)
BY MakeAnyWay

\* The same with a barrier as the last call.
LEMMA MakeBarrierWay ==
    ASSUME NEW from, NEW to, NEW s \in Seq(Collectives),
           from \notin Left, to \notin Left, to \in Reachable, Due[to] = Due[from] + (Len(s) + 1),
           to \notin {"write", "late_create"}
    PROVE  Way(from, s \o <<"Barrier">>, to)
<1> DEFINE ops == s \o <<"Barrier">>
<1>1. ops \in Seq(Collectives) /\ Len(ops) = Len(s) + 1 /\ ops[Len(s) + 1] = "Barrier" /\ ops # << >>
  BY BarrierLast
<1> HIDE DEF ops
<1>2. Len(ops) > 0
  BY <1>1
<1>3. Way(from, ops, to)
  BY <1>1, <1>2, MakeWay
<1> QED
  BY <1>3 DEF ops

\* Where barriers are, and which places any test may reach.
LEMMA Plain ==
    /\ \A place \in {"initialize", "remove_old", "late_create", "write", "sync", "close",
                     "reduce_size", "check_size", "checked", "read", "close_read"} :
          place \notin Left /\ place \notin BarrierPlaces
    /\ \A place \in {"create", "size", "open", "remove", "finalize", "cont_close"} : place \notin Left
    /\ \A place \in {"remove_old", "create", "write", "close", "size", "check_size", "checked",
                     "open", "read", "close_read", "remove", "done"} : place \in Reachable
    /\ job.api = "DFS" => \A place \in DfsPlaces : place \in Reachable
    /\ Opening > 0 /\ job.api # "DFS" => "late_create" \in Reachable
    /\ job.fsyncPerWrite => "sync" \in Reachable
    /\ job.api = "CEPHFS" => "reduce_size" \in Reachable
BY DEF Reachable, Places, DfsPlaces, BarrierPlaces, Left

\* Which backends wait while they open.
LEMMA OneToOpen == Opening = 1 => job.api \notin {"MPIIO", "DFS"} /\ Shared
BY DEF Opening

\* Those that broadcast their handle have two.
LEMMA TwoToOpen == Opening = 2 => job.api \in {"MPIIO", "DFS"} /\ Shared
BY DEF Opening, Optional

\* From the start to writing.
LEMMA WaysToWrite ==
    /\ job.api = "DFS" =>
          Way("initialize", Handle \o Handle \o Handle, "remove_old")
    /\ job.api # "DFS" => Way("initialize", << >>, "remove_old")
    /\ Way("remove_old", <<"Barrier">>, "create")
    /\ Opening = 0 => Way("create", AfterCreate, "write")
    /\ Opening = 1 => Way("create", <<"Barrier">> \o AfterCreate, "write")
    /\ Opening = 2 => Way("create", <<"Bcast", "Bcast">> \o AfterCreate, "write")
    /\ Opening > 0 /\ job.api # "DFS" => Way("create", <<LateWait>>, "late_create")
    /\ Opening = 1 => Way("late_create", AfterCreate, "write")
    /\ Opening = 2 => Way("late_create", <<"Bcast">> \o AfterCreate, "write")
<1>1. /\ Due["initialize"] = 0 /\ Due["remove_old"] = ToCreate - 1 /\ Due["create"] = ToCreate
      /\ Due["late_create"] = ToCreate + 1 /\ Due["write"] = ToCreate + Opening + Len(AfterCreate)
  BY DueAt DEF ToWrite
<1>2. ToCreate \in Nat /\ Opening \in Nat /\ AfterCreate \in Seq(Collectives) /\ Len(AfterCreate) \in Nat
  BY SizeType, OpsOfJob
<1>3. "Barrier" \in Collectives /\ "Bcast" \in Collectives
  BY OpsType
<1>4. ASSUME job.api = "DFS"
      PROVE  Way("initialize", Handle \o Handle \o Handle, "remove_old")
  <2>1. Handle \in Seq(Collectives) /\ Len(Handle) = 2
    BY <1>3, Few DEF Handle
  <2> DEFINE four == Handle \o Handle
             six == Handle \o Handle \o Handle
  <2>2. four \in Seq(Collectives) /\ Len(four) = 2 + 2
    <3>1. four \in Seq(Collectives) /\ Len(four) = Len(Handle) + Len(Handle)
      BY <2>1, Concat, Zenon
    <3> QED
      BY <2>1, <3>1
  <2>3. six = four \o Handle
    OBVIOUS
  <2> HIDE DEF Handle, four, six
  <2>4. six \in Seq(Collectives) /\ Len(six) = 6
    <3>1. six \in Seq(Collectives) /\ Len(six) = Len(four) + Len(Handle)
      BY <2>1, <2>2, <2>3, Concat, Zenon
    <3> QED
      BY <2>1, <2>2, <3>1
  <2>5. ToCreate = 7
    BY <1>4 DEF ToCreate
  <2>6. Due["remove_old"] = Due["initialize"] + Len(six)
    BY <1>1, <2>4, <2>5
  <2>7. Way("initialize", six, "remove_old")
    BY <2>4, <2>6, MakeWay, Plain
  <2> QED
    BY <2>7 DEF six
<1>5. ASSUME job.api # "DFS" PROVE Way("initialize", << >>, "remove_old")
  <2>1. Due["remove_old"] = Due["initialize"] + 0
    BY <1>1, <1>5 DEF ToCreate
  <2> QED
    BY <2>1, Few, MakeWay, Plain
<1>6. Way("remove_old", <<"Barrier">>, "create")
  <2>1. Due["create"] = Due["remove_old"] + 1
    BY <1>1, <1>2
  <2> DEFINE only == <<"Barrier">>
  <2>2. only \in Seq(Collectives) /\ Len(only) = 1 /\ only[Len(only)] = "Barrier"
    BY <1>3
  <2> HIDE DEF only
  <2>3. Due["create"] = Due["remove_old"] + Len(only) /\ Len(only) > 0
    BY <2>1, <2>2
  <2>4. Way("remove_old", only, "create")
    BY <2>2, <2>3, MakeWay, Plain
  <2> QED
    BY <2>4 DEF only
<1>7. ASSUME NEW s \in Seq(Collectives), NEW from \in {"create", "late_create"},
             Due["write"] = Due[from] + Len(s),
             WriteWait # "none" => IF s = << >> THEN Awaited[from] = WriteWait ELSE s[Len(s)] = WriteWait
      PROVE  Way(from, s, "write")
  <2>1. "write" \in Reachable /\ "write" \notin Left /\ from \notin Left
    BY Plain
  <2> QED
    BY <1>7, <2>1, AwaitedAt DEF Way
<1>8. /\ AfterCreate # << >> => AfterCreate[Len(AfterCreate)] = "Barrier" /\ WriteWait = "Barrier"
      /\ AfterCreate = << >> => ~job.intraTestBarriers
  BY DEF AfterCreate, WriteWait
<1>9. Opening = 0 => Way("create", AfterCreate, "write")
  <2>1. Opening = 0 => Due["write"] = Due["create"] + Len(AfterCreate)
    BY <1>1, <1>2
  <2>2. Opening = 0 /\ AfterCreate = << >> => WriteWait = "none"
    BY <1>8 DEF WriteWait
  <2> QED
    BY <1>2, <1>7, <1>8, <2>1, <2>2
<1>10. Opening = 1 => Way("late_create", AfterCreate, "write")
  <2>1. Opening = 1 => Due["write"] = Due["late_create"] + Len(AfterCreate)
    BY <1>1, <1>2
  <2>2. Opening = 1 /\ AfterCreate = << >> => WriteWait = Awaited["late_create"]
    <3>1. Opening = 1 => job.api \notin {"MPIIO", "DFS"}
      BY OneToOpen
    <3> QED
      BY <1>8, <3>1, AwaitedAt DEF WriteWait, LateWait
  <2> QED
    BY <1>2, <1>7, <1>8, <2>1, <2>2
<1>11. ASSUME NEW op \in Collectives, NEW s \in {<<op>>, <<op, op>>}, NEW from \in {"create", "late_create"},
              Due["write"] = Due[from] + (Len(s) + Len(AfterCreate)),
              WriteWait = IF job.intraTestBarriers THEN "Barrier" ELSE op
       PROVE  Way(from, s \o AfterCreate, "write")
  <2> DEFINE ops == s \o AfterCreate
  <2>1. /\ s \in Seq(Collectives) /\ Len(s) \in {1, 2} /\ s[Len(s)] = op
    <3>1. CASE s = <<op>>
      BY <3>1, Few
    <3>2. CASE s = <<op, op>>
      BY <3>2, Few
    <3> QED
      BY <3>1, <3>2
  <2>2. ops \in Seq(Collectives) /\ Len(ops) = Len(s) + Len(AfterCreate)
    BY <1>2, <2>1, Concat, Zenon
  <2>3. IF job.intraTestBarriers THEN ops[Len(ops)] = "Barrier" ELSE ops[Len(ops)] = op
    <3>1. CASE job.intraTestBarriers
      <4>1. AfterCreate = <<"Barrier">>
        BY <3>1 DEF AfterCreate
      <4>2. Len(AfterCreate) > 0 /\ AfterCreate[Len(AfterCreate)] = "Barrier"
        BY <4>1
      <4>3. ops[Len(ops)] = AfterCreate[Len(AfterCreate)]
        BY <1>2, <2>1, <4>2, Concat, Zenon
      <4> QED
        BY <3>1, <4>2, <4>3
    <3>2. CASE ~job.intraTestBarriers
      <4>1. AfterCreate = << >>
        BY <3>2 DEF AfterCreate
      <4>2. ops = s
        BY <2>1, <4>1
      <4> QED
        BY <2>1, <3>2, <4>2
    <3> QED
      BY <3>1, <3>2
  <2>4. ops # << >>
    <3>1. Len(ops) # 0
      BY <1>2, <2>1, <2>2
    <3> QED
      BY <3>1
  <2> HIDE DEF ops
  <2>5. Due["write"] = Due[from] + Len(ops)
    BY <1>11, <2>2
  <2>6. ops[Len(ops)] = WriteWait
    BY <1>11, <2>3
  <2>7. Way(from, ops, "write")
    BY <1>7, <2>2, <2>4, <2>5, <2>6
  <2> QED
    BY <2>7 DEF ops
<1>12. Opening = 1 => Way("create", <<"Barrier">> \o AfterCreate, "write")
  <2> SUFFICES ASSUME Opening = 1 PROVE Way("create", <<"Barrier">> \o AfterCreate, "write")
    OBVIOUS
  <2>1. WriteWait = "Barrier"
    BY OneToOpen DEF WriteWait
  <2>2. Due["write"] = Due["create"] + (1 + Len(AfterCreate))
    BY <1>1, <1>2
  <2>3. Due["write"] = Due["create"] + (Len(<<"Barrier">>) + Len(AfterCreate))
    BY <2>2
  <2> QED
    BY <1>3, <1>11, <2>1, <2>3
<1>13. Opening = 2 => Way("create", <<"Bcast", "Bcast">> \o AfterCreate, "write")
  <2> SUFFICES ASSUME Opening = 2 PROVE Way("create", <<"Bcast", "Bcast">> \o AfterCreate, "write")
    OBVIOUS
  <2>1. WriteWait = IF job.intraTestBarriers THEN "Barrier" ELSE "Bcast"
    BY TwoToOpen DEF WriteWait
  <2>2. Due["write"] = Due["create"] + (2 + Len(AfterCreate))
    BY <1>1, <1>2
  <2>3. Due["write"] = Due["create"] + (Len(<<"Bcast", "Bcast">>) + Len(AfterCreate))
    BY <2>2
  <2> QED
    BY <1>3, <1>11, <2>1, <2>3
<1>14. Opening = 2 => Way("late_create", <<"Bcast">> \o AfterCreate, "write")
  <2> SUFFICES ASSUME Opening = 2 PROVE Way("late_create", <<"Bcast">> \o AfterCreate, "write")
    OBVIOUS
  <2>1. WriteWait = IF job.intraTestBarriers THEN "Barrier" ELSE "Bcast"
    BY TwoToOpen DEF WriteWait
  <2>2. Due["write"] = Due["late_create"] + (1 + Len(AfterCreate))
    BY <1>1, <1>2
  <2>3. Due["write"] = Due["late_create"] + (Len(<<"Bcast">>) + Len(AfterCreate))
    BY <2>2
  <2> QED
    BY <1>3, <1>11, <2>1, <2>3
<1>15. Opening > 0 /\ job.api # "DFS" => Way("create", <<LateWait>>, "late_create")
  <2> SUFFICES ASSUME Opening > 0, job.api # "DFS" PROVE Way("create", <<LateWait>>, "late_create")
    OBVIOUS
  <2> DEFINE only == <<LateWait>>
  <2>1. LateWait \in Collectives
    BY OpsType DEF LateWait
  <2>2. only \in Seq(Collectives) /\ Len(only) = 1 /\ only[Len(only)] = LateWait /\ only # << >>
    BY <2>1, Few
  <2> HIDE DEF only
  <2>3. Due["late_create"] = Due["create"] + Len(only)
    BY <1>1, <2>2
  <2>4. "late_create" \in Reachable /\ "late_create" \notin Left /\ "create" \notin Left
    BY Plain
  <2>5. Way("create", only, "late_create")
    BY <2>2, <2>3, <2>4, AwaitedAt DEF Way
  <2> QED
    BY <2>5 DEF only
<1> QED
  BY <1>4, <1>5, <1>6, <1>9, <1>10, <1>12, <1>13, <1>14, <1>15

\* From writing to the size of the file.
LEMMA WaysToSize ==
    /\ Way("write", TransferTogether, IF job.fsyncPerWrite THEN "sync" ELSE "close")
    /\ job.fsyncPerWrite => Way("sync", Together, "close")
    /\ Way("close", AfterTransfer \o Together \o <<"Barrier">>, "size")
<1>1. /\ Due["write"] = ToWrite /\ Due["sync"] = ToWrite + Len(TransferTogether)
      /\ Due["close"] = ToClose /\ Due["size"] = ToSize
  BY DueAt
<1>2. /\ Together \in Seq(Collectives) /\ TransferTogether \in Seq(Collectives)
      /\ AfterTransfer \in Seq(Collectives)
  BY OpsOfJob
<1>3. Len(Together) \in Nat /\ Len(TransferTogether) \in Nat /\ Len(AfterTransfer) \in Nat
  BY OpsOfJob
<1>4. ToWrite \in Nat /\ ToClose \in Nat
  BY SizeType
<1>5. ASSUME job.fsyncPerWrite
      PROVE  Way("write", TransferTogether, "sync") /\ Way("sync", Together, "close")
  <2>1. ToClose = ToWrite + Len(TransferTogether) + Len(Together)
    BY <1>5 DEF ToClose
  <2>2. Due["sync"] = Due["write"] + Len(TransferTogether)
    BY <1>1
  <2>3. Due["close"] = Due["sync"] + Len(Together)
    BY <1>1, <2>1
  <2> QED
    BY <1>2, <1>5, <2>2, <2>3, MakeWay, Plain
<1>6. ASSUME ~job.fsyncPerWrite PROVE Way("write", TransferTogether, "close")
  <2>1. ToClose = ToWrite + Len(TransferTogether) + 0
    BY <1>6 DEF ToClose
  <2>2. Due["close"] = Due["write"] + Len(TransferTogether)
    BY <1>1, <1>3, <1>4, <2>1
  <2> QED
    BY <1>2, <1>6, <2>2, MakeWay, Plain
<1>7. Way("close", AfterTransfer \o Together \o <<"Barrier">>, "size")
  <2> DEFINE s == AfterTransfer \o Together
  <2>1. s \in Seq(Collectives) /\ Len(s) = Len(AfterTransfer) + Len(Together)
    BY <1>2, Concat, Zenon
  <2>2. AfterTransfer \o Together \o <<"Barrier">> = s \o <<"Barrier">>
    OBVIOUS
  <2> HIDE DEF s
  <2>3. ToSize = ToClose + Len(AfterTransfer) + Len(Together) + 1
    BY DEF ToSize
  <2>4. Due["size"] = Due["close"] + (Len(s) + 1)
    BY <1>1, <1>3, <1>4, <2>1, <2>3
  <2>5. Way("close", s \o <<"Barrier">>, "size")
    BY <2>1, <2>4, MakeBarrierWay, Plain
  <2> QED
    BY <2>2, <2>5
<1> QED
  BY <1>5, <1>6, <1>7

\* From the size of the file to reading it.
LEMMA WaysToOpen ==
    /\ job.api = "MPIIO" => Way("size", IF Dry THEN << >> ELSE OnTestComm(<<"Bcast">>), "check_size")
    /\ job.api = "DFS" => Way("size", OnTestComm(<<"Bcast">>), "check_size")
    /\ job.api \notin {"MPIIO", "DFS", "CEPHFS"} => Way("size", << >>, "check_size")
    /\ job.api = "CEPHFS" => Way("reduce_size", OnTestComm(<<"Allreduce">>), "check_size")
    /\ Way("checked", OnTestComm(<<"Allreduce">>) \o <<"Allreduce", "Barrier">>, "open")
<1>1. /\ Due["size"] = ToSize /\ Due["reduce_size"] = ToSize + 1
      /\ Due["check_size"] = ToSize + Sizing /\ Due["checked"] = ToSize + Sizing + 1
      /\ Due["open"] = ToOpen
  BY DueAt
<1>2. ToSize \in Nat /\ Sizing \in Nat /\ Optional(Shared) \in Nat
  BY SizeType
<1>3. ASSUME NEW op \in {"Bcast", "Allreduce"}
      PROVE  OnTestComm(<<op>>) \in Seq(Collectives) /\ Len(OnTestComm(<<op>>)) = Optional(Shared)
  BY OpsType, Few DEF OnTestComm, Optional, Shared
<1>4. ASSUME job.api = "MPIIO"
      PROVE  Way("size", IF Dry THEN << >> ELSE OnTestComm(<<"Bcast">>), "check_size")
  <2> DEFINE ops == IF Dry THEN << >> ELSE OnTestComm(<<"Bcast">>)
  <2>1. ops \in Seq(Collectives) /\ Len(ops) = Sizing
    <3>1. CASE Dry
      BY <1>4, <3>1, Few DEF Sizing, Optional
    <3>2. CASE ~Dry
      <4>1. Sizing = Optional(Shared)
        BY <1>4, <3>2 DEF Sizing, Optional
      <4> QED
        BY <1>3, <3>2, <4>1
    <3> QED
      BY <3>1, <3>2
  <2> HIDE DEF ops
  <2>2. Due["check_size"] = Due["size"] + Len(ops)
    BY <1>1, <2>1
  <2>3. Way("size", ops, "check_size")
    BY <2>1, <2>2, MakeWay, Plain
  <2> QED
    BY <2>3 DEF ops
<1>5. ASSUME job.api = "DFS" PROVE Way("size", OnTestComm(<<"Bcast">>), "check_size")
  <2>1. Sizing = Optional(Shared)
    BY <1>5 DEF Sizing
  <2>2. Due["check_size"] = Due["size"] + Len(OnTestComm(<<"Bcast">>))
    BY <1>1, <1>3, <2>1
  <2> QED
    BY <1>3, <2>2, MakeWay, Plain
<1>6. ASSUME job.api \notin {"MPIIO", "DFS", "CEPHFS"} PROVE Way("size", << >>, "check_size")
  <2>1. Sizing = 0
    BY <1>6 DEF Sizing
  <2>2. Due["check_size"] = Due["size"] + 0
    BY <1>1, <2>1
  <2> QED
    BY <2>2, Few, MakeWay, Plain
<1>7. ASSUME job.api = "CEPHFS" PROVE Way("reduce_size", OnTestComm(<<"Allreduce">>), "check_size")
  <2>1. Sizing = 1 + Optional(Shared)
    BY <1>7 DEF Sizing
  <2>2. Due["check_size"] = Due["reduce_size"] + Optional(Shared)
    BY <1>1, <1>2, <2>1
  <2>3. Due["check_size"] = Due["reduce_size"] + Len(OnTestComm(<<"Allreduce">>))
    BY <1>3, <2>2
  <2> QED
    BY <1>3, <2>3, MakeWay, Plain
<1>8. Way("checked", OnTestComm(<<"Allreduce">>) \o <<"Allreduce", "Barrier">>, "open")
  <2> DEFINE first == OnTestComm(<<"Allreduce">>)
             rest == <<"Allreduce", "Barrier">>
             ops == first \o rest
  <2>1. first \in Seq(Collectives) /\ Len(first) = Optional(Shared)
    BY <1>3
  <2>2. rest \in Seq(Collectives) /\ Len(rest) = 2 /\ rest[Len(rest)] = "Barrier"
    BY OpsType, Few
  <2> HIDE DEF first, rest
  <2>3. Len(rest) > 0
    BY <2>2
  <2>4. /\ ops \in Seq(Collectives) /\ Len(ops) = Len(first) + Len(rest)
        /\ Len(ops) > 0 /\ ops[Len(ops)] = "Barrier"
    BY <2>1, <2>2, <2>3, Concat, Zenon
  <2> HIDE DEF ops
  <2>5. ToOpen = ToSize + Sizing + Optional(Shared) + 3
    BY DEF ToOpen
  <2>6. Due["open"] = Due["checked"] + Len(ops)
    BY <1>1, <1>2, <2>1, <2>2, <2>4, <2>5
  <2>7. Way("checked", ops, "open")
    BY <2>4, <2>6, MakeWay, Plain
  <2> QED
    BY <2>7 DEF ops, first, rest
<1> QED
  BY <1>4, <1>5, <1>6, <1>7, <1>8

\* From reading to the end of the test, and what DAOS does after it.
LEMMA WaysToEnd ==
    /\ Way("open", Reopened, "read")
    /\ Way("read", TransferTogether, "close_read")
    /\ Way("close_read", Together \o <<"Barrier">>, "remove")
    /\ Way("remove", <<"Barrier">>, IF job.api = "DFS" THEN "finalize" ELSE "done")
    /\ job.api = "DFS" =>
          /\ Way("finalize", <<"Barrier", "Barrier", "Barrier">>, "cont_close")
          /\ Way("cont_close", <<"Barrier">>, "destroy")
          /\ Way("destroy", IF job.destroy THEN <<"Bcast">> ELSE << >>, "disconnect")
          /\ Way("disconnect", <<"Barrier">>, "done")
<1>1. /\ Due["open"] = ToOpen /\ Due["read"] = ToOpen + Reopening
      /\ Due["close_read"] = ToOpen + Reopening + Len(TransferTogether)
      /\ Due["remove"] = ToRemove /\ Due["finalize"] = ToRemove + 1
      /\ Due["cont_close"] = ToRemove + 4 /\ Due["destroy"] = ToRemove + 5
      /\ Due["disconnect"] = ToRemove + 5 + Optional(job.destroy)
      /\ job.api = "DFS" => Due["done"] = ToRemove + 6 + Optional(job.destroy)
      /\ job.api # "DFS" => Due["done"] = ToRemove + 1
  BY DueAt
<1>2. ToOpen \in Nat /\ Reopening \in Nat /\ ToRemove \in Nat /\ Optional(job.destroy) \in Nat
  BY SizeType
<1>3. Together \in Seq(Collectives) /\ TransferTogether \in Seq(Collectives)
  BY OpsOfJob
<1>4. Len(Together) \in Nat /\ Len(TransferTogether) \in Nat
  BY OpsOfJob
<1> DEFINE only == <<"Barrier">>
<1>5. only \in Seq(Collectives) /\ Len(only) = 1 /\ only[Len(only)] = "Barrier"
  BY OpsType, Few
<1> HIDE DEF only
<1>6. Len(only) > 0
  BY <1>5
<1>7. Way("open", Reopened, "read")
  <2>1. Reopened \in Seq(Collectives) /\ Len(Reopened) = Reopening
    <3>1. CASE job.api = "MPIIO"
      BY <1>3, <3>1 DEF Reopened, Reopening
    <3>2. CASE job.api = "DFS" /\ Shared
      BY OpsType, Few, <3>2 DEF Reopened, Reopening, Handle, OnTestComm, Shared
    <3>3. CASE job.api = "DFS" /\ ~Shared
      BY Few, <3>3 DEF Reopened, Reopening, Handle, OnTestComm, Shared
    <3>4. CASE job.api \notin {"MPIIO", "DFS"}
      BY Few, <3>4 DEF Reopened, Reopening
    <3> QED
      BY <3>1, <3>2, <3>3, <3>4
  <2>2. Due["read"] = Due["open"] + Len(Reopened)
    BY <1>1, <2>1
  <2> QED
    BY <2>1, <2>2, MakeWay, Plain
<1>8. Way("read", TransferTogether, "close_read")
  <2>1. Due["close_read"] = Due["read"] + Len(TransferTogether)
    BY <1>1
  <2> QED
    BY <1>3, <2>1, MakeWay, Plain
<1>9. Way("close_read", Together \o <<"Barrier">>, "remove")
  <2>1. ToRemove = ToOpen + Reopening + Len(TransferTogether) + Len(Together) + 1
    BY DEF ToRemove
  <2>2. Due["remove"] = Due["close_read"] + (Len(Together) + 1)
    BY <1>1, <1>2, <1>4, <2>1
  <2> QED
    BY <1>3, <2>2, MakeBarrierWay, Plain
<1>10. job.api = "DFS" => Way("remove", only, "finalize")
  <2>1. Due["finalize"] = Due["remove"] + Len(only)
    BY <1>1, <1>5
  <2> QED
    BY <1>5, <1>6, <2>1, MakeWay, Plain DEF DfsPlaces
<1>11. job.api # "DFS" => Way("remove", only, "done")
  <2>1. job.api # "DFS" => Due["done"] = Due["remove"] + Len(only)
    BY <1>1, <1>5
  <2>2. "remove" \notin Left /\ "done" \in Reachable
    BY Plain
  <2> QED
    BY <1>5, <1>6, <2>1, <2>2, MakeAnyWay
<1>12. ASSUME job.api = "DFS"
       PROVE  /\ Way("finalize", <<"Barrier", "Barrier", "Barrier">>, "cont_close")
              /\ Way("cont_close", only, "destroy")
              /\ Way("destroy", IF job.destroy THEN <<"Bcast">> ELSE << >>, "disconnect")
              /\ Way("disconnect", only, "done")
  <2> DEFINE three == <<"Barrier", "Barrier", "Barrier">>
             destroying == IF job.destroy THEN <<"Bcast">> ELSE << >>
  <2>1. three \in Seq(Collectives) /\ Len(three) = 3 /\ three[Len(three)] = "Barrier"
    BY OpsType, Few
  <2>2. destroying \in Seq(Collectives) /\ Len(destroying) = Optional(job.destroy)
    BY OpsType, Few DEF Optional
  <2> HIDE DEF three, destroying
  <2>3. Due["cont_close"] = Due["finalize"] + Len(three) /\ Len(three) > 0
    BY <1>1, <1>2, <2>1
  <2>4. Due["destroy"] = Due["cont_close"] + Len(only)
    BY <1>1, <1>2, <1>5
  <2>5. Due["disconnect"] = Due["destroy"] + Len(destroying)
    BY <1>1, <2>2
  <2>6. Due["done"] = Due["disconnect"] + Len(only)
    BY <1>1, <1>2, <1>5, <1>12
  <2>7. \A place \in DfsPlaces \cup {"done"} : place \in Reachable
    BY <1>12, Plain
  <2>8. Way("finalize", three, "cont_close")
    BY <2>1, <2>3, <2>7, MakeWay, Plain DEF DfsPlaces
  <2>9. Way("cont_close", only, "destroy")
    BY <1>5, <1>6, <2>4, <2>7, MakeAnyWay DEF DfsPlaces, Left
  <2>10. Way("destroy", destroying, "disconnect")
    <3>1. "disconnect" \notin BarrierPlaces /\ "disconnect" \in Left /\ "destroy" \in Left
      BY DEF BarrierPlaces, Left
    <3> QED
      BY <2>2, <2>5, <2>7, <3>1, MakeAnyWay DEF DfsPlaces
  <2>11. Way("disconnect", only, "done")
    BY <1>5, <1>6, <2>6, <2>7, MakeAnyWay DEF Left
  <2> QED
    BY <2>8, <2>9, <2>10, <2>11 DEF three, destroying
<1> QED
  BY <1>7, <1>8, <1>9, <1>10, <1>11, <1>12 DEF only
----------------------------------------------------------------------------
(* What a step does: it gives up or tries again, or it goes on.            *)

Stays == UNCHANGED <<at, ahead, calls>>
Walks(r) == \E ops \in Seq(Collectives), to \in Places : Way(at[r], ops, to) /\ GoAfter(r, ops, to)
Sends(r) ==
    /\ \E value : Send(r, "Allreduce", value)
    /\ \E to \in Places : /\ Awaited[to] = "none" /\ to \notin Left /\ at[r] \notin Left
                          /\ to \in Reachable /\ Due[to] = Due[at[r]] + 1 /\ Go(r, to)
    /\ UNCHANGED ahead

\* A way that is taken.
LEMMA TakeWay ==
    ASSUME NEW r \in Ranks, NEW ops, NEW from, NEW to, at[r] = from, Way(from, ops, to), GoAfter(r, ops, to)
    PROVE  Walks(r)
BY DEF Walks, Way, Reachable

\* Creating, whichever backend does it.
LEMMA CreateGoesOn ==
    ASSUME Answers, NEW r \in Ranks, create(r)
    PROVE  Stays \/ Walks(r)
<1>1. at[r] = "create"
  BY DEF create, At
<1>2. "Barrier" \in Collectives /\ "Bcast" \in Collectives /\ "Allreduce" \in Collectives
  BY OpsType
<1>3. AfterCreate \in Seq(Collectives) /\ << >> \o AfterCreate = AfterCreate
  <2>1. AfterCreate \in Seq(Collectives)
    BY OpsOfJob
  <2> QED
    BY <2>1
<1>4. ASSUME CannotCreate PROVE Stays
  BY <1>4 DEF CannotCreate, ERR, Stays
<1>5. ASSUME NEW newFiles, Created(r, newFiles), Opening = 0 PROVE Walks(r)
  BY <1>1, <1>5, WaysToWrite, TakeWay DEF Created
<1>6. ASSUME NEW newFiles, CreatedFirst(r, newFiles, <<"Barrier">>), Opening = 1
      PROVE  Walks(r)
  BY <1>1, <1>6, WaysToWrite, TakeWay DEF CreatedFirst
<1>7. ASSUME NEW newFiles, CreatedFirst(r, newFiles, <<"Bcast", "Bcast">>), Opening = 2
      PROVE  Walks(r)
  BY <1>1, <1>7, WaysToWrite, TakeWay DEF CreatedFirst
<1>8. ASSUME NEW newFiles, CreatedFirst(r, newFiles, << >>), Opening = 0 PROVE Walks(r)
  BY <1>1, <1>3, <1>8, WaysToWrite, TakeWay DEF CreatedFirst
<1>9. ASSUME GoAfter(r, <<LateWait>>, "late_create"), Opening > 0, job.api # "DFS"
      PROVE  Walks(r)
  BY <1>1, <1>9, WaysToWrite, TakeWay
<1>10. ASSUME ~Shared PROVE Opening = 0
  BY <1>10 DEF Opening
<1>11. ASSUME job.api \notin {"MPIIO", "DFS", "HDFS", "POSIX"} PROVE Opening = 0
  BY <1>11 DEF Opening
<1>12. ASSUME job.api = "POSIX", POSIX_Create(r) PROVE Stays \/ Walks(r)
  <2>1. CASE ~job.striping
    <3>1. Opening = 0 /\ Created(r, Made(FileOf(r)))
      BY <1>12, <2>1 DEF Opening, Optional, POSIX_Create
    <3> QED
      BY <1>5, <3>1
  <2>2. CASE job.striping /\ job.filePerProc
    <3>1. OnTestComm(<<"Barrier">>) = << >> /\ Opening = 0
      BY <1>10, <2>2 DEF OnTestComm, Shared
    <3>2. CannotCreate \/ CreatedFirst(r, Made(FileOf(r)), << >>)
      BY <1>12, <2>2, <3>1 DEF POSIX_Create
    <3> QED
      BY <1>4, <1>8, <3>1, <3>2
  <2>3. CASE job.striping /\ ~job.filePerProc /\ r = 0
    <3>1. OnTestComm(<<"Barrier">>) = <<"Barrier">> /\ Opening = 1
      BY <1>12, <2>3 DEF OnTestComm, Shared, Opening, Optional
    <3>2. CannotCreate \/ CreatedFirst(r, Made(FileOf(r)), <<"Barrier">>)
      BY <1>12, <2>3, <3>1 DEF POSIX_Create
    <3> QED
      BY <1>2, <1>4, <1>6, <3>1, <3>2
  <2>4. CASE job.striping /\ ~job.filePerProc /\ r # 0
    <3>1. Opening = 1 /\ job.api # "DFS"
      BY <1>12, <2>4 DEF Shared, Opening, Optional
    <3>2. GoAfter(r, <<LateWait>>, "late_create")
      BY <1>12, <2>4 DEF POSIX_Create, CreateLater, LateWait
    <3>3. Opening > 0
      BY <3>1
    <3> QED
      BY <1>2, <1>9, <3>1, <3>2, <3>3
  <2> QED
    BY <2>1, <2>2, <2>3, <2>4
<1>13. ASSUME job.api = "MPIIO", MPIIO_Open(r) PROVE Stays \/ Walks(r)
  <2>1. CASE Dry
    <3>1. Opening = 0 /\ Created(r, files)
      BY <1>13, <2>1 DEF Opening, MPIIO_Open
    <3> QED
      BY <1>5, <3>1
  <2>2. CASE ~Dry /\ job.filePerProc
    <3>1. Opening = 0 /\ Created(r, Truncated(r))
      BY <1>10, <1>13, <2>2 DEF Shared, MPIIO_Open
    <3> QED
      BY <1>5, <3>1
  <2>3. CASE ~Dry /\ ~job.filePerProc
    <3>1. Opening = 2 /\ job.api # "DFS"
      BY <1>13, <2>3 DEF Shared, Opening
    <3>2. GoAfter(r, <<LateWait>>, "late_create")
      BY <1>13, <2>3 DEF MPIIO_Open, LateWait
    <3>3. Opening > 0
      BY <3>1
    <3> QED
      BY <1>2, <1>9, <3>1, <3>2, <3>3
  <2> QED
    BY <2>1, <2>2, <2>3
<1>14. ASSUME job.api = "HDFS", HDFS_Create_Or_Open(r) PROVE Stays \/ Walks(r)
  <2>1. CASE job.filePerProc
    <3>1. Opening = 0 /\ Created(r, Truncated(r))
      BY <1>10, <1>14, <2>1 DEF Shared, HDFS_Create_Or_Open
    <3> QED
      BY <1>5, <3>1
  <2>2. CASE ~job.filePerProc
    <3>1. Opening = 1 /\ job.api # "DFS"
      BY <1>14, <2>2 DEF Shared, Opening
    <3>2. \/ CreatedFirst(r, Truncated(0), <<"Barrier">>)
          \/ GoAfter(r, <<LateWait>>, "late_create")
      BY <1>14, <2>2 DEF HDFS_Create_Or_Open, CreateLater, LateWait
    <3>3. Opening > 0
      BY <3>1
    <3> QED
      BY <1>2, <1>6, <1>9, <3>1, <3>2, <3>3
  <2> QED
    BY <2>1, <2>2
<1>15. ASSUME job.api = "DFS", DFS_Create(r) PROVE Stays \/ Walks(r)
  <2>0. CannotCreate \/ \E newFiles : CreatedFirst(r, newFiles, OnTestComm(Handle))
    BY <1>15, HandlesAreShared DEF DFS_Create
  <2>1. CASE job.filePerProc
    <3>1. Opening = 0 /\ OnTestComm(Handle) = << >>
      BY <1>10, <2>1 DEF Shared, OnTestComm
    <3> QED
      BY <1>4, <1>8, <2>0, <3>1
  <2>2. CASE ~job.filePerProc
    <3>1. Opening = 2 /\ OnTestComm(Handle) = <<"Bcast", "Bcast">>
      BY <1>15, <2>2 DEF Shared, Opening, OnTestComm, Handle
    <3> QED
      BY <1>2, <1>4, <1>7, <2>0, <3>1
  <2> QED
    BY <2>1, <2>2
<1>16. ASSUME job.api \notin {"MPIIO", "DFS", "HDFS", "POSIX"},
              CannotCreate \/ \E newFiles : Created(r, newFiles)
       PROVE  Stays \/ Walks(r)
  BY <1>4, <1>5, <1>11, <1>16
<1>17. \/ CannotCreate
       \/ job.api = "POSIX" /\ POSIX_Create(r)
       \/ job.api = "MPIIO" /\ MPIIO_Open(r)
       \/ job.api = "HDFS" /\ HDFS_Create_Or_Open(r)
       \/ job.api = "DFS" /\ DFS_Create(r)
       \/ /\ job.api \notin {"MPIIO", "DFS", "HDFS", "POSIX"}
          /\ CannotCreate \/ \E newFiles : Created(r, newFiles)
  BY DEF create, MMAP_Create, IME_Open, CEPHFS_Open, S3_Create, Gfarm_create, CHFS_create,
         FINCHFS_create, RADOS_Create_Or_Open, PMDK_Create, DUMMY_Create
<1> QED
  BY <1>4, <1>12, <1>13, <1>14, <1>15, <1>16, <1>17

\* The same of what is left to do after the first collective.
LEMMA LateCreateGoesOn ==
    ASSUME NEW r \in Ranks, LateCreate(r), at[r] \in Reachable
    PROVE  Stays \/ Walks(r)
<1>1. at[r] = "late_create" /\ Opening > 0 /\ "Bcast" \in Collectives
  BY OpsType DEF LateCreate, At, Reachable
<1>2. ~job.filePerProc
  <2>1. CASE job.filePerProc
    <3>1. Opening = 0
      BY <2>1 DEF Opening, Shared
    <3> QED
      BY <1>1, <3>1
  <2> QED
    BY <2>1
<1>3. CASE job.api = "MPIIO"
  <2>1. CASE Dry
    <3>1. Opening = 0
      BY <1>3, <2>1 DEF Opening
    <3> QED
      BY <1>1, <3>1
  <2>2. CASE ~Dry
    <3>1. Opening = 2
      BY <1>2, <1>3, <2>2 DEF Opening, Shared
    <3>2. GoAfter(r, <<"Bcast">> \o AfterCreate, "write")
      BY <1>3 DEF LateCreate, CreatedFirst
    <3> QED
      BY <1>1, <3>1, <3>2, WaysToWrite, TakeWay
  <2> QED
    BY <2>1, <2>2
<1>4. CASE job.api = "HDFS"
  <2>1. Opening = 1
    BY <1>2, <1>4 DEF Opening, Shared
  <2>2. GoAfter(r, AfterCreate, "write")
    BY <1>4 DEF LateCreate, Created
  <2> QED
    BY <1>1, <2>1, <2>2, WaysToWrite, TakeWay
<1>5. CASE job.api = "POSIX"
  <2>1. Opening = 1
    <3>1. Opening = Optional(job.striping)
      BY <1>2, <1>5 DEF Opening, Shared
    <3> QED
      BY <1>1, <3>1 DEF Optional
  <2>2. Stays \/ GoAfter(r, AfterCreate, "write")
    BY <1>5 DEF LateCreate, Created, CannotCreate, ERR, Stays
  <2> QED
    BY <1>1, <2>1, <2>2, WaysToWrite, TakeWay
<1> QED
  BY <1>3, <1>4, <1>5 DEF LateCreate

\* A transfer is tried again, it ends the program, or it is over.
LEMMA MoveGoesOn ==
    ASSUME NEW r \in Ranks, NEW access, NEW next, Move(r, access, next)
    PROVE  Stays \/ GoAfter(r, TransferTogether, next)
BY DEF Move, ERR, Stays

\* Without a transfer there is nothing collective about it.
LEMMA DryTransfers == Dry => TransferTogether = << >>
BY DEF TransferTogether, Together

\* Every step of a rank that is not inside a collective, nor has one ahead.
LEMMA Steps ==
    ASSUME Answers, NEW r \in Ranks, RankNext(r), at[r] \in Reachable
    PROVE  Collective(r) \/ (ahead[r] = << >> /\ Ready(r) /\ (Stays \/ Walks(r) \/ Sends(r)))
<1>1. CASE initialize(r)
  <2>1. /\ at[r] = "initialize" /\ ahead[r] = << >> /\ Ready(r)
        /\ GoAfter(r, IF job.api = "DFS" THEN Handle \o Handle \o Handle ELSE << >>, "remove_old")
    BY <1>1, HandlesAreShared DEF initialize, DFS_Init, At
  <2> QED
    BY <2>1, WaysToWrite, TakeWay
<1>2. CASE RemoveOld(r)
  BY <1>2, WaysToWrite, TakeWay DEF RemoveOld, At
<1>3. CASE create(r)
  BY <1>3, CreateGoesOn DEF create, At
<1>4. CASE LateCreate(r)
  BY <1>4, LateCreateGoesOn DEF LateCreate, At
<1>5. CASE write(r)
  <2> DEFINE next == IF job.fsyncPerWrite THEN "sync" ELSE "close"
  <2>1. at[r] = "write" /\ ahead[r] = << >> /\ Ready(r)
    BY <1>5 DEF write, At
  <2>2. Stays \/ GoAfter(r, TransferTogether, next)
    BY <1>5, MoveGoesOn, DryTransfers DEF write
  <2> QED
    BY <2>1, <2>2, WaysToSize, TakeWay
<1>6. CASE fsync(r)
  BY <1>6, WaysToSize, TakeWay DEF fsync, At, Reachable
<1>7. CASE close(r)
  BY <1>7, WaysToSize, TakeWay DEF close, At
<1>8. CASE GetFileSize(r)
  <2>1. at[r] = "size" /\ ahead[r] = << >> /\ Ready(r)
    BY <1>8 DEF GetFileSize, At
  <2>2. CASE job.api = "MPIIO" /\ MPIIO_GetFileSize(r)
    <3>1. GoAfter(r, IF Dry THEN << >> ELSE OnTestComm(<<"Bcast">>), "check_size")
      BY <2>2 DEF MPIIO_GetFileSize
    <3> QED
      BY <2>1, <2>2, <3>1, WaysToOpen, TakeWay
  <2>3. CASE job.api = "DFS" /\ DFS_GetFileSize(r)
    <3>1. GoAfter(r, OnTestComm(<<"Bcast">>), "check_size")
      <4>1. LookupFails(r) => OnTestComm(<<"Bcast">>) = << >>
        BY HandlesAreShared DEF OnTestComm
      <4> QED
        BY <2>3, <4>1 DEF DFS_GetFileSize
    <3> QED
      BY <2>1, <2>3, <3>1, WaysToOpen, TakeWay
  <2>4. CASE job.api = "CEPHFS" /\ CEPHFS_GetFileSize(r)
    <3>1. /\ \E value : Send(r, "Allreduce", value)
          /\ Go(r, "reduce_size") /\ UNCHANGED ahead
      BY <2>4 DEF CEPHFS_GetFileSize
    <3>2. Due["reduce_size"] = Due["size"] + 1
      BY DueAt
    <3>3. "reduce_size" \in Reachable /\ "reduce_size" \notin BarrierPlaces \cup Left /\ "size" \notin Left
      BY <2>4, Plain
    <3>4. Awaited["reduce_size"] = "none"
      BY <3>3, AwaitedAt DEF Reachable
    <3> QED
      BY <2>1, <3>1, <3>2, <3>3, <3>4 DEF Sends, Reachable
  <2>5. CASE job.api \notin {"MPIIO", "DFS", "CEPHFS"} /\ GoAfter(r, << >>, "check_size")
    BY <2>1, <2>5, WaysToOpen, TakeWay
  <2> QED
    BY <1>8, <2>2, <2>3, <2>4, <2>5 DEF GetFileSize
<1>9. CASE CEPHFS_ReduceSize(r)
  BY <1>9, WaysToOpen, TakeWay DEF CEPHFS_ReduceSize, At, Reachable
<1>10. CASE CheckFileSize(r)
  <2>1. /\ at[r] = "check_size" /\ ahead[r] = << >> /\ Ready(r)
        /\ \E value : Send(r, "Allreduce", value)
        /\ Go(r, "checked") /\ UNCHANGED ahead
    BY <1>10 DEF CheckFileSize, At
  <2>2. Due["checked"] = Due["check_size"] + 1
    BY DueAt
  <2>3. "checked" \in Reachable /\ "checked" \notin BarrierPlaces \cup Left /\ "check_size" \notin Left
    BY Plain
  <2>4. Awaited["checked"] = "none"
    BY <2>3, AwaitedAt DEF Reachable
  <2> QED
    BY <2>1, <2>2, <2>3, <2>4 DEF Sends, Reachable
<1>11. CASE AggregateSize(r)
  BY <1>11, WaysToOpen, TakeWay DEF AggregateSize, At
<1>12. CASE open(r)
  <2>1. /\ at[r] = "open" /\ ahead[r] = << >> /\ Ready(r)
        /\ Stays \/ GoAfter(r, Reopened, "read")
    BY <1>12, HandlesAreShared DEF open, At, ERR, Stays
  <2> QED
    BY <2>1, WaysToEnd, TakeWay
<1>13. CASE read(r)
  <2>1. at[r] = "read" /\ ahead[r] = << >> /\ Ready(r)
    BY <1>13 DEF read, At
  <2>2. Stays \/ GoAfter(r, TransferTogether, "close_read")
    BY <1>13, MoveGoesOn, DryTransfers DEF read
  <2> QED
    BY <2>1, <2>2, WaysToEnd, TakeWay
<1>14. CASE CloseRead(r)
  BY <1>14, WaysToEnd, TakeWay DEF CloseRead, At
<1>15. CASE Delete(r)
  BY <1>15, WaysToEnd, TakeWay DEF Delete, At
<1>16. CASE finalize(r)
  BY <1>16, WaysToEnd, TakeWay DEF finalize, DFS_Finalize, At, Reachable, DfsPlaces
<1>17. CASE cont_close(r)
  BY <1>17, WaysToEnd, TakeWay DEF cont_close, At, Reachable, DfsPlaces
<1>18. CASE cont_destroy(r)
  BY <1>18, WaysToEnd, TakeWay DEF cont_destroy, At, Reachable, DfsPlaces
<1>19. CASE pool_disconnect(r)
  BY <1>19, WaysToEnd, TakeWay DEF pool_disconnect, At, Reachable, DfsPlaces
<1> QED
  BY <1>1, <1>2, <1>3, <1>4, <1>5, <1>6, <1>7, <1>8, <1>9, <1>10, <1>11, <1>12, <1>13, <1>14,
     <1>15, <1>16, <1>17, <1>18, <1>19 DEF RankNext
----------------------------------------------------------------------------
(* The invariant.                                                          *)

CallsType == \E V : calls \in CallsIn(V)
Sequenced == \A r \in Ranks : CallInv(r)

\* What is a sequence of some values is one of more values.
LEMMA SeqOfMore ==
    ASSUME NEW A, NEW B, A \subseteq B
    PROVE  Seq(A) \subseteq Seq(B)
<1> SUFFICES ASSUME NEW s \in Seq(A) PROVE s \in Seq(B)
  OBVIOUS
<1>1. \A k \in 1..Len(s) : s[k] \in B
  OBVIOUS
<1>2. s = [k \in 1..Len(s) |-> s[k]] /\ Len(s) \in Nat
  OBVIOUS
<1> QED
  BY <1>1, <1>2

\* A call more, whatever the value.
LEMMA CallMore ==
    ASSUME CallsType, NEW r \in Ranks, NEW op \in Collectives, NEW value, Send(r, op, value)
    PROVE  /\ CallsType'
           /\ Count(r) \in Nat /\ Count(r)' = Count(r) + 1 /\ calls'[r][Count(r) + 1].op = op
           /\ \A s \in Ranks \ {r} : calls'[s] = calls[s] /\ Count(s)' = Count(s)
<1>1. PICK V : calls \in CallsIn(V)
  BY DEF CallsType
<1> DEFINE W == V \cup {value}
<1>2. calls \in CallsIn(W) /\ value \in W
  <2> DEFINE C(values) == [op : Collectives, value : values]
  <2>1. C(V) \subseteq C(W)
    OBVIOUS
  <2>2. calls \in [Ranks -> Seq(C(V))]
    BY <1>1 DEF CallsIn
  <2> HIDE DEF C
  <2>3. Seq(C(V)) \subseteq Seq(C(W))
    BY <2>1, SeqOfMore
  <2>4. calls \in [Ranks -> Seq(C(W))]
    BY <2>2, <2>3
  <2> QED
    BY <2>4 DEF C, CallsIn
<1> HIDE DEF W
<1>3. /\ calls' \in CallsIn(W)
      /\ Count(r)' = Count(r) + 1 /\ calls'[r][Count(r) + 1] = [op |-> op, value |-> value]
      /\ \A s \in Ranks \ {r} : calls'[s] = calls[s] /\ Count(s)' = Count(s)
  BY <1>2, SendStep
<1>4. Count(r) \in Nat
  BY <1>2, CountIsNat
<1>5. calls'[r][Count(r) + 1].op = op
  BY <1>3
<1>6. CallsType'
  BY <1>3 DEF CallsType, CallsIn
<1> QED
  BY <1>3, <1>4, <1>5, <1>6

\* A rank that goes on has as many calls ahead as the next place asks for.
LEMMA WalkKeeps ==
    ASSUME TypeInv, Sequenced, UNCHANGED job, NEW r \in Ranks, ahead[r] = << >>, Walks(r)
    PROVE  /\ at' \in [Ranks -> Places] /\ ahead' \in [Ranks -> Seq(Collectives)]
           /\ UNCHANGED calls /\ Sequenced'
<1>1. PICK ops \in Seq(Collectives), to \in Places : Way(at[r], ops, to) /\ GoAfter(r, ops, to)
  BY DEF Walks
<1>2. /\ at' = [at EXCEPT ![r] = to] /\ ahead' = [ahead EXCEPT ![r] = ops] /\ calls' = calls
  BY <1>1 DEF GoAfter, Go
<1>3. at \in [Ranks -> Places] /\ ahead \in [Ranks -> Seq(Collectives)]
  BY DEF TypeInv
<1>4. Due' = Due /\ Reachable' = Reachable /\ Awaited' = Awaited
  BY SameSizes
<1>5. /\ at'[r] = to /\ ahead'[r] = ops
      /\ \A s \in Ranks \ {r} : at'[s] = at[s] /\ ahead'[s] = ahead[s]
  BY <1>2, <1>3
<1>6. \A s \in Ranks : Count(s)' = Count(s)
  BY <1>2 DEF Count
<1>7. ASSUME NEW s \in Ranks \ {r} PROVE CallInv(s)'
  <2>1. CallInv(s)
    BY DEF Sequenced
  <2> QED
    BY <1>2, <1>4, <1>5, <1>6, <1>7, <2>1 DEF CallInv
<1>8. CallInv(r)'
  <2>1. Count(r) \in Nat
    BY CountIsNat DEF TypeInv
  <2>2. Count(r) + Len(ahead[r]) = Due[at[r]]
    BY DEF Sequenced, CallInv
  <2>3. Count(r) = Due[at[r]]
    <3>1. Len(ahead[r]) = 0
      OBVIOUS
    <3> QED
      BY <2>1, <2>2, <3>1
  <2>4. Count(r) + Len(ops) = Due[to]
    BY <1>1, <2>3 DEF Way
  <2>5. Awaited[to] # "none" => IF ops = << >> THEN Awaited[at[r]] = Awaited[to]
                                ELSE ops[Len(ops)] = Awaited[to]
    BY <1>1 DEF Way
  <2>6. to \in Reachable
    BY <1>1 DEF Way
  <2>7. Awaited[at[r]] # "none" => calls[r][Count(r)].op = Awaited[at[r]]
    BY DEF Sequenced, CallInv
  <2> QED
    BY <1>2, <1>4, <1>5, <1>6, <2>4, <2>5, <2>6, <2>7 DEF CallInv
<1>9. Sequenced'
  BY <1>7, <1>8 DEF Sequenced
<1> QED
  BY <1>2, <1>3, <1>9

\* The first of some calls, and the others.
LEMMA FirstAndRest ==
    ASSUME NEW s \in Seq(Collectives), s # << >>
    PROVE  /\ Tail(s) \in Seq(Collectives) /\ Head(s) \in Collectives
           /\ Len(s) \in Nat \ {0} /\ Len(Tail(s)) = Len(s) - 1 /\ Head(s) = s[1]
           /\ \A k \in 1..Len(Tail(s)) : Tail(s)[k] = s[k + 1]
           /\ Tail(s) = << >> <=> Len(s) = 1
<1>1. Len(s) \in Nat \ {0} /\ Head(s) = s[1]
  OBVIOUS
<1>2. Tail(s) \in Seq(Collectives) /\ Len(Tail(s)) = Len(s) - 1
  BY <1>1
<1>3. \A k \in 1..Len(Tail(s)) : Tail(s)[k] = s[k + 1]
  BY <1>1
<1>4. Head(s) \in Collectives
  BY <1>1
<1>5. Tail(s) = << >> <=> Len(Tail(s)) = 0
  BY <1>2
<1> QED
  BY <1>1, <1>2, <1>3, <1>4, <1>5

\* A rank that makes the first of the calls ahead has the others ahead.
LEMMA CollectiveKeeps ==
    ASSUME TypeInv, Sequenced, NEW r \in Ranks, Collective(r)
    PROVE  /\ ahead' \in [Ranks -> Seq(Collectives)] /\ CallsType' /\ Sequenced'
<1> DEFINE old == ahead[r]
           new == Tail(ahead[r])
           op == Head(ahead[r])
<1>1. at \in [Ranks -> Places] /\ ahead \in [Ranks -> Seq(Collectives)] /\ CallsType
  BY DEF TypeInv, CallsType
<1>2. /\ old \in Seq(Collectives) /\ old # << >> /\ new \in Seq(Collectives) /\ op \in Collectives
      /\ Len(old) \in Nat \ {0} /\ Len(new) = Len(old) - 1 /\ op = old[1]
      /\ \A k \in 1..Len(new) : new[k] = old[k + 1]
      /\ new = << >> <=> Len(old) = 1
  <2>1. old \in Seq(Collectives) /\ old # << >>
    BY <1>1 DEF Collective
  <2> QED
    BY <2>1, FirstAndRest
<1>3. /\ Call(r, op) /\ ahead' = [ahead EXCEPT ![r] = new] /\ UNCHANGED <<job, at>>
  BY DEF Collective
<1>4. /\ CallsType'
      /\ Count(r) \in Nat /\ Count(r)' = Count(r) + 1 /\ calls'[r][Count(r) + 1].op = op
      /\ \A s \in Ranks \ {r} : calls'[s] = calls[s] /\ Count(s)' = Count(s)
  <2>1. Send(r, op, 0)
    BY <1>3 DEF Call
  <2> QED
    BY <1>1, <1>2, <2>1, CallMore
<1>5. ahead'[r] = new /\ \A s \in Ranks \ {r} : ahead'[s] = ahead[s]
  BY <1>1, <1>3
<1>6. Due' = Due /\ Reachable' = Reachable /\ Awaited' = Awaited
  BY <1>3, SameSizes
<1>7. ASSUME NEW s \in Ranks \ {r} PROVE CallInv(s)'
  <2>1. CallInv(s)
    BY DEF Sequenced
  <2>2. calls'[s] = calls[s] /\ Count(s)' = Count(s) /\ ahead'[s] = ahead[s] /\ at'[s] = at[s]
    BY <1>3, <1>4, <1>5
  <2> QED
    BY <1>6, <2>1, <2>2 DEF CallInv
<1>8. CallInv(r)'
  <2>1. /\ Count(r) + Len(old) = Due[at[r]] /\ at[r] \in Reachable
        /\ Awaited[at[r]] # "none" => old[Len(old)] = Awaited[at[r]]
    BY <1>2 DEF Sequenced, CallInv
  <2>2. Count(r)' + Len(new) = Due[at[r]]
    BY <1>2, <1>4, <2>1
  <2>3. ASSUME Awaited[at[r]] # "none"
        PROVE  IF new = << >> THEN calls'[r][Count(r) + 1].op = Awaited[at[r]] ELSE new[Len(new)] = Awaited[at[r]]
    <3>1. CASE Len(old) = 1
      <4>1. old[1] = Awaited[at[r]]
        BY <2>1, <2>3, <3>1
      <4> QED
        BY <1>2, <1>4, <3>1, <4>1
    <3>2. CASE Len(old) # 1
      <4>1. Len(new) \in 1..Len(new) /\ Len(new) + 1 = Len(old)
        BY <1>2, <3>2
      <4>2. new[Len(new)] = old[Len(new) + 1]
        BY <1>2, <4>1
      <4> QED
        BY <1>2, <2>1, <2>3, <3>2, <4>1, <4>2
    <3> QED
      BY <3>1, <3>2
  <2> HIDE DEF new, op, old
  <2> QED
    BY <1>3, <1>4, <1>5, <1>6, <2>1, <2>2, <2>3 DEF CallInv
<1>9. Sequenced'
  BY <1>7, <1>8 DEF Sequenced
<1>10. ahead' \in [Ranks -> Seq(Collectives)]
  BY <1>1, <1>2, <1>3
<1> QED
  BY <1>4, <1>9, <1>10

\* A rank that makes a call at once is at a place that asks for it.
LEMMA SendKeeps ==
    ASSUME TypeInv, Sequenced, UNCHANGED job, NEW r \in Ranks, ahead[r] = << >>, Sends(r)
    PROVE  /\ at' \in [Ranks -> Places] /\ ahead' = ahead /\ CallsType' /\ Sequenced'
<1>1. at \in [Ranks -> Places] /\ ahead \in [Ranks -> Seq(Collectives)] /\ CallsType
  BY DEF TypeInv, CallsType
<1>2. PICK to \in Places : /\ Awaited[to] = "none" /\ to \in Reachable
                           /\ Due[to] = Due[at[r]] + 1 /\ Go(r, to)
  BY DEF Sends
<1>3. /\ CallsType' /\ Count(r) \in Nat /\ Count(r)' = Count(r) + 1
      /\ \A s \in Ranks \ {r} : calls'[s] = calls[s] /\ Count(s)' = Count(s)
  BY <1>1, OpsType, CallMore DEF Sends
<1>4. at' = [at EXCEPT ![r] = to] /\ ahead' = ahead
  BY <1>2 DEF Go, Sends
<1>5. at'[r] = to /\ \A s \in Ranks \ {r} : at'[s] = at[s]
  BY <1>1, <1>4
<1>6. Due' = Due /\ Reachable' = Reachable /\ Awaited' = Awaited
  BY SameSizes
<1>7. ASSUME NEW s \in Ranks \ {r} PROVE CallInv(s)'
  <2>1. CallInv(s)
    BY DEF Sequenced
  <2>2. calls'[s] = calls[s] /\ Count(s)' = Count(s) /\ ahead'[s] = ahead[s] /\ at'[s] = at[s]
    BY <1>3, <1>4, <1>5
  <2> QED
    BY <1>6, <2>1, <2>2 DEF CallInv
<1>8. CallInv(r)'
  <2>1. Count(r) + Len(ahead[r]) = Due[at[r]] /\ Len(ahead[r]) = 0
    BY DEF Sequenced, CallInv
  <2>2. Count(r)' + Len(ahead[r]) = Due[to]
    BY <1>2, <1>3, <2>1
  <2> QED
    BY <1>2, <1>4, <1>5, <1>6, <2>2 DEF CallInv
<1>9. Sequenced'
  BY <1>7, <1>8 DEF Sequenced
<1> QED
  BY <1>1, <1>3, <1>4, <1>9
----------------------------------------------------------------------------
(* DAOS.                                                                   *)

\* Before a rank has closed the container it has not called the barrier
\* that comes before its removal.
LEMMA EarlierIsLess == \A place \in Places \ Left : Due[place] <= ToRemove + 4 /\ Due[place] \in Int
<1>1. /\ Due["initialize"] = 0 /\ Due["remove_old"] = ToCreate - 1 /\ Due["create"] = ToCreate
      /\ Due["late_create"] = ToCreate + 1 /\ Due["write"] = ToWrite
      /\ Due["sync"] = ToWrite + Len(TransferTogether) /\ Due["close"] = ToClose
      /\ Due["size"] = ToSize /\ Due["reduce_size"] = ToSize + 1
      /\ Due["check_size"] = ToSize + Sizing /\ Due["checked"] = ToSize + Sizing + 1
      /\ Due["open"] = ToOpen /\ Due["read"] = ToOpen + Reopening
      /\ Due["close_read"] = ToOpen + Reopening + Len(TransferTogether)
      /\ Due["remove"] = ToRemove /\ Due["finalize"] = ToRemove + 1
      /\ Due["cont_close"] = ToRemove + 4
  BY DueAt
<1>2. /\ Reopening \in Nat /\ Sizing \in Nat /\ Optional(Shared) \in Nat
      /\ ToCreate \in Nat /\ ToWrite \in Nat /\ ToClose \in Nat /\ ToSize \in Nat
      /\ ToOpen \in Nat /\ ToRemove \in Nat
      /\ ToCreate <= ToWrite /\ ToWrite <= ToClose /\ ToClose < ToSize /\ ToSize < ToOpen /\ ToOpen < ToRemove
  BY SizeType
<1>3. Len(Together) \in Nat /\ Len(TransferTogether) \in Nat
  BY OpsOfJob
<1>4. ToOpen = ToSize + Sizing + Optional(Shared) + 3
  BY DEF ToOpen
<1>5. ToRemove = ToOpen + Reopening + Len(TransferTogether) + Len(Together) + 1
  BY DEF ToRemove
<1> DEFINE t == Len(TransferTogether)
           u == Len(Together)
<1> HIDE DEF t, u
<1>6. t \in Nat /\ u \in Nat /\ ToRemove = ToOpen + Reopening + t + u + 1
  BY <1>3, <1>5 DEF t, u
<1>7. /\ ToSize + Sizing + 1 <= ToRemove /\ ToOpen + Reopening + t <= ToRemove
      /\ ToOpen + Reopening <= ToRemove /\ ToWrite + t <= ToRemove
  BY <1>2, <1>4, <1>6
<1>8. \A place \in {"initialize", "remove_old", "create", "late_create", "write", "close", "size",
                    "reduce_size", "open", "remove", "finalize", "cont_close"} :
         Due[place] <= ToRemove + 4 /\ Due[place] \in Int
  <2>1. /\ ToRemove \in Int /\ ToCreate + 1 <= ToRemove /\ ToWrite <= ToRemove /\ ToClose <= ToRemove
        /\ ToSize + 1 <= ToRemove /\ ToOpen <= ToRemove /\ 0 <= ToRemove
    BY <1>2
  <2>2. /\ ToCreate \in Int /\ ToWrite \in Int /\ ToClose \in Int /\ ToSize \in Int /\ ToOpen \in Int
    BY <1>2
  <2>3. \A place \in {"initialize", "remove_old", "create", "late_create", "write"} :
           Due[place] <= ToRemove + 4 /\ Due[place] \in Int
    BY <1>1, <2>1, <2>2
  <2>4. \A place \in {"close", "size", "reduce_size", "open"} :
           Due[place] <= ToRemove + 4 /\ Due[place] \in Int
    BY <1>1, <2>1, <2>2
  <2>5. \A place \in {"remove", "finalize", "cont_close"} :
           Due[place] <= ToRemove + 4 /\ Due[place] \in Int
    BY <1>1, <2>1
  <2> QED
    BY <2>3, <2>4, <2>5
<1>9. \A place \in {"sync", "check_size", "checked", "read", "close_read"} :
         Due[place] <= ToRemove + 4 /\ Due[place] \in Int
  <2>1. /\ Due["sync"] = ToWrite + t /\ Due["close_read"] = ToOpen + Reopening + t
        /\ Due["check_size"] = ToSize + Sizing /\ Due["checked"] = ToSize + Sizing + 1
        /\ Due["read"] = ToOpen + Reopening
    BY <1>1 DEF t
  <2> QED
    BY <1>2, <1>6, <1>7, <2>1
<1> QED
  BY <1>8, <1>9 DEF Places, DfsPlaces, Left

\* A rank that goes on from that barrier knows that all have closed it.
LEMMA AllHaveClosed ==
    ASSUME Inv, NEW r \in Ranks, At(r, "destroy")
    PROVE  \A s \in Ranks : at[s] \in Left
<1>1. /\ at[r] = "destroy" /\ ahead[r] = << >> /\ Ready(r)
      /\ Count(r) + Len(ahead[r]) = Due["destroy"] /\ calls[r][Count(r)].op = "Barrier"
  BY AwaitedAt DEF At, Inv, CallInv, BarrierPlaces
<1>2. \A s \in Ranks : Count(s) \in Nat
  BY CountIsNat DEF Inv, TypeInv
<1>3. Due["destroy"] = ToRemove + 5 /\ ToRemove \in Nat
  BY DueAt, SizeType
<1>4. Count(r) = ToRemove + 5
  <2>1. Len(ahead[r]) = 0
    BY <1>1
  <2> QED
    BY <1>1, <1>2, <1>3, <2>1
<1>5. Count(r) > 0 /\ "Barrier" \in Synchronizing
  BY <1>3, <1>4 DEF Synchronizing
<1>6. \A s \in Ranks : Count(s) >= Count(r)
  BY <1>1, <1>5, ReadyMeans
<1>7. SUFFICES ASSUME NEW s \in Ranks, at[s] \notin Left PROVE FALSE
  OBVIOUS
<1>8. at[s] \in Places \ Left /\ ahead[s] \in Seq(Collectives) /\ Count(s) + Len(ahead[s]) = Due[at[s]]
  BY <1>7 DEF Inv, TypeInv, CallInv
<1>9. Due[at[s]] <= ToRemove + 4 /\ Len(ahead[s]) \in Nat
  BY <1>8, EarlierIsLess
<1>10. Count(s) >= ToRemove + 5 /\ Count(s) + Len(ahead[s]) <= ToRemove + 4
  BY <1>4, <1>6, <1>8, <1>9
<1> QED
  BY <1>2, <1>3, <1>9, <1>10

\* Most steps leave DAOS alone; the exceptions come from one place each.
LEMMA DaosSteps ==
    ASSUME NEW r \in Ranks, RankNext(r)
    PROVE  \/ UNCHANGED daos /\ (UNCHANGED at \/ at[r] # "cont_close")
           \/ initialize(r) \/ cont_close(r) \/ cont_destroy(r) \/ pool_disconnect(r)
<1>1. CASE Collective(r)
  BY <1>1 DEF Collective
<1>2. CASE RemoveOld(r)
  BY <1>2 DEF RemoveOld, At
<1>3. CASE create(r)
  BY <1>3 DEF create, At
<1>4. CASE LateCreate(r)
  BY <1>4 DEF LateCreate, At
<1>5. CASE write(r) \/ read(r)
  BY <1>5 DEF write, read, At
<1>6. CASE fsync(r) \/ close(r)
  BY <1>6 DEF fsync, close, At
<1>7. CASE GetFileSize(r) \/ CEPHFS_ReduceSize(r)
  BY <1>7 DEF GetFileSize, CEPHFS_ReduceSize, At
<1>8. CASE CheckFileSize(r) \/ AggregateSize(r)
  BY <1>8 DEF CheckFileSize, AggregateSize, At
<1>9. CASE open(r) \/ CloseRead(r)
  BY <1>9 DEF open, CloseRead, At
<1>10. CASE Delete(r) \/ finalize(r)
  BY <1>10 DEF Delete, finalize, At
<1> QED
  BY <1>1, <1>2, <1>3, <1>4, <1>5, <1>6, <1>7, <1>8, <1>9, <1>10 DEF RankNext

\* What a step may do about having given DAOS up.
Advance(r) ==
    \/ UNCHANGED at
    \/ \E to \in Places : /\ at' = [at EXCEPT ![r] = to] /\ (at[r] \in Left => to \in Left)
                          /\ to \in Left => at[r] \in Left \cup {"cont_close"} \/ job.api # "DFS"

\* A step moves its rank alone, and only from daos_cont_close to what follows it.
LEMMA RanksAdvance ==
    ASSUME Answers, NEW r \in Ranks, RankNext(r), at[r] \in Reachable
    PROVE  Advance(r)
<1>1. CASE Collective(r)
  BY <1>1 DEF Collective, Advance
<1>2. CASE Stays
  BY <1>2 DEF Stays, Advance
<1>3. CASE Walks(r)
  BY <1>3 DEF Walks, Way, GoAfter, Go, Advance
<1>4. CASE Sends(r)
  BY <1>4 DEF Sends, Go, Advance
<1> QED
  BY <1>1, <1>2, <1>3, <1>4, Steps

\* Who has destroyed the container, or seen it go, has closed it, like everybody else.
LEMMA DaosKeeps ==
    ASSUME Inv, NEW r \in Ranks, RankNext(r)
    PROVE  /\ dfs' \in [Ranks -> {"none", "container", "pool", "disconnected"}]
           /\ destroyed' \in BOOLEAN /\ \A s \in Ranks : DaosInv(s)'
<1>1. /\ at \in [Ranks -> Places] /\ dfs \in [Ranks -> {"none", "container", "pool", "disconnected"}]
      /\ destroyed \in BOOLEAN
  BY DEF Inv, TypeInv
<1>2. at[r] \in Reachable /\ job' = job /\ Answers
  BY DEF Inv, CallInv, RankNext, Collective, initialize, RemoveOld, create, LateCreate, write, fsync,
         close, GetFileSize, CEPHFS_ReduceSize, CheckFileSize, AggregateSize, open, read, CloseRead,
         Delete, finalize, cont_close, cont_destroy, pool_disconnect
<1>3. \A s \in Ranks : /\ job.api # "DFS" => dfs[s] = "none"
                       /\ at[s] \in Left => dfs[s] # "container"
                       /\ destroyed => at[s] \in Left
  BY DEF Inv, DaosInv
<1>4. /\ \A s \in Ranks \ {r} : at'[s] = at[s]
      /\ at[r] \in Left => at'[r] \in Left
      /\ at'[r] \in Left => at[r] \in Left \cup {"cont_close"} \/ job.api # "DFS"
  BY <1>1, <1>2, RanksAdvance DEF Advance
<1>5. CASE UNCHANGED daos /\ (UNCHANGED at \/ at[r] # "cont_close")
  BY <1>1, <1>2, <1>3, <1>4, <1>5 DEF daos, DaosInv
<1>6. CASE initialize(r)
  <2>1. /\ at[r] = "initialize" /\ at' = [at EXCEPT ![r] = "remove_old"] /\ destroyed' = destroyed
        /\ IF job.api = "DFS" THEN dfs' = [dfs EXCEPT ![r] = "container"] ELSE dfs' = dfs
    BY <1>6 DEF initialize, DFS_Init, GoAfter, Go, At
  <2>2. at[r] \notin Left /\ at'[r] \notin Left
    BY <1>1, <2>1 DEF Left
  <2>3. ~destroyed
    BY <1>3, <2>2
  <2> QED
    BY <1>1, <1>2, <1>3, <1>4, <2>1, <2>2, <2>3 DEF DaosInv
<1>7. CASE cont_close(r)
  <2>1. /\ at[r] = "cont_close" /\ at' = [at EXCEPT ![r] = "destroy"] /\ destroyed' = destroyed
        /\ dfs' = [dfs EXCEPT ![r] = "pool"] /\ job.api = "DFS"
    BY <1>2, <1>7 DEF cont_close, GoAfter, Go, At, Reachable, DfsPlaces
  <2>2. at[r] \notin Left
    BY <2>1 DEF Left
  <2>3. ~destroyed
    BY <1>3, <2>2
  <2> QED
    BY <1>1, <1>2, <1>3, <1>4, <2>1, <2>3 DEF DaosInv
<1>8. CASE cont_destroy(r)
  <2>1. /\ At(r, "destroy") /\ dfs' = dfs /\ destroyed' = (destroyed \/ (job.destroy /\ r = 0))
    BY <1>8 DEF cont_destroy
  <2>2. \A s \in Ranks : at[s] \in Left
    BY <2>1, AllHaveClosed
  <2>3. \A s \in Ranks : at'[s] \in Left
    BY <1>4, <2>2
  <2>4. destroyed' \in BOOLEAN
    BY <2>1
  <2> QED
    BY <1>1, <1>2, <1>3, <2>1, <2>2, <2>3, <2>4 DEF DaosInv
<1>9. CASE pool_disconnect(r)
  <2>1. /\ at[r] = "disconnect" /\ at' = [at EXCEPT ![r] = "done"] /\ destroyed' = destroyed
        /\ dfs' = [dfs EXCEPT ![r] = "disconnected"] /\ job.api = "DFS"
    BY <1>2, <1>9 DEF pool_disconnect, GoAfter, Go, At, Reachable, DfsPlaces
  <2> QED
    BY <1>1, <1>2, <1>3, <1>4, <2>1 DEF DaosInv
<1> QED
  BY <1>5, <1>6, <1>7, <1>8, <1>9, DaosSteps

----------------------------------------------------------------------------
(* The theorems.                                                           *)

\* A test begins like that.
LEMMA InvInit ==
    ASSUME DaosAnswers
    PROVE  Init => Inv
<1> SUFFICES ASSUME Init PROVE Inv
  OBVIOUS
<1>1. /\ job \in Jobs /\ at = [r \in Ranks |-> "initialize"] /\ calls = NoCalls
      /\ ahead = [r \in Ranks |-> << >>] /\ dfs = [r \in Ranks |-> "none"] /\ destroyed = FALSE
  BY DEF Init
<1>2. << >> \in Seq(Collectives) /\ Len(<< >>) = 0
  OBVIOUS
<1>3. \E V : calls \in CallsIn(V)
  <2>1. calls \in CallsIn({0})
    <3> << >> \in Seq([op : Collectives, value : {0}])
      OBVIOUS
    <3> QED
      BY <1>1 DEF NoCalls, CallsIn
  <2> QED
    BY <2>1
<1>4. TypeInv
  BY <1>1, <1>2, <1>3 DEF TypeInv, Places
<1>5. ASSUME NEW r \in Ranks PROVE CallInv(r) /\ DaosInv(r)
  <2>1. Count(r) = 0 /\ Due["initialize"] = 0
    BY <1>1, DueAt DEF NoCalls, Count
  <2>2. Count(r) + Len(ahead[r]) = Due[at[r]]
    BY <1>1, <1>2, <2>1
  <2>3. at[r] \in Reachable /\ Awaited[at[r]] = "none" /\ at[r] \notin Left
    BY <1>1 DEF Reachable, Places, DfsPlaces, BarrierPlaces, Left, Awaited
  <2> QED
    BY <1>1, <2>2, <2>3 DEF CallInv, DaosInv
<1>6. Answers
  BY <1>1 DEF DaosAnswers, Answers
<1> QED
  BY <1>4, <1>5, <1>6 DEF Inv

\* And goes on like that.
LEMMA InvStep == Inv /\ [Next]_vars => Inv'
<1> SUFFICES ASSUME Inv, [Next]_vars PROVE Inv'
  OBVIOUS
<1>1. CASE UNCHANGED vars
  <2>1. /\ UNCHANGED <<job, at, calls, ahead, dfs, destroyed>>
    BY <1>1 DEF vars, daos
  <2>2. Due' = Due /\ Reachable' = Reachable /\ Awaited' = Awaited
    BY <2>1, SameSizes
  <2>3. TypeInv'
    BY <2>1 DEF Inv, TypeInv
  <2>4. ASSUME NEW s \in Ranks PROVE CallInv(s)' /\ DaosInv(s)'
    BY <2>1, <2>2 DEF Inv, CallInv, DaosInv, Count
  <2>5. Answers'
    BY <2>1 DEF Inv, Answers
  <2> QED
    BY <2>3, <2>4, <2>5 DEF Inv
<1>2. ASSUME NEW r \in Ranks, RankNext(r) PROVE Inv'
  <2>1. TypeInv /\ Sequenced /\ at[r] \in Reachable /\ Answers
    BY DEF Inv, Sequenced, CallInv
  <2>2. UNCHANGED job
    BY <1>2 DEF RankNext, Collective, initialize, RemoveOld, create, LateCreate, write, fsync,
         close, GetFileSize, CEPHFS_ReduceSize, CheckFileSize, AggregateSize, open, read, CloseRead,
         Delete, finalize, cont_close, cont_destroy, pool_disconnect
  <2>3. /\ at' \in [Ranks -> Places] /\ ahead' \in [Ranks -> Seq(Collectives)]
        /\ CallsType' /\ Sequenced'
    <3>1. CASE Collective(r)
      BY <2>1, <3>1, CollectiveKeeps DEF Collective, TypeInv
    <3>2. CASE ahead[r] = << >> /\ Stays
      <4>1. Due' = Due /\ Reachable' = Reachable /\ Awaited' = Awaited
        BY <2>2, SameSizes
      <4>2. UNCHANGED <<at, ahead, calls>>
        BY <3>2 DEF Stays
      <4>3. Sequenced'
        BY <2>1, <4>1, <4>2 DEF Sequenced, CallInv, Count
      <4> QED
        BY <2>1, <4>2, <4>3 DEF TypeInv, CallsType
    <3>3. CASE ahead[r] = << >> /\ Walks(r)
      BY <2>1, <2>2, <3>3, WalkKeeps DEF TypeInv, CallsType
    <3>4. CASE ahead[r] = << >> /\ Sends(r)
      BY <2>1, <2>2, <3>4, SendKeeps DEF TypeInv
    <3> QED
      BY <1>2, <2>1, <3>1, <3>2, <3>3, <3>4, Steps
  <2>4. /\ dfs' \in [Ranks -> {"none", "container", "pool", "disconnected"}]
        /\ destroyed' \in BOOLEAN /\ \A s \in Ranks : DaosInv(s)'
    BY <1>2, DaosKeeps
  <2>5. TypeInv'
    BY <2>1, <2>2, <2>3, <2>4 DEF TypeInv, CallsType
  <2>6. Answers'
    BY <2>1, <2>2 DEF Answers
  <2> QED
    BY <2>3, <2>4, <2>5, <2>6 DEF Inv, Sequenced
<1> QED
  BY <1>1, <1>2 DEF Next, Terminating

\* What is true of a test all the time, on any number of ranks and whatever
\* the backend: the collectives a rank has called and those it has ahead are
\* the ones due where it is (all of aiori-*.c), and the container of DAOS is
\* open until a rank has come to daos_cont_close (DFS_Finalize).  Where rank 0
\* of DFS fails alone it leaves calls out that the others make (HandleDistribute,
\* lookup_insert_dir), so DAOS is assumed to fail no rank alone.
THEOREM BackendsInvariant ==
    ASSUME DaosAnswers
    PROVE  Spec => []Inv
<1>1. Init => Inv
  BY InvInit
<1>2. Inv /\ [Next]_vars => Inv'
  BY InvStep
<1> QED
  BY <1>1, <1>2, PTL DEF Spec

\* The container of DAOS is not removed under a rank that has it open
\* (DFS_Finalize): the barrier between daos_cont_close and daos_cont_destroy
\* is the same call of every rank, whichever collectives opening, sizing and
\* closing the files have taken before.
THEOREM ContainerGoesLast ==
    ASSUME DaosAnswers
    PROVE  Spec => []ContainerOutlivesUse
<1>1. Inv => ContainerOutlivesUse
  BY DEF Inv, DaosInv, ContainerOutlivesUse
<1> QED
  BY <1>1, BackendsInvariant, PTL
----------------------------------------------------------------------------
(* The files.                                                              *)

\* A file is a number of units.
Contents == UNION {[0..(k - 1) -> Int] : k \in Nat}
FilesType == DOMAIN files \subseteq Ranks /\ files \in [DOMAIN files -> Contents]

\* Everybody has a file.
LEMMA FileOfRank == 0 \in Ranks /\ \A r \in Ranks : FileOf(r) \in Ranks
BY MpiAssumption DEF Ranks, FileOf

\* Numbers of units.
LEMMA UnitType ==
    /\ expectedAggFileSize \in Nat /\ Length \in Nat \ {0}
    /\ \A r \in Ranks : r * Length \in Nat /\ offset(r) \in Nat
<1>1. \A a, b \in Nat : a * b \in Nat
  OBVIOUS
<1>2. N \in Nat /\ Length \in Nat \ {0} /\ \A r \in Ranks : r \in Nat
  BY MpiAssumption, BackendsAssumption DEF Ranks
<1> QED
  BY <1>1, <1>2 DEF expectedAggFileSize, offset

\* What a unit of the buffer holds.
LEMMA DataType == \A r \in Ranks : \A k \in Nat : Data(r, k) \in Int /\ Data(r, k) # Hole
                                                  /\ (k < Length => Data(r, k) > 0)
<1> SUFFICES ASSUME NEW r \in Ranks, NEW k \in Nat
             PROVE  Data(r, k) \in Int /\ Data(r, k) # Hole /\ (k < Length => Data(r, k) > 0)
  OBVIOUS
<1> DEFINE a == r * Length
<1>1. a \in Nat
  BY UnitType
<1>2. Data(r, k) = IF k < Length THEN 1 + a + k ELSE -1
  BY DEF Data, Beyond
<1> HIDE DEF a
<1> QED
  BY <1>1, <1>2 DEF Hole

\* The files of nobody.
LEMMA EmptyOrOld ==
    /\ EmptyFile \in Contents /\ DOMAIN EmptyFile = {}
    /\ OldFile \in Contents /\ \A u \in DOMAIN OldFile : OldFile[u] = Beyond
<1>1. EmptyFile \in [0..(0 - 1) -> Int] /\ DOMAIN EmptyFile = {}
  BY DEF EmptyFile
<1>2. OldFile \in [0..(expectedAggFileSize - 1) -> Int] /\ expectedAggFileSize \in Nat
  BY UnitType DEF OldFile, Beyond
<1>3. \A u \in DOMAIN OldFile : OldFile[u] = Beyond
  BY DEF OldFile
<1> QED
  BY <1>1, <1>2, <1>3 DEF Contents

\* A file gets other contents.
LEMMA WithIs ==
    ASSUME FilesType, NEW f \in Ranks, NEW c \in Contents, files' = With(f, c)
    PROVE  /\ FilesType' /\ DOMAIN files' = DOMAIN files \cup {f} /\ files'[f] = c
           /\ \A g \in DOMAIN files \ {f} : files'[g] = files[g]
BY DEF FilesType, With

\* A file is removed.
LEMMA WithoutIs ==
    ASSUME FilesType, NEW f, files' = Without(f)
    PROVE  /\ FilesType' /\ DOMAIN files' = DOMAIN files \ {f}
           /\ \A g \in DOMAIN files' : files'[g] = files[g]
BY DEF FilesType, Without, Restrict

\* The size of a file.
LEMMA SizeIs ==
    ASSUME FilesType, NEW f
    PROVE  /\ FileSize(f) \in Nat
           /\ f \in DOMAIN files => DOMAIN files[f] = 0..(FileSize(f) - 1)
<1>1. CASE f \notin DOMAIN files
  BY <1>1 DEF FileSize, Exists
<1>2. CASE f \in DOMAIN files
  <2>1. files[f] \in Contents
    BY <1>2 DEF FilesType
  <2>2. PICK k \in Nat : files[f] \in [0..(k - 1) -> Int]
    BY <2>1 DEF Contents
  <2>3. DOMAIN files[f] = 0..(k - 1)
    BY <2>2
  <2>4. Cardinality(0..(k - 1)) = k
    <3>1. 0 \in Int /\ k - 1 \in Int
      OBVIOUS
    <3>2. Cardinality(0..(k - 1)) = IF 0 > k - 1 THEN 0 ELSE (k - 1) - 0 + 1
      BY <3>1, FS_Interval
    <3> QED
      BY <3>2
  <2>5. FileSize(f) = Cardinality(DOMAIN files[f])
    BY <1>2 DEF FileSize, Exists
  <2>6. FileSize(f) = k
    BY <2>3, <2>4, <2>5
  <2> QED
    BY <2>3, <2>6
<1> QED
  BY <1>1, <1>2

\* The larger of two numbers is the largest unit of two intervals.
LEMMA MaxOfIntervals ==
    ASSUME NEW first \in Nat, NEW n \in Nat \ {0}, NEW k \in Nat,
           NEW S, S = (first..(first + n - 1)) \cup (0..(k - 1))
    PROVE  Max(S) \in Nat /\ Max(S) \in S /\ \A y \in S : y \in Nat /\ y <= Max(S)
<1> DEFINE m == IF first + n >= k THEN first + n - 1 ELSE k - 1
<1>1. m \in S /\ \A y \in S : m >= y
  OBVIOUS
<1>2. S \subseteq Nat
  OBVIOUS
<1> HIDE DEF m
<1>3. \E x \in S : \A y \in S : x >= y
  BY <1>1
<1>4. Max(S) \in S /\ \A y \in S : Max(S) >= y
  BY <1>3 DEF Max
<1> QED
  BY <1>2, <1>4

\* Units of a buffer are stored: they are in the file, and what else was there is there still.
LEMMA StoredIs ==
    ASSUME FilesType, NEW f \in Ranks, NEW first \in Nat, NEW n \in Int, NEW r \in Ranks, NEW k \in Nat,
           files' = Stored(f, first, n, r, k)
    PROVE  /\ FilesType' /\ DOMAIN files' = DOMAIN files
           /\ \A g \in DOMAIN files \ {f} : files'[g] = files[g]
           /\ f \in DOMAIN files =>
                 /\ \A u \in DOMAIN files[f] \ (first..(first + n - 1)) :
                       u \in DOMAIN files'[f] /\ files'[f][u] = files[f][u]
                 /\ \A u \in first..(first + n - 1) :
                       u \in DOMAIN files'[f] /\ files'[f][u] = Data(r, k + u - first)
                 /\ \A u \in DOMAIN files'[f] :
                       /\ files'[f][u] = Hole \/ u \in DOMAIN files[f] \cup (first..(first + n - 1))
                       /\ \E y \in DOMAIN files[f] \cup (first..(first + n - 1)) : u <= y
<1>1. CASE n <= 0 \/ f \notin DOMAIN files
  <2>1. files' = files
    BY <1>1 DEF Stored, Exists
  <2>2. f \in DOMAIN files => \A u \in first..(first + n - 1) : FALSE
    BY <1>1
  <2>3. f \in DOMAIN files => \A u \in DOMAIN files[f] : u <= u
    <3>1. f \in DOMAIN files => DOMAIN files[f] = 0..(FileSize(f) - 1)
      BY SizeIs
    <3>2. \A a, b \in Int : \A u \in a..b : u <= u
      OBVIOUS
    <3> QED
      BY <3>1, <3>2, SizeIs
  <2> QED
    BY <2>1, <2>2, <2>3 DEF FilesType
<1>2. CASE n > 0 /\ f \in DOMAIN files
  <2> DEFINE new == first..(first + n - 1)
             old == DOMAIN files[f]
             end == Max(new \cup old)
             c == [u \in 0..end |-> IF u \in new THEN Data(r, k + u - first)
                                    ELSE IF u \in old THEN files[f][u] ELSE Hole]
  <2>1. files' = With(f, c)
    BY <1>2 DEF Stored, Exists
  <2>2. PICK size0 \in Nat : files[f] \in [0..(size0 - 1) -> Int]
    <3>1. files[f] \in Contents
      BY <1>2 DEF FilesType
    <3> QED
      BY <3>1 DEF Contents
  <2>3. old = 0..(size0 - 1) /\ \A u \in old : files[f][u] \in Int
    BY <2>2
  <2>4. end \in Nat /\ end \in new \cup old /\ \A u \in new \cup old : u \in Nat /\ u <= end
    <3>1. n \in Nat \ {0} /\ new \cup old = (first..(first + n - 1)) \cup (0..(size0 - 1))
      BY <1>2, <2>3
    <3> HIDE DEF new, old
    <3> QED
      BY <3>1, MaxOfIntervals
  <2>5. \A u \in new : Data(r, k + u - first) \in Int
    <3>1. \A u \in new : k + u - first \in Nat
      OBVIOUS
    <3> QED
      BY <3>1, DataType
  <2> HIDE DEF new, old, end
  <2>6. c \in [0..end -> Int] /\ DOMAIN c = 0..end
    BY <2>3, <2>5 DEF Hole
  <2>7. c \in Contents
    <3>1. end + 1 \in Nat /\ 0..((end + 1) - 1) = 0..end
      BY <2>4
    <3> QED
      BY <2>6, <3>1 DEF Contents
  <2>8. \A u \in new \cup old : u \in 0..end
    BY <2>4
  <2>9. /\ \A u \in old \ new : u \in DOMAIN c /\ c[u] = files[f][u]
        /\ \A u \in new : u \in DOMAIN c /\ c[u] = Data(r, k + u - first)
    BY <2>6, <2>8
  <2>11. \A u \in DOMAIN c : (c[u] = Hole \/ u \in old \cup new) /\ \E y \in old \cup new : u <= y
    <3>1. \A u \in DOMAIN c : u <= end
      BY <2>4, <2>6
    <3> QED
      BY <2>4, <2>6, <3>1
  <2> HIDE DEF c
  <2>10. /\ FilesType' /\ DOMAIN files' = DOMAIN files \cup {f} /\ files'[f] = c
         /\ \A g \in DOMAIN files \ {f} : files'[g] = files[g]
    BY <2>1, <2>7, WithIs
  <2> QED
    BY <1>2, <2>9, <2>10, <2>11 DEF new, old
<1> QED
  BY <1>1, <1>2

\* The lesser and the larger of two numbers.
LEMMA OfTwo ==
    ASSUME NEW a \in Int, NEW b \in Int
    PROVE  /\ Min({a, b}) = IF a <= b THEN a ELSE b
           /\ Max({a, b}) = IF a <= b THEN b ELSE a
<1> DEFINE l == IF a <= b THEN a ELSE b
           m == IF a <= b THEN b ELSE a
<1>1. /\ l \in {a, b} /\ \A y \in {a, b} : l <= y
      /\ m \in {a, b} /\ \A y \in {a, b} : m >= y
  OBVIOUS
<1>2. \A x \in {a, b} : (\A y \in {a, b} : x <= y) => x = l
  OBVIOUS
<1>3. \A x \in {a, b} : (\A y \in {a, b} : x >= y) => x = m
  OBVIOUS
<1> HIDE DEF l, m
<1>4. Min({a, b}) = l
  BY <1>1, <1>2 DEF Min
<1>5. Max({a, b}) = m
  BY <1>1, <1>3 DEF Max
<1> QED
  BY <1>4, <1>5 DEF l, m

JobIn == job \in JobType
MovedType == moved \in [Ranks -> 0..(Length - 1)]

\* Where a transfer goes.
LEMMA WhereType ==
    ASSUME MovedType, NEW r \in Ranks, NEW access
    PROVE  /\ Where(r, access) \in {0, moved[r]} /\ Where(r, access) \in Nat
           /\ moved[r] \in Nat /\ Length - moved[r] \in Nat \ {0} /\ Asked(r) \in {Length, Length - moved[r]}
           /\ Asked(r) \in Nat \ {0}
           /\ job.api \notin {"MPIIO", "GFARM"} => Asked(r) = Length - moved[r]
           /\ FirstUnit(r, access) \in Nat
<1>1. moved[r] \in Nat /\ moved[r] < Length /\ Length \in Nat
  BY UnitType DEF MovedType
<1>2. Where(r, access) \in {0, moved[r]} /\ Where(r, access) \in Nat
  BY <1>1 DEF Where
<1>3. Length - moved[r] \in Nat \ {0} /\ Asked(r) \in {Length, Length - moved[r]}
  BY <1>1 DEF Asked
<1>4. job.api \notin {"MPIIO", "GFARM"} => Asked(r) = Length - moved[r]
  BY DEF Asked
<1>5. offset(r) \in Nat /\ offset(Pretend(r)) \in Nat
  <2>1. \A n, m \in Nat : m > 0 => n % m \in 0..(m - 1)
    OBVIOUS
  <2>2. Pretend(r) \in Ranks
    BY <2>1, MpiAssumption DEF Pretend, Ranks
  <2> QED
    BY <2>2, UnitType
<1>6. FirstUnit(r, access) \in Nat
  BY <1>2, <1>5 DEF FirstUnit
<1>7. Asked(r) \in Nat \ {0}
  BY <1>1, <1>3
<1> QED
  BY <1>1, <1>2, <1>3, <1>4, <1>6, <1>7

\* The storage moves no more than it is asked to.
LEMMA ResultsType ==
    ASSUME FilesType, MovedType, NEW r \in Ranks, NEW access, NEW n \in Results(r, access)
    PROVE  n \in Int /\ n <= Asked(r)
<1> DEFINE fit == FileSize(FileOf(Pretend(r))) - FirstUnit(r, access)
           there == IF access = "write" THEN Asked(r) ELSE Min({Asked(r), Max({0, fit})})
<1>1. Asked(r) \in Nat \ {0} /\ fit \in Int
  BY WhereType, SizeIs
<1>2. there \in Nat /\ there <= Asked(r)
  <2>1. CASE access = "write"
    BY <1>1, <2>1
  <2>2. CASE access # "write"
    <3> HIDE DEF fit
    <3>1. Max({0, fit}) \in Nat
      <4>1. Max({0, fit}) = IF 0 <= fit THEN fit ELSE 0
        BY <1>1, OfTwo
      <4> QED
        BY <1>1, <4>1
    <3> DEFINE m == Max({0, fit})
    <3> HIDE DEF m
    <3>2. m \in Nat /\ there = Min({Asked(r), m})
      BY <2>2, <3>1 DEF m
    <3>3. Min({Asked(r), m}) = IF Asked(r) <= m THEN Asked(r) ELSE m
      BY <1>1, <3>2, OfTwo
    <3> QED
      BY <1>1, <3>2, <3>3
  <2> QED
    BY <2>1, <2>2
<1>3. n \in {0, there, -1} \cup 0..there
  BY DEF Results
<1> HIDE DEF there, fit
<1> QED
  BY <1>1, <1>2, <1>3

\* A backend that tries again has moved something, but not all.
LEMMA AgainMeans ==
    ASSUME JobIn, NEW access, NEW n \in Int, NEW left \in Nat, NEW retries,
           n <= left \/ job.api \in {"MPIIO", "GFARM"}, Answer(access, n, left, retries) = "again"
    PROVE  job.api = "MPIIO" \/ (0 <= n /\ n < left)
<1>1. job.api \in Apis
  BY DEF JobIn, JobType
<1>2. ASSUME Retry(n, left, retries) = "again" PROVE n # left
  BY <1>2 DEF Retry
<1>3. AllOrStop(n, left) # "again"
  BY DEF AllOrStop
<1>4. CASE job.api \in {"POSIX", "HDFS", "IME"}
  <2>1. ~(n < 0) /\ Retry(n, left, retries) = "again"
    BY <1>4 DEF Answer, POSIX_Xfer, HDFS_Xfer, IME_Xfer
  <2> QED
    BY <1>2, <1>4, <2>1
<1>5. CASE job.api = "DFS"
  <2>1. ~(n <= 0) /\ Retry(n, left, retries) = "again"
    BY <1>3, <1>5 DEF Answer, DFS_Xfer
  <2> QED
    BY <1>2, <1>5, <2>1
<1>6. CASE job.api = "GFARM"
  BY <1>6 DEF Answer, Gfarm_xfer
<1>7. CASE job.api \in {"CHFS", "FINCHFS", "CEPHFS", "RADOS"}
  BY <1>3, <1>7 DEF Answer, CHFS_xfer, FINCHFS_xfer, CEPHFS_Xfer, RADOS_Xfer
<1>8. CASE job.api \in {"S3", "MMAP", "PMDK", "DUMMY"}
  BY <1>8 DEF Answer, S3_Xfer, MMAP_Xfer, PMDK_Xfer, DUMMY_Xfer
<1> QED
  BY <1>1, <1>4, <1>5, <1>6, <1>7, <1>8 DEF Apis
----------------------------------------------------------------------------
(* When no file is truncated any more.                                     *)

\* The backends in which every rank truncates a shared file: -g has to make
\* the ranks wait before they write.
Truncaters == {"IME", "CEPHFS", "S3"}
TruncatersWait == \A j \in Jobs : j.api \in Truncaters /\ ~j.filePerProc => j.intraTestBarriers

\* A rank that creates knows that all have removed.
Start == {"initialize", "remove_old", "create"}
CreateKnown(r) == at[r] \notin Start => \A s \in Ranks : Count(s) >= ToCreate

\* The calls after which nobody truncates a file.
Settled(f) ==
    /\ job.filePerProc => Count(f) >= ToCreate /\ at[f] # "create"
    /\ Shared => /\ \A s \in Ranks : Count(s) >= ToCreate
                 /\ Count(0) >= ToCreate + Opening
                 /\ job.api \in Truncaters => \A s \in Ranks : Count(s) > ToCreate

Written(f) == f \in DOMAIN files /\ \E u \in DOMAIN files[f] : files[f][u] > 0

FileInv ==
    /\ JobIn /\ FilesType /\ MovedType
    /\ \A r \in Ranks : CreateKnown(r)
    /\ \A f \in DOMAIN files : Written(f) => Settled(f)
    /\ job.api = "MMAP" =>
          \A f \in DOMAIN files : \A u \in DOMAIN files[f] : u \in Int /\ u < expectedAggFileSize

\* A rank acts only when it has made the calls that are due.
LEMMA AtMeans ==
    ASSUME Inv, NEW r \in Ranks, NEW place, At(r, place)
    PROVE  /\ at[r] = place /\ place \in Reachable /\ ahead[r] = << >> /\ Ready(r)
           /\ Count(r) = Due[place] /\ Count(r) \in Nat
           /\ Awaited[place] # "none" => calls[r][Count(r)].op = Awaited[place]
<1>1. Count(r) \in Nat
  BY CountIsNat DEF Inv, TypeInv
<1>2. at[r] = place /\ ahead[r] = << >> /\ Ready(r)
  BY DEF At
<1>3. /\ at[r] \in Reachable /\ Count(r) + Len(ahead[r]) = Due[at[r]]
      /\ Awaited[at[r]] # "none" => calls[r][Count(r)].op = Awaited[at[r]]
  BY <1>2 DEF Inv, CallInv
<1>4. Len(ahead[r]) = 0
  BY <1>2
<1>5. Count(r) = Due[at[r]]
  BY <1>1, <1>3, <1>4
<1> QED
  BY <1>1, <1>2, <1>3, <1>5

\* Who creates knows that all have removed what was there.
LEMMA CreatingKnows ==
    ASSUME Inv, NEW r \in Ranks, At(r, "create")
    PROVE  Count(r) = ToCreate /\ \A s \in Ranks : Count(s) >= ToCreate
<1>1. Awaited["create"] = "Barrier" /\ "Barrier" # "none"
  BY AwaitedAt DEF BarrierPlaces
<1>2. Count(r) = ToCreate /\ ToCreate \in Nat \ {0}
  BY AtMeans, DueAt, SizeType
<1>3. Ready(r) /\ calls[r][Count(r)].op = "Barrier"
  BY <1>1, AtMeans
<1>4. Count(r) > 0 /\ "Barrier" \in Synchronizing
  BY <1>2 DEF Synchronizing
<1>5. \A s \in Ranks : Count(s) >= Count(r)
  BY <1>3, <1>4, ReadyMeans
<1> QED
  BY <1>2, <1>5

\* Who writes knows that nobody will truncate.
LEMMA WritingKnows ==
    ASSUME Inv, FileInv, TruncatersWait, NEW r \in Ranks, At(r, "write")
    PROVE  Settled(FileOf(r))
<1>1. at[r] = "write" /\ Ready(r) /\ Count(r) = ToWrite
  BY AtMeans, DueAt
<1>2. /\ ToWrite = ToCreate + Opening + Len(AfterCreate)
      /\ ToCreate \in Nat \ {0} /\ Opening \in Nat /\ Len(AfterCreate) \in Nat
  BY SizeType, OpsOfJob DEF ToWrite
<1>3. WriteWait # "none" => calls[r][Count(r)].op = WriteWait
  BY AtMeans, AwaitedAt
<1>4. \A s \in Ranks : Count(s) >= ToCreate /\ Count(s) \in Nat
  <2>1. at[r] \notin Start
    BY <1>1 DEF Start
  <2> QED
    BY <2>1, CountIsNat DEF FileInv, CreateKnown, Inv, TypeInv
<1>5. Count(r) > 0
  BY <1>1, <1>2
<1>6. ASSUME job.filePerProc PROVE Settled(FileOf(r))
  BY <1>1, <1>4, <1>6 DEF Settled, Shared, FileOf
<1>7. ASSUME WriteWait = "Barrier" PROVE \A s \in Ranks : Count(s) >= ToWrite
  <2>1. "Barrier" # "none" /\ "Barrier" \in Synchronizing
    BY DEF Synchronizing
  <2> QED
    BY <1>1, <1>3, <1>5, <1>7, <2>1, ReadyMeans
<1>8. ASSUME WriteWait = "Bcast" PROVE Count(0) >= ToWrite
  <2>1. "Bcast" # "none"
    OBVIOUS
  <2> QED
    BY <1>1, <1>3, <1>5, <1>8, <2>1, BcastMeans
<1>9. WriteWait = "none" => Opening = 0
  BY DEF WriteWait
<1>10. WriteWait \in {"none", "Barrier", "Bcast"}
  BY DEF WriteWait
<1>11. Count(0) >= ToCreate + Opening
  <2>1. 0 \in Ranks
    BY FileOfRank
  <2>2. Count(0) >= ToWrite \/ (Opening = 0 /\ Count(0) >= ToCreate)
    BY <1>4, <1>7, <1>8, <1>9, <1>10, <2>1
  <2>3. Count(0) \in Nat
    BY <1>4, <2>1
  <2> DEFINE m == Len(AfterCreate)
  <2>4. m \in Nat /\ ToWrite = ToCreate + Opening + m
    BY <1>2
  <2> HIDE DEF m
  <2> QED
    BY <1>2, <2>2, <2>3, <2>4
<1>12. ASSUME Shared, job.api \in Truncaters PROVE \A s \in Ranks : Count(s) > ToCreate
  <2>1. job.intraTestBarriers
    BY <1>12 DEF TruncatersWait, Inv, TypeInv, Shared
  <2>2. WriteWait = "Barrier" /\ AfterCreate = <<"Barrier">>
    BY <2>1 DEF WriteWait, AfterCreate
  <2>3. Len(AfterCreate) = 1
    BY <2>2
  <2>4. ToWrite > ToCreate /\ ToWrite \in Nat
    BY <1>2, <2>3
  <2> QED
    BY <1>2, <1>4, <1>7, <2>2, <2>4
<1> QED
  BY <1>4, <1>6, <1>11, <1>12 DEF Settled, Shared

\* What a step does to the files: a file gets other contents, with what was
\* written in it and no more of that; or units of a buffer are stored in it.
Refill(f, c) ==
    /\ files' = With(f, c) /\ f \in Ranks /\ c \in Contents
    /\ \A u \in DOMAIN c : c[u] > 0 => f \in DOMAIN files /\ u \in DOMAIN files[f] /\ files[f][u] = c[u]
    /\ f \in DOMAIN files =>
          \A u \in DOMAIN files[f] : files[f][u] > 0 => u \in DOMAIN c /\ c[u] = files[f][u]
Refills == \E f, c : Refill(f, c)
Stores(r) ==
    /\ At(r, "write")
    /\ \E n \in Results(r, "write") :
          files' = Stored(FileOf(r), FirstUnit(r, "write"), n, r, IF job.api = "MPIIO" THEN 0 ELSE moved[r])

\* Nothing is lost of a file that nobody has written, or that is not there.
LEMMA TruncatedIs ==
    ASSUME FileInv, NEW f \in Ranks, files' = Truncated(f), ~Settled(f)
    PROVE  Refills
<1>1. f \in DOMAIN files => ~Written(f)
  BY DEF FileInv
<1>2. EmptyFile \in Contents /\ DOMAIN EmptyFile = {}
  BY EmptyOrOld
<1>3. Refill(f, EmptyFile)
  BY <1>1, <1>2 DEF Refill, Truncated, Written
<1> QED
  BY <1>3 DEF Refills

\* O_CREAT without O_TRUNC leaves a file that is there.
LEMMA MadeIs ==
    ASSUME NEW f \in Ranks, files' = Made(f)
    PROVE  UNCHANGED files \/ Refills
<1>1. CASE f \in DOMAIN files
  BY <1>1 DEF Made, Exists
<1>2. CASE f \notin DOMAIN files
  <2>1. EmptyFile \in Contents /\ DOMAIN EmptyFile = {}
    BY EmptyOrOld
  <2>2. Refill(f, EmptyFile)
    BY <1>2, <2>1 DEF Refill, Made, Exists
  <2> QED
    BY <2>2 DEF Refills
<1> QED
  BY <1>1, <1>2

\* ftruncate extends a file.
LEMMA ExtendedIs ==
    ASSUME FilesType, NEW f \in Ranks, NEW k \in Nat,
           NEW c, c = [u \in 0..(k - 1) |-> IF Exists(f) /\ u \in DOMAIN files[f] THEN files[f][u] ELSE Hole],
           files' = With(f, c),
           f \in DOMAIN files => \A u \in DOMAIN files[f] : files[f][u] > 0 => u \in 0..(k - 1)
    PROVE  Refills
<1>1. f \in DOMAIN files => \A u \in DOMAIN files[f] : files[f][u] \in Int
  <2>1. f \in DOMAIN files => files[f] \in Contents
    BY DEF FilesType
  <2> QED
    BY <2>1 DEF Contents
<1>2. c \in [0..(k - 1) -> Int] /\ DOMAIN c = 0..(k - 1)
  BY <1>1 DEF Hole, Exists
<1>3. c \in Contents
  BY <1>2 DEF Contents
<1>4. \A u \in DOMAIN c : c[u] > 0 => f \in DOMAIN files /\ u \in DOMAIN files[f] /\ files[f][u] = c[u]
  BY <1>2 DEF Hole, Exists
<1>5. f \in DOMAIN files =>
         \A u \in DOMAIN files[f] : files[f][u] > 0 => u \in DOMAIN c /\ c[u] = files[f][u]
  BY <1>2 DEF Exists
<1>6. Refill(f, c)
  BY <1>3, <1>4, <1>5 DEF Refill
<1> QED
  BY <1>6 DEF Refills

\* Creating a file, whichever backend does it.
LEMMA CreateChanges ==
    ASSUME Inv, FileInv, NEW r \in Ranks, create(r)
    PROVE  UNCHANGED files \/ Refills
<1>1. At(r, "create")
  BY DEF create
<1>2. /\ at[r] = "create" /\ Count(r) = ToCreate /\ Count(r) \in Nat /\ Opening \in Nat
  BY <1>1, AtMeans, CreatingKnows, SizeType
<1>3. FileOf(r) \in Ranks /\ 0 \in Ranks /\ FilesType
  BY FileOfRank DEF FileInv
<1>4. ASSUME job.filePerProc PROVE ~Settled(r)
  BY <1>2, <1>4 DEF Settled
<1>5. ASSUME job.api \in Truncaters PROVE ~Settled(FileOf(r))
  <2>1. CASE job.filePerProc
    BY <1>4, <2>1 DEF FileOf
  <2>2. CASE ~job.filePerProc
    BY <1>2, <1>5, <2>2 DEF Settled, Shared
  <2> QED
    BY <2>1, <2>2
<1>6. ASSUME files' = Made(FileOf(r)) \/ files' = files PROVE UNCHANGED files \/ Refills
  BY <1>3, <1>6, MadeIs
<1>7. ASSUME files' = Truncated(FileOf(r)), ~Settled(FileOf(r)) PROVE Refills
  BY <1>3, <1>7, TruncatedIs
<1>8. CASE job.api = "POSIX" /\ POSIX_Create(r)
  BY <1>6, <1>8 DEF POSIX_Create, Created, CreatedFirst, CreateLater, CannotCreate
<1>9. CASE job.api = "MMAP" /\ MMAP_Create(r)
  <2> DEFINE f == FileOf(r)
             c == [u \in 0..(expectedAggFileSize - 1) |->
                      IF Exists(f) /\ u \in DOMAIN files[f] THEN files[f][u] ELSE Hole]
  <2>1. UNCHANGED files \/ files' = With(f, c)
    BY <1>9 DEF MMAP_Create, Created, CannotCreate
  <2>2. f \in DOMAIN files => \A u \in DOMAIN files[f] : u \in 0..(expectedAggFileSize - 1)
    <3>1. f \in DOMAIN files => \A u \in DOMAIN files[f] : u \in Int /\ u < expectedAggFileSize
      BY <1>9 DEF FileInv
    <3>2. f \in DOMAIN files => DOMAIN files[f] = 0..(FileSize(f) - 1) /\ FileSize(f) \in Nat
      BY <1>3, SizeIs
    <3> HIDE DEF f
    <3>3. expectedAggFileSize \in Nat
      BY UnitType
    <3>4. ASSUME f \in DOMAIN files, NEW u \in DOMAIN files[f] PROVE u \in 0..(expectedAggFileSize - 1)
      BY <3>1, <3>2, <3>3, <3>4
    <3> QED
      BY <3>4
  <2>3. expectedAggFileSize \in Nat /\ f \in Ranks
    BY <1>3, UnitType
  <2> HIDE DEF f
  <2> QED
    BY <1>3, <2>1, <2>2, <2>3, ExtendedIs
<1>10. CASE job.api = "MPIIO" /\ MPIIO_Open(r)
  <2>1. CASE Dry
    BY <1>6, <1>10, <2>1 DEF MPIIO_Open, Created
  <2>2. CASE ~Dry /\ job.filePerProc
    <3>1. files' = Truncated(FileOf(r)) /\ FileOf(r) = r
      BY <1>10, <2>2 DEF MPIIO_Open, Created, FileOf
    <3> QED
      BY <1>4, <1>7, <2>2, <3>1
  <2>3. CASE ~Dry /\ ~job.filePerProc
    <3>1. files' = Made(FileOf(r))
      BY <1>10, <2>3 DEF MPIIO_Open, FileOf
    <3> QED
      BY <1>6, <3>1
  <2> QED
    BY <2>1, <2>2, <2>3
<1>11. CASE job.api = "HDFS" /\ HDFS_Create_Or_Open(r)
  <2>1. CASE job.filePerProc
    <3>1. files' = Truncated(FileOf(r)) /\ FileOf(r) = r
      BY <1>11, <2>1 DEF HDFS_Create_Or_Open, Created, FileOf
    <3> QED
      BY <1>4, <1>7, <2>1, <3>1
  <2>2. CASE ~job.filePerProc /\ r = 0
    <3>1. files' = Truncated(FileOf(r)) /\ FileOf(r) = 0
      BY <1>11, <2>2 DEF HDFS_Create_Or_Open, CreatedFirst, FileOf
    <3>2. Opening = 1
      BY <1>11, <2>2 DEF Opening, Shared
    <3>3. ~Settled(0)
      BY <1>2, <2>2, <3>2 DEF Settled, Shared
    <3> QED
      BY <1>7, <3>1, <3>3
  <2>3. CASE ~job.filePerProc /\ r # 0
    BY <1>6, <1>11, <2>3 DEF HDFS_Create_Or_Open, CreateLater
  <2> QED
    BY <2>1, <2>2, <2>3
<1>12. CASE job.api \in Truncaters /\ (IME_Open(r) \/ CEPHFS_Open(r) \/ S3_Create(r))
  <2>1. files' = Truncated(FileOf(r))
    BY <1>12 DEF IME_Open, CEPHFS_Open, S3_Create, Created
  <2> QED
    BY <1>5, <1>7, <1>12, <2>1
<1>13. CASE Gfarm_create(r) \/ CHFS_create(r) \/ FINCHFS_create(r) \/ RADOS_Create_Or_Open(r)
            \/ DFS_Create(r) \/ DUMMY_Create(r)
  BY <1>6, <1>13 DEF Gfarm_create, CHFS_create, FINCHFS_create, RADOS_Create_Or_Open, DFS_Create,
                     DUMMY_Create, Created, CreatedFirst, CannotCreate
<1>14. CASE job.api = "PMDK" /\ PMDK_Create(r)
  <2> DEFINE c == [u \in 0..(Length - 1) |-> Hole]
  <2>1. UNCHANGED files \/ (files' = With(r, c) /\ r \notin DOMAIN files)
    BY <1>14 DEF PMDK_Create, Created, CannotCreate, Exists
  <2>2. c \in [0..(Length - 1) -> Int] /\ Length \in Nat /\ \A u \in DOMAIN c : c[u] = 0
    BY UnitType DEF Hole
  <2>3. c \in Contents
    BY <2>2 DEF Contents
  <2> HIDE DEF c
  <2>4. r \notin DOMAIN files /\ files' = With(r, c) => Refill(r, c)
    BY <2>2, <2>3 DEF Refill
  <2> QED
    BY <2>1, <2>4 DEF Refills
<1>15. CASE UNCHANGED files
  BY <1>15
<1> QED
  BY <1>8, <1>9, <1>10, <1>11, <1>12, <1>13, <1>14, <1>15 DEF create, CannotCreate, Truncaters

\* What is left to do of creating, after rank 0 or together.
LEMMA LateCreateChanges ==
    ASSUME Inv, FileInv, NEW r \in Ranks, LateCreate(r)
    PROVE  UNCHANGED files \/ Refills
<1>1. At(r, "late_create") /\ 0 \in Ranks
  BY FileOfRank DEF LateCreate
<1>2. Count(r) = ToCreate + 1 /\ Opening > 0 /\ ToCreate \in Nat
  BY <1>1, AtMeans, DueAt, SizeType DEF Reachable
<1>3. CASE job.api = "MPIIO" /\ r = 0
  <2>1. files' = Truncated(0)
    BY <1>3 DEF LateCreate, CreatedFirst
  <2>2. Opening = 2 /\ Shared
    BY <1>2, <1>3 DEF Opening
  <2>3. ~Settled(0)
    BY <1>2, <1>3, <2>2 DEF Settled
  <2> QED
    BY <1>1, <2>1, <2>3, TruncatedIs
<1>4. CASE job.api = "MPIIO" /\ r # 0
  BY <1>4 DEF LateCreate, CreatedFirst
<1>5. CASE job.api = "HDFS"
  <2>1. files' = Made(0)
    BY <1>5 DEF LateCreate, Created
  <2> QED
    BY <1>1, <2>1, MadeIs
<1>6. CASE job.api = "POSIX"
  BY <1>6 DEF LateCreate, Created, CannotCreate
<1> QED
  BY <1>3, <1>4, <1>5, <1>6 DEF LateCreate

\* All changes of the files.
LEMMA Changes ==
    ASSUME Inv, FileInv, NEW r \in Ranks, RankNext(r)
    PROVE  UNCHANGED files \/ Refills \/ Stores(r) \/ \E f : files' = Without(f)
<1>1. CASE create(r) \/ LateCreate(r)
  BY <1>1, CreateChanges, LateCreateChanges
<1>2. CASE RemoveOld(r)
  BY <1>2 DEF RemoveOld
<1>3. CASE Delete(r)
  BY <1>3 DEF Delete
<1>4. CASE write(r)
  BY <1>4 DEF write, Move, Stores
<1>5. CASE read(r)
  BY <1>5 DEF read, Move
<1>6. CASE Collective(r) \/ initialize(r) \/ fsync(r) \/ close(r) \/ GetFileSize(r) \/ CEPHFS_ReduceSize(r)
           \/ CheckFileSize(r) \/ AggregateSize(r) \/ open(r) \/ CloseRead(r) \/ finalize(r)
           \/ cont_close(r) \/ cont_destroy(r) \/ pool_disconnect(r)
  BY <1>6 DEF Collective, initialize, fsync, close, GetFileSize, CEPHFS_ReduceSize, CheckFileSize,
              AggregateSize, open, CloseRead, finalize, cont_close, cont_destroy, pool_disconnect
<1> QED
  BY <1>1, <1>2, <1>3, <1>4, <1>5, <1>6 DEF RankNext

\* The places up to creating come one after the other.
LEMMA StartSteps ==
    ASSUME NEW r \in Ranks, RankNext(r)
    PROVE  \/ UNCHANGED at
           \/ at[r] = "initialize" /\ Go(r, "remove_old")
           \/ At(r, "remove_old") /\ Go(r, "create")
           \/ /\ at[r] \notin Start \/ At(r, "create")
              /\ \E to : to \notin Start /\ Go(r, to)
<1>1. CASE Collective(r)
  BY <1>1 DEF Collective
<1>2. CASE initialize(r) \/ RemoveOld(r)
  BY <1>2 DEF initialize, DFS_Init, RemoveOld, GoAfter, At
<1>3. CASE create(r)
  <2>1. At(r, "create")
    BY <1>3 DEF create
  <2>2. UNCHANGED at \/ Go(r, "write") \/ Go(r, "late_create")
    BY <1>3 DEF create, POSIX_Create, MMAP_Create, MPIIO_Open, HDFS_Create_Or_Open, IME_Open, CEPHFS_Open,
       S3_Create, Gfarm_create, CHFS_create, FINCHFS_create, RADOS_Create_Or_Open, DFS_Create, PMDK_Create,
       DUMMY_Create, Created, CreatedFirst, CreateLater, CannotCreate, GoAfter, ERR
  <2> QED
    BY <2>1, <2>2 DEF Start
<1>4. CASE LateCreate(r)
  BY <1>4 DEF LateCreate, Created, CreatedFirst, CannotCreate, GoAfter, ERR, At, Start
<1>5. CASE write(r) \/ read(r)
  BY <1>5 DEF write, read, Move, GoAfter, ERR, At, Start
<1>6. CASE fsync(r) \/ close(r)
  BY <1>6 DEF fsync, close, GoAfter, At, Start
<1>7. CASE GetFileSize(r)
  BY <1>7 DEF GetFileSize, MPIIO_GetFileSize, DFS_GetFileSize, CEPHFS_GetFileSize, GoAfter, At, Start
<1>8. CASE CEPHFS_ReduceSize(r) \/ CheckFileSize(r) \/ AggregateSize(r)
  BY <1>8 DEF CEPHFS_ReduceSize, CheckFileSize, AggregateSize, GoAfter, At, Start
<1>9. CASE open(r) \/ CloseRead(r)
  BY <1>9 DEF open, CloseRead, GoAfter, ERR, At, Start
<1>10. CASE Delete(r) \/ finalize(r)
  BY <1>10 DEF Delete, finalize, DFS_Finalize, GoAfter, At, Start
<1>11. CASE cont_close(r) \/ cont_destroy(r) \/ pool_disconnect(r)
  BY <1>11 DEF cont_close, cont_destroy, pool_disconnect, GoAfter, At, Start
<1> QED
  BY <1>1, <1>2, <1>3, <1>4, <1>5, <1>6, <1>7, <1>8, <1>9, <1>10, <1>11 DEF RankNext

\* Calls are only added.
LEMMA CountsGrow ==
    ASSUME Inv, NEW r \in Ranks, RankNext(r)
    PROVE  \A s \in Ranks : Count(s) \in Nat /\ Count(s)' \in Nat /\ Count(s)' >= Count(s)
<1>1. CallsType /\ Answers /\ at[r] \in Reachable /\ ahead \in [Ranks -> Seq(Collectives)]
  BY DEF Inv, TypeInv, CallInv, CallsType
<1>2. \A s \in Ranks : Count(s) \in Nat
  BY CountIsNat DEF Inv, TypeInv
<1>3. ASSUME NEW op \in Collectives, NEW value, Send(r, op, value)
      PROVE  \A s \in Ranks : Count(s)' \in Nat /\ Count(s)' >= Count(s)
  <2>1. Count(r)' = Count(r) + 1 /\ \A s \in Ranks \ {r} : Count(s)' = Count(s)
    BY <1>1, <1>3, CallMore
  <2> QED
    BY <1>2, <2>1
<1>4. CASE UNCHANGED calls
  BY <1>2, <1>4 DEF Count
<1>5. CASE Collective(r)
  <2>1. Head(ahead[r]) \in Collectives
    BY <1>1, <1>5, FirstAndRest DEF Collective
  <2> QED
    BY <1>2, <1>3, <1>5, <2>1 DEF Collective, Call
<1>6. CASE Stays \/ Walks(r)
  BY <1>4, <1>6 DEF Stays, Walks, GoAfter
<1>7. CASE Sends(r)
  BY <1>2, <1>3, <1>7, OpsType DEF Sends
<1> QED
  BY <1>1, <1>5, <1>6, <1>7, Steps

\* The command line stays.
LEMMA JobStays == ASSUME NEW r \in Ranks, RankNext(r) PROVE UNCHANGED job
BY DEF RankNext, Collective, initialize, RemoveOld, create, LateCreate, write, fsync,
       close, GetFileSize, CEPHFS_ReduceSize, CheckFileSize, AggregateSize, open, read, CloseRead,
       Delete, finalize, cont_close, cont_destroy, pool_disconnect

\* Nobody begins to truncate again.
LEMMA SettledStays ==
    ASSUME Inv, NEW r \in Ranks, RankNext(r), NEW f \in Ranks, Settled(f)
    PROVE  Settled(f)'
<1>1. \A s \in Ranks : Count(s) \in Nat /\ Count(s)' \in Nat /\ Count(s)' >= Count(s)
  BY CountsGrow
<1>2. UNCHANGED job
  BY JobStays
<1>3. ToCreate' = ToCreate /\ Opening' = Opening /\ (Shared' <=> Shared) /\ ToCreate \in Nat /\ Opening \in Nat
  BY <1>2, SizeType DEF ToCreate, Opening, Shared, Optional, Dry
<1>4. at \in [Ranks -> Places]
  BY DEF Inv, TypeInv
<1>5. ASSUME job.filePerProc PROVE at'[f] # "create"
  <2>1. Count(f) >= ToCreate /\ at[f] # "create"
    BY <1>5 DEF Settled
  <2>2. ASSUME At(r, "remove_old") PROVE f # r
    <3>1. Count(r) = ToCreate - 1
      BY <2>2, AtMeans, DueAt
    <3> QED
      BY <1>1, <1>3, <2>1, <3>1
  <2> QED
    BY <1>4, <2>1, <2>2, StartSteps DEF Go, Start
<1>6. ASSUME Shared
      PROVE  /\ \A s \in Ranks : Count(s)' >= ToCreate
             /\ Count(0)' >= ToCreate + Opening
             /\ job.api \in Truncaters => \A s \in Ranks : Count(s)' > ToCreate
  <2>1. 0 \in Ranks
    BY FileOfRank
  <2>2. \A s \in Ranks : Count(s)' >= ToCreate
    BY <1>1, <1>3, <1>6 DEF Settled
  <2>3. Count(0)' >= ToCreate + Opening
    BY <1>1, <1>3, <1>6, <2>1 DEF Settled
  <2>4. job.api \in Truncaters => \A s \in Ranks : Count(s)' > ToCreate
    BY <1>1, <1>3, <1>6 DEF Settled
  <2> QED
    BY <2>2, <2>3, <2>4
<1>7. ASSUME job.filePerProc PROVE Count(f)' >= ToCreate
  BY <1>1, <1>3, <1>7 DEF Settled
<1> QED
  BY <1>2, <1>3, <1>5, <1>6, <1>7 DEF Settled

\* A step leaves the data in the files that it leaves.
DataStays ==
    \A f \in DOMAIN files \cap DOMAIN files' :
        \A u \in DOMAIN files[f] : files[f][u] > 0 => u \in DOMAIN files'[f] /\ files'[f][u] # Hole

\* Each change of the files leaves the data there.
LEMMA StoresKeeps ==
    ASSUME FileInv, NEW r \in Ranks, Stores(r)
    PROVE  /\ FilesType' /\ DataStays
           /\ \A f \in DOMAIN files' : Written(f)' => Written(f) \/ (At(r, "write") /\ f = FileOf(r))
           /\ \A f \in DOMAIN files' : f \in DOMAIN files /\ (f # FileOf(r) => files'[f] = files[f])
<1> DEFINE g == FileOf(r)
           first == FirstUnit(r, "write")
           k == IF job.api = "MPIIO" THEN 0 ELSE moved[r]
<1>1. FilesType /\ MovedType /\ g \in Ranks
  BY FileOfRank DEF FileInv
<1>2. first \in Nat /\ k \in Nat
  BY <1>1, WhereType
<1>3. PICK n \in Int : files' = Stored(g, first, n, r, k)
  <2>1. PICK n \in Results(r, "write") : files' = Stored(g, first, n, r, k)
    BY DEF Stores
  <2>2. n \in Int
    BY <1>1, ResultsType
  <2> QED
    BY <2>1, <2>2
<1> DEFINE new == first..(first + n - 1)
<1> HIDE DEF g, first, k
<1>4. /\ FilesType' /\ DOMAIN files' = DOMAIN files
      /\ \A h \in DOMAIN files \ {g} : files'[h] = files[h]
      /\ g \in DOMAIN files =>
            /\ \A u \in DOMAIN files[g] \ new : u \in DOMAIN files'[g] /\ files'[g][u] = files[g][u]
            /\ \A u \in new : u \in DOMAIN files'[g] /\ files'[g][u] = Data(r, k + u - first)
  BY <1>1, <1>2, <1>3, StoredIs
<1>5. \A u \in new : Data(r, k + u - first) # Hole
  <2>1. \A u \in new : k + u - first \in Nat
    BY <1>2
  <2> QED
    BY <2>1, DataType
<1> HIDE DEF new
<1>6. DataStays
  <2> SUFFICES ASSUME NEW f \in DOMAIN files, NEW u \in DOMAIN files[f], files[f][u] > 0
               PROVE  u \in DOMAIN files'[f] /\ files'[f][u] # Hole
    BY DEF DataStays
  <2>1. CASE f # g
    BY <1>4, <2>1 DEF Hole
  <2>2. CASE f = g /\ u \in new
    BY <1>4, <1>5, <2>2
  <2>3. CASE f = g /\ u \notin new
    BY <1>4, <2>3 DEF Hole
  <2> QED
    BY <2>1, <2>2, <2>3
<1>7. \A f \in DOMAIN files' : f # g => (Written(f)' => Written(f))
  BY <1>4 DEF Written
<1>8. At(r, "write")
  BY DEF Stores
<1> QED
  BY <1>4, <1>6, <1>7, <1>8 DEF g

\* The data is there after every step, and only who writes makes a file written.
LEMMA StepKeepsData ==
    ASSUME Inv, FileInv, NEW r \in Ranks, RankNext(r)
    PROVE  /\ FilesType' /\ DataStays
           /\ \A f \in DOMAIN files' : Written(f)' => Written(f) \/ (At(r, "write") /\ f = FileOf(r))
<1>1. FilesType
  BY DEF FileInv
<1>2. CASE UNCHANGED files
  BY <1>1, <1>2 DEF FilesType, DataStays, Written, Hole
<1>3. CASE Refills
  <2>1. PICK f, c : Refill(f, c)
    BY <1>3 DEF Refills
  <2>2. /\ FilesType' /\ DOMAIN files' = DOMAIN files \cup {f} /\ files'[f] = c
        /\ \A g \in DOMAIN files \ {f} : files'[g] = files[g]
    BY <1>1, <2>1, WithIs DEF Refill
  <2>3. /\ \A u \in DOMAIN c : c[u] > 0 => f \in DOMAIN files /\ u \in DOMAIN files[f] /\ files[f][u] = c[u]
        /\ f \in DOMAIN files =>
              \A u \in DOMAIN files[f] : files[f][u] > 0 => u \in DOMAIN c /\ c[u] = files[f][u]
    BY <2>1 DEF Refill
  <2>4. DataStays
    BY <2>2, <2>3 DEF DataStays, Hole
  <2>5. \A g \in DOMAIN files' : Written(g)' => Written(g)
    BY <2>2, <2>3 DEF Written
  <2> QED
    BY <2>2, <2>4, <2>5
<1>4. CASE \E f : files' = Without(f)
  <2>1. PICK f : files' = Without(f)
    BY <1>4
  <2>2. /\ FilesType' /\ DOMAIN files' = DOMAIN files \ {f}
        /\ \A g \in DOMAIN files' : files'[g] = files[g]
    BY <1>1, <2>1, WithoutIs
  <2> QED
    BY <2>2 DEF DataStays, Written, Hole
<1> QED
  BY <1>2, <1>3, <1>4, Changes, StoresKeeps

\* A step keeps how far the transfers are.
LEMMA MovedKeeps ==
    ASSUME FileInv, NEW r \in Ranks, RankNext(r)
    PROVE  MovedType'
<1>1. MovedType /\ FilesType /\ JobIn /\ Length \in Nat \ {0}
  BY UnitType DEF FileInv
<1>2. CASE UNCHANGED moved
  BY <1>1, <1>2 DEF MovedType
<1>3. ASSUME NEW access, NEW next, Move(r, access, next) PROVE MovedType'
  <2>1. PICK n \in Results(r, access) :
           \/ UNCHANGED moved
           \/ moved' = [moved EXCEPT ![r] = 0]
           \/ /\ Answer(access, n, Length - moved[r], xferRetries[r]) = "again"
              /\ moved' = [moved EXCEPT ![r] = IF job.api = "MPIIO" THEN 0 ELSE @ + n]
    BY <1>3 DEF Move
  <2> DEFINE left == Length - moved[r]
  <2>2. n \in Int /\ n <= Asked(r)
    BY <1>1, ResultsType
  <2>3. left \in Nat \ {0} /\ moved[r] \in Nat /\ (job.api \notin {"MPIIO", "GFARM"} => Asked(r) = left)
    BY <1>1, WhereType
  <2>4. CASE UNCHANGED moved
    BY <1>2, <2>4
  <2>5. CASE moved' = [moved EXCEPT ![r] = 0]
    BY <1>1, <2>5 DEF MovedType
  <2>6. CASE /\ Answer(access, n, left, xferRetries[r]) = "again"
             /\ moved' = [moved EXCEPT ![r] = IF job.api = "MPIIO" THEN 0 ELSE @ + n]
    <3>1. n <= left \/ job.api \in {"MPIIO", "GFARM"}
      BY <2>2, <2>3
    <3>2. left \in Nat
      BY <2>3
    <3> HIDE DEF left
    <3>3. job.api = "MPIIO" \/ (0 <= n /\ n < left)
      BY <1>1, <2>2, <2>6, <3>1, <3>2, AgainMeans
    <3>4. job.api = "MPIIO" \/ moved[r] + n \in 0..(Length - 1)
      BY <1>1, <2>2, <2>3, <3>3 DEF left
    <3>5. CASE job.api = "MPIIO"
      BY <1>1, <2>6, <3>5 DEF MovedType
    <3>6. CASE job.api # "MPIIO"
      <4>1. moved' = [moved EXCEPT ![r] = moved[r] + n]
        BY <2>6, <3>6
      <4> QED
        BY <1>1, <3>4, <3>6, <4>1 DEF MovedType
    <3> QED
      BY <3>5, <3>6
  <2> QED
    BY <2>1, <2>4, <2>5, <2>6
<1>4. CASE write(r) \/ read(r)
  BY <1>2, <1>3, <1>4 DEF write, read, transfer
<1>5. CASE Collective(r) \/ initialize(r) \/ RemoveOld(r) \/ create(r) \/ LateCreate(r) \/ fsync(r) \/ close(r)
  BY <1>2, <1>5 DEF Collective, initialize, RemoveOld, create, LateCreate, fsync, close, transfer
<1>6. CASE GetFileSize(r) \/ CEPHFS_ReduceSize(r) \/ CheckFileSize(r) \/ AggregateSize(r) \/ open(r)
           \/ CloseRead(r) \/ Delete(r) \/ finalize(r)
           \/ cont_close(r) \/ cont_destroy(r) \/ pool_disconnect(r)
  BY <1>2, <1>6 DEF GetFileSize, CEPHFS_ReduceSize, CheckFileSize,
              AggregateSize, open, CloseRead, Delete, finalize, cont_close, cont_destroy, pool_disconnect, transfer
<1> QED
  BY <1>4, <1>5, <1>6 DEF RankNext

\* Who has begun to create knows that all have removed.
LEMMA KnownKeeps ==
    ASSUME Inv, FileInv, NEW r \in Ranks, RankNext(r), NEW s \in Ranks
    PROVE  CreateKnown(s)'
<1>1. \A q \in Ranks : Count(q) \in Nat /\ Count(q)' \in Nat /\ Count(q)' >= Count(q)
  BY CountsGrow
<1>2. UNCHANGED job /\ at \in [Ranks -> Places]
  BY JobStays DEF Inv, TypeInv
<1>3. ToCreate' = ToCreate /\ ToCreate \in Nat
  BY <1>2, SizeType DEF ToCreate
<1>4. ASSUME at[s] \notin Start \/ At(s, "create") PROVE \A q \in Ranks : Count(q) >= ToCreate
  BY <1>4, CreatingKnows DEF FileInv, CreateKnown
<1>5. ASSUME at'[s] \notin Start PROVE at[s] \notin Start \/ At(s, "create")
  <2>1. CASE r = s
    <3>1. ASSUME at[s] = "initialize", Go(r, "remove_old") PROVE FALSE
      BY <1>2, <1>5, <2>1, <3>1 DEF Go, Start
    <3>2. ASSUME Go(r, "create") PROVE FALSE
      BY <1>2, <1>5, <2>1, <3>2 DEF Go, Start
    <3> QED
      BY <1>5, <2>1, <3>1, <3>2, StartSteps
  <2>2. CASE r # s
    <3>1. at'[s] = at[s]
      BY <1>2, <2>2, StartSteps DEF Go
    <3> QED
      BY <1>5, <3>1
  <2> QED
    BY <2>1, <2>2
<1>6. ASSUME at'[s] \notin Start PROVE \A q \in Ranks : Count(q)' >= ToCreate
  <2>1. \A q \in Ranks : Count(q) >= ToCreate
    BY <1>4, <1>5, <1>6
  <2> QED
    BY <1>1, <1>3, <2>1
<1> QED
  BY <1>3, <1>6 DEF CreateKnown

\* The part of a rank ends where the files of all ranks together end.
LEMMA EndOfPart == \A r \in Ranks : offset(r) + Length <= expectedAggFileSize
<1>1. N \in Nat \ {0} /\ Length \in Nat \ {0}
  BY MpiAssumption, UnitType
<1>2. \A a, b \in Nat : \A l \in Nat : a < b => a * l + l <= b * l
  <2>1. ASSUME NEW a \in Nat, NEW b \in Nat, NEW l \in Nat, a < b PROVE a * l + l <= b * l
    <3>1. PICK d \in Nat : b = a + 1 + d
      <4>1. b - a - 1 \in Nat /\ b = a + 1 + (b - a - 1)
        BY <2>1
      <4> QED
        BY <4>1
    <3>2. b * l = a * l + l + d * l
      BY <3>1
    <3>3. d * l \in Nat /\ a * l \in Nat /\ b * l \in Nat
      OBVIOUS
    <3> QED
      BY <3>2, <3>3
  <2> QED
    BY <2>1
<1>3. ASSUME NEW r \in Ranks PROVE r * Length + Length <= N * Length /\ Length <= N * Length
  <2>1. r \in Nat /\ r < N
    BY <1>1 DEF Ranks
  <2>2. r * Length + Length <= N * Length
    BY <1>1, <1>2, <2>1
  <2>3. r * Length \in Nat /\ N * Length \in Nat
    BY <1>1, <2>1
  <2> QED
    BY <1>1, <2>2, <2>3
<1>4. ASSUME NEW r \in Ranks PROVE offset(r) = 0 \/ offset(r) = r * Length
  BY DEF offset
<1> QED
  BY <1>1, <1>3, <1>4 DEF expectedAggFileSize

\* A file of MMAP is never longer than all data.
Bounded == job.api = "MMAP" =>
              \A f \in DOMAIN files : \A u \in DOMAIN files[f] : u \in Int /\ u < expectedAggFileSize

\* What one process maps is that long from the start.
LEMMA BoundKeeps ==
    ASSUME Inv, FileInv, NEW r \in Ranks, RankNext(r)
    PROVE  Bounded'
<1> SUFFICES ASSUME job'.api = "MMAP"
             PROVE  \A f \in DOMAIN files' : \A u \in DOMAIN files'[f] : u \in Int /\ u < expectedAggFileSize
  BY DEF Bounded, expectedAggFileSize
<1>1. UNCHANGED job /\ job.api = "MMAP"
  BY JobStays
<1>2. /\ FilesType /\ MovedType /\ expectedAggFileSize \in Nat
      /\ \A f \in DOMAIN files : \A u \in DOMAIN files[f] : u \in Int /\ u < expectedAggFileSize
  BY <1>1, UnitType DEF FileInv
<1>3. CASE UNCHANGED files
  BY <1>2, <1>3
<1>4. CASE \E f : files' = Without(f)
  <2>1. PICK f : files' = Without(f)
    BY <1>4
  <2>2. DOMAIN files' = DOMAIN files \ {f} /\ \A g \in DOMAIN files' : files'[g] = files[g]
    BY <1>2, <2>1, WithoutIs
  <2> QED
    BY <1>2, <2>2
<1>5. CASE create(r)
  <2> DEFINE f == FileOf(r)
             c == [u \in 0..(expectedAggFileSize - 1) |->
                      IF Exists(f) /\ u \in DOMAIN files[f] THEN files[f][u] ELSE Hole]
  <2>1. UNCHANGED files \/ files' = With(f, c)
    BY <1>1, <1>5 DEF create, MMAP_Create, Created, CannotCreate
  <2> HIDE DEF f
  <2>2. \A u \in DOMAIN c : u \in Int /\ u < expectedAggFileSize
    BY <1>2
  <2> HIDE DEF c
  <2>3. files' = With(f, c) => \A g \in DOMAIN files' : files'[g] = c \/ (g \in DOMAIN files /\ files'[g] = files[g])
    BY DEF With
  <2> QED
    BY <1>2, <1>3, <2>1, <2>2, <2>3
<1>6. CASE Stores(r)
  <2> DEFINE g == FileOf(r)
             first == FirstUnit(r, "write")
             k == IF job.api = "MPIIO" THEN 0 ELSE moved[r]
  <2>1. g \in Ranks /\ first \in Nat /\ k \in Nat
    BY <1>2, FileOfRank, WhereType
  <2>2. PICK n \in Results(r, "write") : files' = Stored(g, first, n, r, k)
    BY <1>6 DEF Stores
  <2>3. n \in Int /\ n <= Asked(r)
    BY <1>2, ResultsType
  <2>4. first + n <= expectedAggFileSize
    <3>1. Asked(r) = Length - moved[r] /\ moved[r] \in Nat /\ Length \in Nat
      BY <1>1, <1>2, WhereType, UnitType
    <3>2. first = moved[r] + offset(r)
      BY <1>1 DEF FirstUnit, Where
    <3>3. offset(r) \in Nat /\ offset(r) + Length <= expectedAggFileSize
      BY UnitType, EndOfPart
    <3> HIDE DEF first
    <3> QED
      BY <1>2, <2>3, <3>1, <3>2, <3>3
  <2> HIDE DEF g, first, k
  <2>5. DOMAIN files' = DOMAIN files /\ \A h \in DOMAIN files \ {g} : files'[h] = files[h]
    BY <1>2, <2>1, <2>2, <2>3, StoredIs
  <2>6. FilesType' /\ (g \in DOMAIN files =>
           \A u \in DOMAIN files'[g] : \E y \in DOMAIN files[g] \cup (first..(first + n - 1)) : u <= y)
    BY <1>2, <2>1, <2>2, <2>3, StoredIs
  <2>7. ASSUME g \in DOMAIN files, NEW u \in DOMAIN files'[g] PROVE u \in Int /\ u < expectedAggFileSize
    <3>1. files'[g] \in Contents
      BY <2>5, <2>6, <2>7 DEF FilesType
    <3>2. PICK m \in Nat : files'[g] \in [0..(m - 1) -> Int]
      BY <3>1 DEF Contents
    <3>3. u \in Int
      BY <2>7, <3>2
    <3>4. PICK y \in DOMAIN files[g] \cup (first..(first + n - 1)) : u <= y
      BY <2>6, <2>7
    <3>5. y \in Int /\ y < expectedAggFileSize
      <4>1. CASE y \in DOMAIN files[g]
        BY <1>2, <2>7, <4>1
      <4>2. CASE y \in first..(first + n - 1)
        BY <1>2, <2>1, <2>3, <2>4, <4>2
      <4> QED
        BY <3>4, <4>1, <4>2
    <3> QED
      BY <1>2, <3>3, <3>4, <3>5
  <2> QED
    BY <1>2, <2>5, <2>7
<1>7. CASE LateCreate(r)
  BY <1>1, <1>7 DEF LateCreate
<1>8. CASE RemoveOld(r) \/ Delete(r)
  BY <1>3, <1>4, <1>8 DEF RemoveOld, Delete
<1>9. CASE write(r) \/ read(r)
  BY <1>3, <1>6, <1>9 DEF write, read, Move, Stores
<1>10. CASE Collective(r) \/ initialize(r) \/ fsync(r) \/ close(r) \/ GetFileSize(r) \/ CEPHFS_ReduceSize(r)
           \/ CheckFileSize(r) \/ AggregateSize(r) \/ open(r) \/ CloseRead(r) \/ finalize(r)
           \/ cont_close(r) \/ cont_destroy(r) \/ pool_disconnect(r)
  BY <1>3, <1>10 DEF Collective, initialize, fsync, close, GetFileSize, CEPHFS_ReduceSize, CheckFileSize,
              AggregateSize, open, CloseRead, finalize, cont_close, cont_destroy, pool_disconnect
<1> QED
  BY <1>5, <1>7, <1>8, <1>9, <1>10 DEF RankNext

\* A test begins like that.
LEMMA FileInit == Init => FileInv
<1> SUFFICES ASSUME Init PROVE FileInv
  OBVIOUS
<1>1. JobIn
  BY BackendsAssumption DEF Init, JobIn
<1>2. MovedType
  BY UnitType DEF Init, MovedType
<1>3. \A r \in Ranks : CreateKnown(r)
  BY DEF Init, CreateKnown, Start
<1>4. DOMAIN files \subseteq Ranks /\ \A f \in DOMAIN files : files[f] = OldFile
  BY FileOfRank DEF Init
<1>5. FilesType
  <2>1. files = [f \in DOMAIN files |-> files[f]]
    BY DEF Init
  <2> QED
    BY <1>4, <2>1, EmptyOrOld DEF FilesType
<1>6. \A f \in DOMAIN files : ~Written(f)
  BY <1>4, EmptyOrOld DEF Written, Beyond
<1>7. \A f \in DOMAIN files : \A u \in DOMAIN files[f] : u \in Int /\ u < expectedAggFileSize
  <2>1. DOMAIN OldFile = 0..(expectedAggFileSize - 1) /\ expectedAggFileSize \in Nat
    BY UnitType DEF OldFile
  <2> QED
    BY <1>4, <2>1
<1> QED
  BY <1>1, <1>2, <1>3, <1>5, <1>6, <1>7 DEF FileInv

\* And goes on like that, if the ranks wait where each of them truncates.
LEMMA FileStep ==
    ASSUME TruncatersWait, Inv, FileInv, [Next]_vars
    PROVE  FileInv'
<1>1. CASE UNCHANGED vars
  <2>1. UNCHANGED <<job, at, calls, files, moved>>
    BY <1>1 DEF vars, transfer
  <2>2. ToCreate' = ToCreate /\ Opening' = Opening /\ (Shared' <=> Shared)
    BY <2>1 DEF ToCreate, Opening, Shared, Optional, Dry
  <2>3. JobIn' /\ FilesType' /\ MovedType' /\ \A r \in Ranks : CreateKnown(r)'
    BY <2>1, <2>2 DEF FileInv, JobIn, FilesType, MovedType, CreateKnown, Count
  <2>4. \A f \in DOMAIN files' : Written(f)' => Settled(f)'
    BY <2>1, <2>2 DEF FileInv, Written, Settled, Count
  <2>5. (job.api = "MMAP" =>
           \A f \in DOMAIN files : \A u \in DOMAIN files[f] : u \in Int /\ u < expectedAggFileSize)'
    BY <2>1 DEF FileInv, expectedAggFileSize
  <2> QED
    BY <2>3, <2>4, <2>5 DEF FileInv
<1>2. ASSUME NEW r \in Ranks, RankNext(r) PROVE FileInv'
  <2>1. JobIn'
    BY <1>2, JobStays DEF FileInv, JobIn
  <2>2. FilesType' /\ \A f \in DOMAIN files' : Written(f)' => Written(f) \/ (At(r, "write") /\ f = FileOf(r))
    BY <1>2, StepKeepsData
  <2>3. MovedType'
    BY <1>2, MovedKeeps
  <2>4. \A s \in Ranks : CreateKnown(s)'
    BY <1>2, KnownKeeps
  <2>5. ASSUME NEW f \in DOMAIN files', Written(f)' PROVE Settled(f)'
    <3>1. f \in Ranks
      BY <2>2, <2>5 DEF FilesType
    <3>2. Written(f) => Settled(f)
      BY DEF FileInv, Written
    <3>3. Settled(f)
      BY <2>2, <2>5, <3>2, WritingKnows
    <3> QED
      BY <1>2, <3>1, <3>3, SettledStays
  <2>6. Bounded'
    BY <1>2, BoundKeeps
  <2> QED
    BY <2>1, <2>2, <2>3, <2>4, <2>5, <2>6 DEF FileInv, Bounded
<1> QED
  BY <1>1, <1>2 DEF Next, Terminating

\* The files of a test, all the time: where something has been written, nobody
\* is before the truncation that he does himself.
LEMMA FilesInvariant ==
    ASSUME TruncatersWait, DaosAnswers
    PROVE  Spec => [](Inv /\ FileInv)
<1>1. Init => Inv /\ FileInv
  BY InvInit, FileInit
<1>2. Inv /\ FileInv /\ [Next]_vars => (Inv /\ FileInv)'
  BY InvStep, FileStep
<1> QED
  BY <1>1, <1>2, PTL DEF Spec

\* No step wipes out what a rank has written, on any number of ranks and
\* whatever the storage answers, but for the removal of the file, if the ranks
\* wait after the creation of a shared file that each of them truncates
\* (IME_Open, CEPHFS_Open, S3_Create: with -g), and DAOS fails no rank alone:
\* HDFS_Create_Or_Open and MPIIO_Open truncate before they let the others go.
THEOREM NobodyTruncates ==
    ASSUME TruncatersWait, DaosAnswers
    PROVE  Spec => NothingTruncated
<1>1. Inv /\ FileInv /\ [Next]_vars =>
        [\A f \in DOMAIN files \cap DOMAIN files' :
           \A u \in DOMAIN files[f] :
              files[f][u] > 0 => u \in DOMAIN files'[f] /\ files'[f][u] # Hole]_vars
  <2> SUFFICES ASSUME Inv, FileInv, Next, vars' # vars
               PROVE  DataStays
    BY DEF DataStays
  <2>1. PICK r \in Ranks : RankNext(r)
    BY DEF Next, Terminating
  <2> QED
    BY <2>1, StepKeepsData
<1> QED
  BY <1>1, FilesInvariant, PTL DEF Spec, NothingTruncated

----------------------------------------------------------------------------
(* What is in the files.                                                   *)

\* A storage that moves less than it is asked to is not that of a backend that
\* tries again at the same offset or asks for the whole length again; S3, which
\* only warns of an error, has none.
StartsAgain == {"IME", "DFS", "GFARM"}
Suits(j) == (j.short => j.api \notin StartsAgain) /\ (j.fails => j.api # "S3")

\* The integers that MPI-IO has moved, times sizeof(MPI_BYTE), are the bytes: a
\* handle is as large as an integer.
HandlesAreIntegers == \A j \in Jobs : j.bytes = 1
StorageSuits == \A j \in Jobs : Suits(j)

\* The data of this job is read back.
DataIsSafe == TruncatersWait /\ job.bytes = 1 /\ Suits(job)

\* There is data in the files, and it is at its place.
Active == ~Dry /\ job.api # "DUMMY" /\ ~Streamed

\* Before the file is open, and after it has been removed.
Early == Start \cup {"late_create"}
Ended == DfsPlaces \cup {"done"}
Removed == \E q \in Ranks : at[q] \in Ended

Last == {"read", "close_read", "remove"} \cup Ended

\* Who has opened a file knows that it is there; with DAOS rank 0 creates a shared one.
Opened(s) ==
    /\ at[s] \notin Start /\ (at[s] = "late_create" => job.api = "MPIIO")
    /\ job.api = "DFS" => job.filePerProc \/ s = 0

\* The units of its part that a rank has written.
Amount(s) == IF at[s] \in Early THEN 0 ELSE IF at[s] = "write" THEN moved[s] ELSE Length
Holds(s, m) ==
    \A k \in 0..(m - 1) : /\ FileOf(s) \in DOMAIN files /\ offset(s) + k \in DOMAIN files[FileOf(s)]
                          /\ files[FileOf(s)][offset(s) + k] = Data(s, k)
PartInv(s) ==
    Active /\ ~Removed => /\ Opened(s) => FileOf(s) \in DOMAIN files
                          /\ Holds(s, Amount(s))

\* A transfer begins with nothing, and so does each part of it where the backend
\* has no other way.
AtOnce == StartsAgain \cup {"MPIIO"}
ProgressInv(s) == at[s] \notin {"write", "read"} \/ job.api \in AtOnce \/ Dry => moved[s] = 0

\* What a rank has read.
Gotten(s) == IF at[s] = "read" THEN moved[s]
             ELSE IF at[s] \in {"close_read", "remove"} \cup Ended THEN Length ELSE 0
GotInv(s) == /\ DOMAIN got[s] = 0..(Length - 1)
             /\ Active => \A k \in 0..(Gotten(s) - 1) : got[s][k] = Data(Pretend(s), k)

\* Who opens to read knows that all have written, and who has removed that all have read.
OpenKnown(s) == at[s] \in Last => \A q \in Ranks : Count(q) >= ToOpen
RemoveKnown(s) == at[s] \in Ended => \A q \in Ranks : Count(q) >= ToRemove

\* The file is not there where it must not be.
Exclusive == (job.api = "POSIX" /\ job.striping) \/ job.api = "PMDK"
FreshInv(s) ==
    Exclusive /\ ~Dry /\ at[s] = "create" /\ (job.filePerProc \/ s = 0) => FileOf(s) \notin DOMAIN files

\* Rank 0 has nothing left to do of creating but with MPI-IO.
LateKnown(s) == at[s] = "late_create" /\ s = 0 => job.api = "MPIIO"

GotType == got = [s \in Ranks |-> got[s]]

DataInv ==
    /\ GotType /\ GivesUpForAReason
    /\ \A s \in Ranks : /\ PartInv(s) /\ ProgressInv(s) /\ GotInv(s)
                        /\ OpenKnown(s) /\ RemoveKnown(s) /\ FreshInv(s) /\ LateKnown(s)
AllInv == Inv /\ FileInv /\ DataInv

----------------------------------------------------------------------------
(* Where the ranks are.                                                    *)

Middle == {"sync", "close", "size", "reduce_size", "check_size", "checked", "open"}

\* Places between which nothing happens to the files.
Stretches == {{"initialize", "remove_old"}, Middle, {"close_read", "remove"}, Ended}

\* The steps that leave the files and what a rank has moved.
OtherStep(r) ==
    /\ UNCHANGED <<job, files, transfer, stopped>>
    /\ UNCHANGED at \/ \E S \in Stretches : at[r] \in S /\ \E to \in S : Go(r, to)

\* All steps, by what they may do.
LEMMA StepKinds ==
    ASSUME NEW r \in Ranks, RankNext(r)
    PROVE  \/ OtherStep(r) \/ create(r) \/ LateCreate(r) \/ write(r) \/ open(r) \/ read(r)
           \/ RemoveOld(r) \/ Delete(r)
<1>1. CASE Collective(r)
  BY <1>1 DEF Collective, OtherStep
<1>2. ASSUME UNCHANGED <<job, files, transfer, stopped>>, NEW S \in Stretches, at[r] \in S,
             NEW to \in S, Go(r, to)
      PROVE  OtherStep(r)
  BY <1>2 DEF OtherStep
<1>3. CASE initialize(r)
  <2>1. UNCHANGED <<job, files, transfer, stopped>> /\ at[r] = "initialize" /\ Go(r, "remove_old")
    BY <1>3 DEF initialize, DFS_Init, GoAfter, At
  <2> QED
    BY <1>2, <2>1 DEF Stretches
<1>4. CASE fsync(r) \/ close(r)
  <2>1. /\ UNCHANGED <<job, files, transfer, stopped>>
        /\ (at[r] = "sync" /\ Go(r, "close")) \/ (at[r] = "close" /\ Go(r, "size"))
    BY <1>4 DEF fsync, close, GoAfter, At
  <2> QED
    BY <1>2, <2>1 DEF Stretches, Middle
<1>5. CASE GetFileSize(r)
  <2>1. /\ UNCHANGED <<job, files, transfer, stopped>> /\ at[r] = "size"
        /\ Go(r, "check_size") \/ Go(r, "reduce_size")
    BY <1>5 DEF GetFileSize, MPIIO_GetFileSize, DFS_GetFileSize, CEPHFS_GetFileSize, GoAfter, At
  <2> QED
    BY <1>2, <2>1 DEF Stretches, Middle
<1>6. CASE CEPHFS_ReduceSize(r)
  <2>1. UNCHANGED <<job, files, transfer, stopped>> /\ at[r] = "reduce_size" /\ Go(r, "check_size")
    BY <1>6 DEF CEPHFS_ReduceSize, GoAfter, At
  <2> QED
    BY <1>2, <2>1 DEF Stretches, Middle
<1>7. CASE CheckFileSize(r) \/ AggregateSize(r)
  <2>1. /\ UNCHANGED <<job, files, transfer, stopped>>
        /\ (at[r] = "check_size" /\ Go(r, "checked")) \/ (at[r] = "checked" /\ Go(r, "open"))
    BY <1>7 DEF CheckFileSize, AggregateSize, GoAfter, At
  <2> QED
    BY <1>2, <2>1 DEF Stretches, Middle
<1>8. CASE CloseRead(r)
  <2>1. UNCHANGED <<job, files, transfer, stopped>> /\ at[r] = "close_read" /\ Go(r, "remove")
    BY <1>8 DEF CloseRead, GoAfter, At
  <2> QED
    BY <1>2, <2>1 DEF Stretches
<1>9. CASE finalize(r) \/ cont_close(r) \/ cont_destroy(r) \/ pool_disconnect(r)
  <2>1. /\ UNCHANGED <<job, files, transfer, stopped>>
        /\ \/ at[r] = "finalize" /\ Go(r, "cont_close")
           \/ at[r] = "cont_close" /\ Go(r, "destroy")
           \/ at[r] = "destroy" /\ Go(r, "disconnect")
           \/ at[r] = "disconnect" /\ Go(r, "done")
    BY <1>9 DEF finalize, DFS_Finalize, cont_close, cont_destroy, pool_disconnect, GoAfter, At
  <2> QED
    BY <1>2, <2>1 DEF Stretches, Ended, DfsPlaces
<1> QED
  BY <1>1, <1>3, <1>4, <1>5, <1>6, <1>7, <1>8, <1>9 DEF RankNext

\* What the places say about the data is the same in a stretch.
LEMMA StretchMeans ==
    ASSUME NEW S \in Stretches, NEW a \in S, NEW b \in S
    PROVE  /\ a \in Start <=> b \in Start
           /\ a \in Early <=> b \in Early
           /\ a \in Last <=> b \in Last
           /\ a \in Ended <=> b \in Ended
           /\ a \in {"close_read", "remove"} \cup Ended <=> b \in {"close_read", "remove"} \cup Ended
           /\ a \notin {"write", "read", "create", "late_create"}
           /\ b \notin {"write", "read", "create", "late_create"}
BY DEF Stretches, Middle, Start, Early, Last, Ended, DfsPlaces

\* The way to the next place.
LEMMA PlaceSteps ==
    ASSUME NEW r \in Ranks, RankNext(r)
    PROVE  \/ UNCHANGED at
           \/ \E S \in Stretches : at[r] \in S /\ \E to \in S : Go(r, to)
           \/ At(r, "remove_old") /\ Go(r, "create")
           \/ At(r, "create") /\ \E to \in {"late_create", "write"} : Go(r, to)
           \/ At(r, "late_create") /\ Go(r, "write")
           \/ At(r, "write") /\ \E to \in Middle : Go(r, to)
           \/ At(r, "open") /\ Go(r, "read")
           \/ At(r, "read") /\ Go(r, "close_read")
           \/ At(r, "remove") /\ \E to \in Ended : Go(r, to)
<1>1. CASE OtherStep(r)
  BY <1>1 DEF OtherStep
<1>2. CASE create(r)
  <2>1. At(r, "create")
    BY <1>2 DEF create
  <2>2. UNCHANGED at \/ Go(r, "write") \/ Go(r, "late_create")
    BY <1>2 DEF create, POSIX_Create, MMAP_Create, MPIIO_Open, HDFS_Create_Or_Open, IME_Open, CEPHFS_Open,
       S3_Create, Gfarm_create, CHFS_create, FINCHFS_create, RADOS_Create_Or_Open, DFS_Create, PMDK_Create,
       DUMMY_Create, Created, CreatedFirst, CreateLater, CannotCreate, GoAfter, ERR
  <2> QED
    BY <2>1, <2>2
<1>3. CASE LateCreate(r)
  BY <1>3 DEF LateCreate, Created, CreatedFirst, CannotCreate, GoAfter, ERR
<1>4. CASE write(r)
  <2> DEFINE next == IF job.fsyncPerWrite THEN "sync" ELSE "close"
  <2>1. next \in Middle
    BY DEF Middle
  <2> HIDE DEF next
  <2>2. At(r, "write") /\ (UNCHANGED at \/ Go(r, next))
    BY <1>4 DEF write, Move, GoAfter, ERR, next
  <2> QED
    BY <2>1, <2>2
<1>5. CASE open(r)
  BY <1>5 DEF open, GoAfter, ERR
<1>6. CASE read(r)
  BY <1>6 DEF read, Move, GoAfter, ERR
<1>7. CASE RemoveOld(r)
  BY <1>7 DEF RemoveOld, GoAfter
<1>8. CASE Delete(r)
  <2>1. At(r, "remove") /\ (Go(r, "finalize") \/ Go(r, "done"))
    BY <1>8 DEF Delete, GoAfter
  <2> QED
    BY <2>1 DEF Ended, DfsPlaces
<1> QED
  BY <1>1, <1>2, <1>3, <1>4, <1>5, <1>6, <1>7, <1>8, StepKinds

\* Where a step of a rank leads any of them.
LEMMA MovesTo ==
    ASSUME at \in [Ranks -> Places], NEW r \in Ranks, RankNext(r), NEW s \in Ranks
    PROVE  \/ at'[s] = at[s]
           \/ \E S \in Stretches : at[s] \in S /\ at'[s] \in S
           \/ At(s, "remove_old") /\ at'[s] = "create"
           \/ At(s, "create") /\ at'[s] \in {"late_create", "write"}
           \/ At(s, "late_create") /\ at'[s] = "write"
           \/ At(s, "write") /\ at'[s] \in Middle
           \/ At(s, "open") /\ at'[s] = "read"
           \/ At(s, "read") /\ at'[s] = "close_read"
           \/ At(s, "remove") /\ at'[s] \in Ended
<1>1. \A to : Go(r, to) => at'[s] = IF s = r THEN to ELSE at[s]
  BY DEF Go
<1>2. CASE s # r
  <2>1. UNCHANGED at \/ \E to : Go(r, to)
    BY PlaceSteps
  <2> QED
    BY <1>1, <1>2, <2>1
<1>3. CASE s = r
  BY <1>1, <1>3, PlaceSteps
<1> QED
  BY <1>2, <1>3

----------------------------------------------------------------------------
(* What a rank knows of the others.                                        *)

\* Who goes on from a barrier knows that all have called it.
LEMMA BarrierKnows ==
    ASSUME Inv, NEW r \in Ranks, NEW place \in BarrierPlaces, At(r, place), Due[place] > 0
    PROVE  \A s \in Ranks : Count(s) >= Due[place]
<1>1. /\ Ready(r) /\ Count(r) = Due[place] /\ place \in Reachable
      /\ Awaited[place] # "none" => calls[r][Count(r)].op = Awaited[place]
  BY AtMeans
<1>2. Awaited[place] = "Barrier" /\ "Barrier" \in Synchronizing
  BY AwaitedAt DEF Synchronizing
<1> QED
  BY <1>1, <1>2, ReadyMeans

\* The calls due at the places up to opening for reading, and to removing.
LEMMA DueBefore ==
    /\ \A place \in Places \ (Last \cup {"open"}) : Due[place] < ToOpen
    /\ \A place \in Places \ (Ended \cup {"remove"}) : Due[place] < ToRemove
    /\ \A place \in Start : Due[place] <= ToCreate
    /\ \A place \in Places : Due[place] \in Int
<1> DEFINE t == Len(TransferTogether)
           u == Len(Together)
           o == Optional(Shared)
           d == Optional(job.destroy)
<1>1. /\ Due["initialize"] = 0 /\ Due["remove_old"] = ToCreate - 1 /\ Due["create"] = ToCreate
      /\ Due["late_create"] = ToCreate + 1 /\ Due["write"] = ToWrite /\ Due["close"] = ToClose
      /\ Due["size"] = ToSize /\ Due["reduce_size"] = ToSize + 1
      /\ Due["open"] = ToOpen /\ Due["remove"] = ToRemove
  BY DueAt
<1>2. /\ Due["sync"] = ToWrite + t
      /\ Due["check_size"] = ToSize + Sizing /\ Due["checked"] = ToSize + Sizing + 1
      /\ Due["read"] = ToOpen + Reopening /\ Due["close_read"] = ToOpen + Reopening + t
  BY DueAt
<1>3. /\ Due["finalize"] = ToRemove + 1 /\ Due["cont_close"] = ToRemove + 4 /\ Due["destroy"] = ToRemove + 5
      /\ Due["disconnect"] = ToRemove + 5 + d
      /\ Due["done"] = ToRemove + 6 + d \/ Due["done"] = ToRemove + 1
  BY DueAt
<1>4. /\ Reopening \in Nat /\ Sizing \in Nat /\ o \in Nat /\ d \in Nat
      /\ ToCreate \in Nat \ {0} /\ ToWrite \in Nat /\ ToClose \in Nat /\ ToSize \in Nat
      /\ ToOpen \in Nat /\ ToRemove \in Nat
      /\ ToCreate <= ToWrite /\ ToWrite <= ToClose /\ ToClose < ToSize /\ ToSize < ToOpen /\ ToOpen < ToRemove
  BY SizeType
<1>5. t \in Nat /\ u \in Nat
  BY OpsOfJob
<1>6. ToOpen = ToSize + Sizing + o + 3
  BY DEF ToOpen
<1>7. ToRemove = ToOpen + Reopening + t + u + 1
  BY DEF ToRemove
<1> HIDE DEF t, u, o, d
<1>8. ToClose >= ToWrite + t
  <2> DEFINE own == IF job.fsyncPerWrite THEN Len(Together) ELSE 0
  <2>1. own \in Nat
    BY OpsOfJob
  <2>2. ToClose = ToWrite + t + own
    BY DEF ToClose, t
  <2> HIDE DEF own
  <2> QED
    BY <1>4, <1>5, <2>1, <2>2
<1>9. /\ ToCreate + 1 < ToOpen /\ ToSize + 1 < ToOpen /\ ToSize + Sizing + 1 < ToOpen
      /\ ToWrite + t < ToOpen
  BY <1>4, <1>5, <1>6, <1>8
<1>10. ToOpen + Reopening < ToRemove /\ ToOpen + Reopening + t < ToRemove
  BY <1>4, <1>5, <1>7
<1>11. \A place \in {"initialize", "remove_old", "create", "late_create", "write", "close", "size", "reduce_size"} :
         Due[place] \in Int /\ Due[place] < ToOpen
  BY <1>1, <1>4, <1>9
<1>12. \A place \in {"sync", "check_size", "checked"} : Due[place] \in Int /\ Due[place] < ToOpen
  BY <1>2, <1>4, <1>5, <1>9
<1>13. \A place \in {"open", "read", "close_read"} : Due[place] \in Int /\ Due[place] < ToRemove
  BY <1>1, <1>2, <1>4, <1>5, <1>10
<1>14. \A place \in {"remove", "finalize", "cont_close", "destroy", "disconnect", "done"} : Due[place] \in Int
  BY <1>1, <1>3, <1>4
<1>15. \A place \in Start : Due[place] <= ToCreate
  BY <1>1, <1>4 DEF Start
<1>16. \A place \in {"initialize", "remove_old", "create", "late_create", "write", "close", "size", "reduce_size",
                    "sync", "check_size", "checked"} : Due[place] < ToRemove
  BY <1>4, <1>11, <1>12
<1> QED
  BY <1>11, <1>12, <1>13, <1>14, <1>15, <1>16 DEF Places, DfsPlaces, Last, Ended

\* Where a rank is that has made that many calls.
LEMMA CountMeans ==
    ASSUME Inv, NEW s \in Ranks
    PROVE  /\ Count(s) \in Nat /\ at[s] \in Places /\ Count(s) <= Due[at[s]]
           /\ Count(s) >= ToOpen => at[s] \in Last \cup {"open"}
           /\ Count(s) >= ToRemove => at[s] \in Ended \cup {"remove"}
           /\ Count(s) > ToCreate => at[s] \notin Start
           /\ at[s] \in {"initialize", "remove_old"} => Count(s) < ToCreate
<1>1. at[s] \in Places /\ ahead[s] \in Seq(Collectives) /\ Count(s) \in Nat
      /\ Count(s) + Len(ahead[s]) = Due[at[s]]
  BY CountIsNat DEF Inv, TypeInv, CallInv
<1>2. Len(ahead[s]) \in Nat
  BY <1>1
<1>3. Due[at[s]] \in Int
  BY <1>1, DueBefore
<1>4. Count(s) <= Due[at[s]]
  BY <1>1, <1>2, <1>3
<1>5. ToOpen \in Nat /\ ToRemove \in Nat /\ ToCreate \in Nat \ {0}
  BY SizeType
<1>6. ASSUME Count(s) >= ToOpen PROVE at[s] \in Last \cup {"open"}
  <2>1. ~(Due[at[s]] < ToOpen)
    BY <1>1, <1>3, <1>4, <1>5, <1>6
  <2> QED
    BY <1>1, <2>1, DueBefore
<1>7. ASSUME Count(s) >= ToRemove PROVE at[s] \in Ended \cup {"remove"}
  <2>1. ~(Due[at[s]] < ToRemove)
    BY <1>1, <1>3, <1>4, <1>5, <1>7
  <2> QED
    BY <1>1, <2>1, DueBefore
<1>8. ASSUME Count(s) > ToCreate PROVE at[s] \notin Start
  <2>1. ~(Due[at[s]] <= ToCreate)
    BY <1>1, <1>3, <1>4, <1>5, <1>8
  <2> QED
    BY <2>1, DueBefore
<1>9. ASSUME at[s] \in {"initialize", "remove_old"} PROVE Count(s) < ToCreate
  <2>1. Due[at[s]] = 0 \/ Due[at[s]] = ToCreate - 1
    BY <1>9, DueAt
  <2> QED
    BY <1>1, <1>4, <1>5, <2>1
<1> QED
  BY <1>1, <1>4, <1>6, <1>7, <1>8, <1>9

\* Both are kept.
LEMMA KnowledgeKeeps ==
    ASSUME AllInv, NEW r \in Ranks, RankNext(r), NEW s \in Ranks
    PROVE  OpenKnown(s)' /\ RemoveKnown(s)'
<1>0. Inv /\ FileInv /\ OpenKnown(s) /\ RemoveKnown(s)
  BY DEF AllInv, DataInv
<1>1. \A q \in Ranks : Count(q) \in Nat /\ Count(q)' \in Nat /\ Count(q)' >= Count(q)
  BY <1>0, CountsGrow
<1>2. UNCHANGED job /\ at \in [Ranks -> Places]
  BY <1>0, JobStays DEF Inv, TypeInv
<1>3. ToOpen' = ToOpen /\ ToRemove' = ToRemove /\ ToOpen \in Nat \ {0} /\ ToRemove \in Nat \ {0}
  <2>1. Due' = Due /\ Due["open"] = ToOpen /\ Due["remove"] = ToRemove
    BY <1>2, SameSizes, DueAt
  <2>2. Due'["open"] = ToOpen' /\ Due'["remove"] = ToRemove'
    <3>1. (Due["open"] = ToOpen /\ Due["remove"] = ToRemove)'
      BY DueAt, PTL
    <3> QED
      BY <3>1
  <2>3. ToOpen \in Nat \ {0} /\ ToRemove \in Nat \ {0}
    BY SizeType
  <2> QED
    BY <2>1, <2>2, <2>3
<1>5. ASSUME at'[s] \in Last, at[s] \notin Last PROVE At(s, "open")
  BY <1>2, <1>5, MovesTo, StretchMeans DEF Last, Ended, DfsPlaces, Middle, At
<1>6. ASSUME at'[s] \in Ended, at[s] \notin Ended PROVE At(s, "remove")
  BY <1>2, <1>6, MovesTo, StretchMeans DEF Ended, DfsPlaces, Middle
<1>7. ASSUME at'[s] \in Last PROVE \A q \in Ranks : Count(q)' >= ToOpen
  <2>1. \A q \in Ranks : Count(q) >= ToOpen
    <3>1. CASE at[s] \in Last
      BY <1>0, <3>1 DEF OpenKnown
    <3>2. CASE At(s, "open")
      <4>1. Due["open"] = ToOpen /\ "open" \in BarrierPlaces /\ Due["open"] > 0
        BY <1>3, DueAt DEF BarrierPlaces
      <4> QED
        BY <1>0, <3>2, <4>1, BarrierKnows
    <3> QED
      BY <1>5, <1>7, <3>1, <3>2
  <2> QED
    BY <1>1, <1>3, <2>1
<1>8. ASSUME at'[s] \in Ended PROVE \A q \in Ranks : Count(q)' >= ToRemove
  <2>1. \A q \in Ranks : Count(q) >= ToRemove
    <3>1. CASE at[s] \in Ended
      BY <1>0, <3>1 DEF RemoveKnown
    <3>2. CASE At(s, "remove")
      <4>1. Due["remove"] = ToRemove /\ "remove" \in BarrierPlaces /\ Due["remove"] > 0
        BY <1>3, DueAt DEF BarrierPlaces
      <4> QED
        BY <1>0, <3>2, <4>1, BarrierKnows
    <3> QED
      BY <1>6, <1>8, <3>1, <3>2
  <2> QED
    BY <1>1, <1>3, <2>1
<1> QED
  BY <1>3, <1>7, <1>8 DEF OpenKnown, RemoveKnown

----------------------------------------------------------------------------
(* Transfers.                                                              *)

\* What a job says it says all the time.
LEMMA SameJob ==
    ASSUME UNCHANGED job
    PROVE  /\ (Active' <=> Active) /\ (Dry' <=> Dry) /\ (Shared' <=> Shared) /\ (Exclusive' <=> Exclusive)
           /\ (Streamed' <=> Streamed) /\ (Reliable' <=> Reliable) /\ (Refused' <=> Refused)
           /\ \A s \in Ranks : FileOf(s)' = FileOf(s) /\ offset(s)' = offset(s)
BY DEF Active, Dry, Shared, Exclusive, Streamed, Reliable, Refused, FileOf, offset

\* A rank takes the place of one of the ranks.
LEMMA PretendType == \A r \in Ranks : Pretend(r) \in Ranks
<1>1. \A n, m \in Nat : m > 0 => n % m \in 0..(m - 1)
  OBVIOUS
<1> QED
  BY <1>1, MpiAssumption DEF Pretend, Ranks

\* The parts of two ranks in one file do not meet.
LEMMA PartsApart ==
    ASSUME NEW r \in Ranks, NEW s \in Ranks, r # s, FileOf(r) = FileOf(s)
    PROVE  offset(r) + Length <= offset(s) \/ offset(s) + Length <= offset(r)
<1>1. Shared
  BY DEF FileOf, Shared
<1>2. offset(r) = r * Length /\ offset(s) = s * Length /\ r \in Nat /\ s \in Nat /\ Length \in Nat
  BY <1>1, UnitType, MpiAssumption DEF offset, Shared, Ranks
<1>3. \A a, b, l \in Nat : a < b => a * l + l <= b * l
  <2>1. ASSUME NEW a \in Nat, NEW b \in Nat, NEW l \in Nat, a < b PROVE a * l + l <= b * l
    <3>1. PICK d \in Nat : b = a + 1 + d
      <4>1. b - a - 1 \in Nat /\ b = a + 1 + (b - a - 1)
        BY <2>1
      <4> QED
        BY <4>1
    <3>2. b * l = a * l + l + d * l
      BY <3>1
    <3>3. d * l \in Nat /\ a * l \in Nat /\ b * l \in Nat
      OBVIOUS
    <3> QED
      BY <3>2, <3>3
  <2> QED
    BY <2>1
<1>4. r < s \/ s < r
  BY <1>2
<1> QED
  BY <1>2, <1>3, <1>4

\* A transfer goes on where it has come to, in the file and in the buffer.
LEMMA GoesOnWhere ==
    ASSUME Inv, FileInv, NEW r \in Ranks, ProgressInv(r)
    PROVE  /\ moved[r] \in Nat /\ Length \in Nat /\ Length - moved[r] \in Nat \ {0}
           /\ Asked(r) = Length - moved[r]
           /\ (IF job.api = "MPIIO" THEN 0 ELSE moved[r]) = moved[r]
           /\ ~Streamed => FirstUnit(r, "write") = offset(r) + moved[r]
           /\ FirstUnit(r, "read") = offset(Pretend(r)) + moved[r]
           /\ offset(r) \in Nat /\ offset(Pretend(r)) \in Nat
           /\ job.api \in AtOnce => moved[r] = 0
<1>1. MovedType
  BY DEF FileInv
<1>2. moved[r] \in Nat /\ Length - moved[r] \in Nat \ {0} /\ Length \in Nat
  BY <1>1, WhereType, UnitType
<1>3. job.api \in AtOnce => moved[r] = 0
  BY DEF ProgressInv
<1>4. Asked(r) = Length - moved[r]
  BY <1>2, <1>3 DEF Asked, AtOnce, StartsAgain
<1>5. \A access : Where(r, access) = moved[r]
  BY <1>3 DEF Where, AtOnce, StartsAgain
<1>6. offset(r) \in Nat /\ offset(Pretend(r)) \in Nat
  BY PretendType, UnitType
<1>7. FirstUnit(r, "read") = offset(Pretend(r)) + moved[r]
  BY <1>2, <1>5, <1>6 DEF FirstUnit
<1>8. ASSUME ~Streamed PROVE FirstUnit(r, "write") = offset(r) + moved[r]
  <2>1. job.api = "HDFS" => offset(r) = 0
    BY <1>8 DEF Streamed, offset
  <2> QED
    BY <1>2, <1>5, <1>6, <2>1 DEF FirstUnit
<1>9. (IF job.api = "MPIIO" THEN 0 ELSE moved[r]) = moved[r]
  BY <1>3 DEF AtOnce
<1> QED
  BY <1>2, <1>3, <1>4, <1>6, <1>7, <1>8, <1>9

\* Storage that has all it is asked for moves all of it, if it is not short.
Prompt == ~job.short \/ job.api \in {"S3", "RADOS", "MMAP", "PMDK"}
Moves(n, left) ==
    /\ n \in Int /\ n <= left /\ -1 <= n
    /\ Prompt => n = left \/ (n = -1 /\ job.fails /\ job.api \notin {"MMAP", "PMDK"})
    /\ Reliable => n = left

\* The answers that the storage may give, where there is what is asked for.
LEMMA ResultsAre ==
    ASSUME FileInv, job.api # "DUMMY", NEW r \in Ranks, NEW access, NEW n \in Results(r, access),
           Asked(r) \in Nat,
           access = "write" \/ FileSize(FileOf(Pretend(r))) - FirstUnit(r, access) >= Asked(r)
    PROVE  Moves(n, Asked(r))
<1> DEFINE fit == FileSize(FileOf(Pretend(r))) - FirstUnit(r, access)
           there == IF access = "write" THEN Asked(r) ELSE Min({Asked(r), Max({0, fit})})
<1>1. fit \in Int
  BY WhereType, SizeIs DEF FileInv
<1>2. there = Asked(r)
  <2>1. CASE access = "write"
    BY <2>1
  <2>2. CASE access # "write"
    <3> HIDE DEF fit
    <3>1. fit >= Asked(r)
      BY <2>2 DEF fit
    <3>2. Max({0, fit}) = fit
      <4>1. Max({0, fit}) = IF 0 <= fit THEN fit ELSE 0
        BY <1>1, OfTwo
      <4> QED
        BY <1>1, <3>1, <4>1
    <3>3. Min({Asked(r), fit}) = Asked(r)
      <4>1. Min({Asked(r), fit}) = IF Asked(r) <= fit THEN Asked(r) ELSE fit
        BY <1>1, OfTwo
      <4> QED
        BY <3>1, <4>1
    <3> QED
      BY <2>2, <3>2, <3>3
  <2> QED
    BY <2>1, <2>2
<1>3. n \in (IF job.api \in {"MMAP", "PMDK"} THEN {there}
             ELSE (IF job.short /\ job.api \notin {"S3", "RADOS"} THEN 0..there ELSE {there})
                  \cup (IF job.fails THEN {-1} ELSE {}))
  BY DEF Results
<1> HIDE DEF there
<1>4. CASE job.api \in {"MMAP", "PMDK"}
  BY <1>2, <1>3, <1>4 DEF Moves
<1>5. CASE job.api \notin {"MMAP", "PMDK"}
  BY <1>2, <1>3, <1>5 DEF Moves, Prompt, Reliable
<1> QED
  BY <1>4, <1>5

\* What a backend makes of that: it reports the whole transfer only if all has
\* been moved, and when it tries again some of it has not.
LEMMA AnswerMeans ==
    ASSUME JobIn, job.bytes = 1, job.short => job.api \notin StartsAgain, job.fails => job.api # "S3",
           job.api # "DUMMY", NEW access, NEW n, NEW left \in Nat \ {0}, NEW retries, Moves(n, left),
           job.api \in AtOnce => left = Length
    PROVE  /\ Answer(access, n, left, retries) = "whole" => n = left
           /\ Answer(access, n, left, retries) = "again" => 0 <= n /\ n < left /\ job.api \notin StartsAgain
           /\ n = left => Answer(access, n, left, retries) = "whole"
<1> DEFINE a == Answer(access, n, left, retries)
<1>1. job.api \in Apis /\ n \in Int /\ n <= left /\ -1 <= n
  BY DEF JobIn, JobType, Moves
<1>2. /\ Retry(n, left, retries) \in {"whole", "stop", "again"}
      /\ Retry(n, left, retries) = "whole" <=> n = left
  BY DEF Retry
<1>3. AllOrStop(n, left) = IF n = left THEN "whole" ELSE "stop"
  BY DEF AllOrStop
<1>4. ASSUME job.api \in StartsAgain PROVE n = left \/ n = -1
  BY <1>4 DEF Moves, Prompt
<1>5. CASE job.api \in {"POSIX", "HDFS", "IME"}
  <2>1. a = IF n < 0 \/ (n = 0 /\ access = "read") THEN "stop" ELSE Retry(n, left, retries)
    BY <1>5 DEF Answer, POSIX_Xfer, HDFS_Xfer, IME_Xfer
  <2>2. job.api \in StartsAgain <=> job.api = "IME"
    BY <1>5 DEF StartsAgain
  <2>3. n = left => a = "whole"
    BY <1>1, <1>2, <2>1
  <2>4. a = "whole" => n = left
    BY <1>1, <1>2, <2>1
  <2>5. a = "again" => 0 <= n /\ n < left /\ ~(n = left) /\ ~(n = -1)
    BY <1>1, <1>2, <2>1
  <2> HIDE DEF a
  <2> QED
    BY <1>4, <2>3, <2>4, <2>5 DEF a
<1>6. CASE job.api = "DFS"
  <2>1. a = IF access = "write" THEN AllOrStop(n, left)
            ELSE IF n <= 0 THEN "stop" ELSE Retry(n, left, retries)
    BY <1>6 DEF Answer, DFS_Xfer
  <2>2. n = left \/ n = -1
    BY <1>4, <1>6 DEF StartsAgain
  <2>3. (n = left => a = "whole") /\ (n = -1 => a = "stop")
    BY <1>1, <1>2, <1>3, <2>1
  <2> QED
    BY <1>1, <2>2, <2>3
<1>7. CASE job.api = "GFARM"
  <2>1. n = left \/ n = -1
    BY <1>4, <1>7 DEF StartsAgain
  <2>2. a = IF n <= 0 THEN "stop" ELSE IF n >= left THEN "whole" ELSE "again"
    BY <1>7 DEF Answer, Gfarm_xfer
  <2> QED
    BY <1>1, <2>1, <2>2
<1>8. CASE job.api = "MPIIO"
  <2>1. left = Length
    BY <1>8 DEF AtOnce
  <2>2. a = IF n < 0 THEN "stop" ELSE IF n * 1 = Length THEN "whole"
            ELSE IF job.collective \/ TooMany(retries) THEN "stop" ELSE "again"
    BY <1>8 DEF Answer, MPIIO_Xfer
  <2>3. n * 1 = n
    BY <1>1
  <2>4. job.api \notin StartsAgain
    BY <1>8 DEF StartsAgain
  <2>5. n = left => a = "whole"
    BY <1>1, <2>1, <2>2, <2>3
  <2>6. a = "whole" => n = left
    BY <1>1, <2>1, <2>2, <2>3
  <2>7. a = "again" => 0 <= n /\ n < left
    BY <1>1, <2>1, <2>2, <2>3
  <2> QED
    BY <2>4, <2>5, <2>6, <2>7
<1>9. CASE job.api \in {"CHFS", "FINCHFS", "CEPHFS", "RADOS"}
  <2>1. a = AllOrStop(n, left)
    BY <1>9 DEF Answer, CHFS_xfer, FINCHFS_xfer, CEPHFS_Xfer, RADOS_Xfer
  <2> QED
    BY <1>3, <2>1
<1>10. CASE job.api \in {"S3", "MMAP", "PMDK"}
  <2>1. a = "whole"
    BY <1>10 DEF Answer, S3_Xfer, MMAP_Xfer, PMDK_Xfer
  <2>2. n = left
    BY <1>10 DEF Moves, Prompt
  <2> QED
    BY <2>1, <2>2
<1> QED
  BY <1>1, <1>5, <1>6, <1>7, <1>8, <1>9, <1>10 DEF Apis

----------------------------------------------------------------------------
(* Who finds his file.                                                     *)

\* Nothing has been removed while a rank has not come to that.
LEMMA NothingRemoved ==
    ASSUME AllInv, NEW r \in Ranks, at[r] \notin Ended \cup {"remove"}
    PROVE  ~Removed
<1> SUFFICES ASSUME NEW q \in Ranks, at[q] \in Ended PROVE FALSE
  BY DEF Removed
<1>1. Inv /\ RemoveKnown(q)
  BY DEF AllInv, DataInv
<1>2. Count(r) >= ToRemove
  BY <1>1 DEF RemoveKnown
<1> QED
  BY <1>1, <1>2, CountMeans

\* What is removed stays so.
LEMMA RemovedStays ==
    ASSUME AllInv, NEW r \in Ranks, RankNext(r), Removed
    PROVE  Removed'
<1>1. PICK q \in Ranks : at[q] \in Ended
  BY DEF Removed
<1>2. at \in [Ranks -> Places]
  BY DEF AllInv, Inv, TypeInv
<1>3. at'[q] \in Ended
  BY <1>1, <1>2, MovesTo, StretchMeans DEF Ended, DfsPlaces, At
<1> QED
  BY <1>3 DEF Removed

\* The file of a rank that writes is there.
LEMMA WriterHasFile ==
    ASSUME AllInv, DataIsSafe, Active, NEW r \in Ranks, At(r, "write")
    PROVE  ~Removed /\ FileOf(r) \in DOMAIN files
<1>1. at[r] = "write" /\ Inv /\ FileInv /\ \A s \in Ranks : PartInv(s)
  BY DEF AllInv, DataInv, At
<1>2. ~Removed
  BY <1>1, NothingRemoved DEF Ended, DfsPlaces
<1>3. CASE job.api = "DFS" => job.filePerProc \/ r = 0
  <2>1. Opened(r)
    BY <1>1, <1>3 DEF Opened, Start
  <2> QED
    BY <1>1, <1>2, <2>1 DEF PartInv
<1>4. CASE job.api = "DFS" /\ ~job.filePerProc
  <2>1. Settled(FileOf(r))
    BY <1>1, WritingKnows DEF DataIsSafe
  <2>2. Opening = 2 /\ Shared
    BY <1>4 DEF Opening, Shared
  <2>3. Count(0) >= ToCreate + 2 /\ 0 \in Ranks /\ ToCreate \in Nat
    BY <2>1, <2>2, FileOfRank, SizeType DEF Settled
  <2>4. at[0] \notin Start
    <3>1. Count(0) \in Nat
      BY <1>1, <2>3, CountMeans
    <3>2. Count(0) > ToCreate
      BY <2>3, <3>1
    <3> QED
      BY <1>1, <2>3, <3>2, CountMeans
  <2>5. at[0] # "late_create"
    BY <1>1, <1>4, <2>3 DEF Inv, CallInv, Reachable
  <2>6. Opened(0)
    BY <2>4, <2>5 DEF Opened
  <2>7. FileOf(0) = FileOf(r)
    BY <1>4 DEF FileOf
  <2> QED
    BY <1>1, <1>2, <2>3, <2>6, <2>7 DEF PartInv
<1> QED
  BY <1>2, <1>3, <1>4

\* The data that a rank is to read is there.
LEMMA ReaderHasData ==
    ASSUME AllInv, Active, NEW r \in Ranks, At(r, "open") \/ At(r, "read")
    PROVE  /\ FileOf(Pretend(r)) \in DOMAIN files /\ Holds(Pretend(r), Length)
           /\ FileSize(FileOf(Pretend(r))) \in Nat
           /\ FileSize(FileOf(Pretend(r))) >= offset(Pretend(r)) + Length
<1> DEFINE s == Pretend(r)
           f == FileOf(s)
<1>1. /\ Inv /\ FileInv /\ PartInv(s) /\ OpenKnown(r) /\ s \in Ranks /\ at[r] \in {"open", "read"}
  BY PretendType DEF AllInv, DataInv, At
<1>2. ~Removed
  BY <1>1, NothingRemoved DEF Ended, DfsPlaces
<1>3. \A q \in Ranks : Count(q) >= ToOpen
  <2>1. CASE At(r, "open")
    <3>1. Due["open"] = ToOpen /\ "open" \in BarrierPlaces
      BY DueAt DEF BarrierPlaces
    <3>2. ToOpen > 0
      BY SizeType
    <3> QED
      BY <1>1, <2>1, <3>1, <3>2, BarrierKnows
  <2>2. CASE At(r, "read")
    BY <1>1, <2>2 DEF OpenKnown, Last, At
  <2> QED
    BY <2>1, <2>2
<1>4. at[s] \in Last \cup {"open"}
  BY <1>1, <1>3, CountMeans
<1>5. Amount(s) = Length
  BY <1>4 DEF Amount, Early, Start, Last, Ended, DfsPlaces
<1>6. Holds(s, Length)
  BY <1>1, <1>2, <1>5 DEF PartInv
<1> DEFINE k == Length - 1
<1>7. k \in 0..(Length - 1) /\ offset(s) \in Nat
  BY <1>1, UnitType
<1>8. f \in DOMAIN files /\ offset(s) + k \in DOMAIN files[f]
  BY <1>6, <1>7 DEF Holds
<1>9. DOMAIN files[f] = 0..(FileSize(f) - 1) /\ FileSize(f) \in Nat
  BY <1>1, <1>8, SizeIs DEF FileInv
<1> HIDE DEF f, s
<1>10. Length \in Nat
  BY UnitType
<1>11. FileSize(f) >= offset(s) + Length
  BY <1>7, <1>8, <1>9, <1>10
<1> QED
  BY <1>6, <1>8, <1>9, <1>11 DEF f, s

----------------------------------------------------------------------------
(* The data in the files.                                                  *)

\* Data stays where it is, if the files do or one is refilled.
LEMMA DataKeeps ==
    ASSUME FileInv, NEW s \in Ranks, UNCHANGED job, UNCHANGED files \/ Refills
    PROVE  /\ FileOf(s) \in DOMAIN files => FileOf(s) \in DOMAIN files'
           /\ \A m \in 0..Length : Holds(s, m) => Holds(s, m)'
<1>1. FileOf(s)' = FileOf(s) /\ offset(s)' = offset(s)
  BY SameJob
<1>2. CASE UNCHANGED files
  BY <1>1, <1>2 DEF Holds
<1>3. CASE Refills
  <2> DEFINE g == FileOf(s)
  <2>1. PICK f, c : Refill(f, c)
    BY <1>3 DEF Refills
  <2>2. /\ DOMAIN files' = DOMAIN files \cup {f} /\ files'[f] = c
        /\ \A h \in DOMAIN files \ {f} : files'[h] = files[h]
    BY <2>1, WithIs DEF FileInv, Refill
  <2>3. f \in DOMAIN files =>
           \A u \in DOMAIN files[f] : files[f][u] > 0 => u \in DOMAIN c /\ c[u] = files[f][u]
    BY <2>1 DEF Refill
  <2>4. \A u : g \in DOMAIN files /\ u \in DOMAIN files[g] /\ files[g][u] > 0
                => g \in DOMAIN files' /\ u \in DOMAIN files'[g] /\ files'[g][u] = files[g][u]
    BY <2>2, <2>3
  <2>5. ASSUME NEW m \in 0..Length, Holds(s, m) PROVE Holds(s, m)'
    <3>1. SUFFICES ASSUME NEW k \in 0..(m - 1)
                   PROVE  /\ g \in DOMAIN files' /\ offset(s) + k \in DOMAIN files'[g]
                          /\ files'[g][offset(s) + k] = Data(s, k)
      BY <1>1 DEF Holds
    <3>2. g \in DOMAIN files /\ offset(s) + k \in DOMAIN files[g] /\ files[g][offset(s) + k] = Data(s, k)
      BY <2>5 DEF Holds
    <3>3. Data(s, k) > 0
      <4>1. k \in Nat /\ k < Length
        BY UnitType
      <4> QED
        BY <4>1, DataType
    <3> HIDE DEF g
    <3> QED
      BY <2>4, <3>2, <3>3
  <2> QED
    BY <2>2, <2>5
<1> QED
  BY <1>2, <1>3

\* How far a rank may be.
LEMMA AmountType ==
    ASSUME FileInv, NEW s \in Ranks
    PROVE  Amount(s) \in 0..Length
<1>1. moved[s] \in 0..(Length - 1) /\ Length \in Nat \ {0}
  BY UnitType DEF FileInv, MovedType
<1> QED
  BY <1>1 DEF Amount

\* A step that does not move a rank forward, nor its data away.
LEMMA OtherPart ==
    ASSUME AllInv, NEW r \in Ranks, RankNext(r), NEW s \in Ranks, UNCHANGED files \/ Refills,
           Opened(s)' => Opened(s) \/ FileOf(s) \in DOMAIN files',
           Amount(s)' = Amount(s) \/ Amount(s)' = 0
    PROVE  PartInv(s)'
<1>1. PartInv(s) /\ FileInv /\ UNCHANGED job
  BY JobStays DEF AllInv, DataInv
<1>2. SUFFICES ASSUME Active, ~Removed
               PROVE  /\ Opened(s)' => FileOf(s) \in DOMAIN files'
                      /\ Holds(s, Amount(s))'
  BY <1>1, SameJob, RemovedStays DEF PartInv
<1>3. FileOf(s) \in DOMAIN files => FileOf(s) \in DOMAIN files'
  BY <1>1, DataKeeps
<1>4. Opened(s)' => FileOf(s) \in DOMAIN files'
  BY <1>1, <1>2, <1>3 DEF PartInv
<1>5. Holds(s, Amount(s))'
  <2>1. PICK m \in 0..Length : m = Amount(s) /\ Holds(s, m)
    BY <1>1, <1>2, AmountType DEF PartInv
  <2>2. Holds(s, m)'
    BY <1>1, <2>1, DataKeeps
  <2>3. CASE Amount(s)' = m
    BY <2>2, <2>3 DEF Holds
  <2>4. CASE Amount(s)' = 0
    BY <2>4 DEF Holds
  <2> QED
    BY <2>1, <2>3, <2>4
<1> QED
  BY <1>4, <1>5

\* Creating the files.
LEMMA CreateParts ==
    ASSUME AllInv, NEW r \in Ranks, create(r), NEW s \in Ranks
    PROVE  PartInv(s)'
<1>1. RankNext(r) /\ At(r, "create") /\ at[r] = "create" /\ UNCHANGED <<job, transfer>>
  BY DEF RankNext, create, At
<1>2. UNCHANGED files \/ Refills
  BY <1>1, CreateChanges DEF AllInv
<1>3. at \in [Ranks -> Places] /\ ProgressInv(s) /\ moved' = moved
  BY <1>1 DEF AllInv, DataInv, Inv, TypeInv, transfer
<1>4. CASE s # r
  <2>1. at'[s] = at[s]
    <3>1. UNCHANGED at \/ \E to : Go(r, to)
      BY <1>1, PlaceSteps
    <3> QED
      BY <1>3, <1>4, <3>1 DEF Go
  <2>2. (Opened(s)' <=> Opened(s)) /\ Amount(s)' = Amount(s)
    BY <1>1, <1>3, <2>1 DEF Opened, Amount
  <2> QED
    BY <1>1, <1>2, <2>2, OtherPart
<1>5. CASE s = r
  <2>1. at'[s] \in {"create", "late_create", "write"}
    <3>1. at'[s] = at[s] \/ at'[s] \in {"late_create", "write"}
      BY <1>1, <1>3, <1>5, MovesTo, StretchMeans DEF At
    <3> QED
      BY <1>1, <1>5, <3>1
  <2>2. moved[s] = 0 /\ Amount(s)' = 0
    BY <1>1, <1>3, <1>5, <2>1 DEF ProgressInv, Amount, Early, Start
  <2>3. CASE ~Active
    BY <1>1, <2>3, SameJob DEF PartInv
  <2>4. CASE Active
    <3>0. ~Dry /\ job.api # "DUMMY" /\ ~Streamed
      BY <2>4 DEF Active
    <3>1. ASSUME NEW f, files' = Made(f) \/ files' = Truncated(f) \/ \E c : files' = With(f, c)
          PROVE  f \in DOMAIN files'
      BY <3>1 DEF Made, Truncated, With, Exists
    <3>2. ASSUME UNCHANGED at PROVE ~Opened(s)'
      BY <1>1, <1>5, <3>2 DEF Opened, Start
    <3>3. Opened(s)' => FileOf(s) \in DOMAIN files'
      <4>1. CASE job.api = "POSIX" /\ POSIX_Create(r)
        <5>1. CASE files' = Made(FileOf(r))
          BY <1>5, <3>1, <5>1
        <5>2. CASE CannotCreate
          BY <3>2, <5>2 DEF CannotCreate, ERR
        <5>3. CASE Go(r, "late_create")
          BY <1>1, <1>3, <1>5, <4>1, <5>3 DEF Go, Opened
        <5> QED
          BY <4>1, <5>1, <5>2, <5>3 DEF POSIX_Create, Created, CreatedFirst, CreateLater, GoAfter
      <4>2. CASE job.api = "MMAP" /\ MMAP_Create(r)
        BY <1>5, <3>0, <3>1, <4>2 DEF MMAP_Create, Created
      <4>3. CASE job.api = "MPIIO" /\ MPIIO_Open(r)
        <5>1. (files' = Truncated(r) /\ job.filePerProc) \/ (files' = Made(0) /\ ~job.filePerProc)
          BY <3>0, <4>3 DEF MPIIO_Open, Created
        <5> QED
          BY <1>5, <3>1, <5>1 DEF FileOf
      <4>4. CASE job.api = "HDFS" /\ HDFS_Create_Or_Open(r)
        <5>1. files' = Truncated(r) /\ job.filePerProc
          BY <3>0, <4>4 DEF HDFS_Create_Or_Open, Created, Streamed
        <5> QED
          BY <1>5, <3>1, <5>1 DEF FileOf
      <4>5. CASE IME_Open(r) \/ CEPHFS_Open(r) \/ S3_Create(r) \/ Gfarm_create(r) \/ CHFS_create(r)
                 \/ FINCHFS_create(r) \/ RADOS_Create_Or_Open(r)
        <5>1. files' = Truncated(FileOf(r)) \/ files' = Made(FileOf(r))
          BY <4>5 DEF IME_Open, CEPHFS_Open, S3_Create, Gfarm_create, CHFS_create,
                 FINCHFS_create, RADOS_Create_Or_Open, Created
        <5> QED
          BY <1>5, <3>1, <5>1
      <4>6. CASE job.api = "DFS" /\ DFS_Create(r)
        <5>1. CASE files' = Made(FileOf(r))
          BY <1>5, <3>1, <5>1
        <5>2. CASE ~(job.filePerProc \/ r = 0)
          BY <1>1, <1>5, <4>6, <5>2 DEF Opened
        <5>3. CASE CannotCreate
          BY <3>2, <5>3 DEF CannotCreate, ERR
        <5> QED
          BY <4>6, <5>1, <5>2, <5>3 DEF DFS_Create, CreatedFirst
      <4>7. CASE job.api = "PMDK" /\ PMDK_Create(r)
        <5>1. CASE ~job.filePerProc \/ Exists(r)
          BY <3>2, <4>7, <5>1 DEF PMDK_Create, CannotCreate, ERR
        <5>2. CASE job.filePerProc /\ ~Exists(r)
          <6>1. \E c : files' = With(r, c)
            BY <4>7, <5>2 DEF PMDK_Create, Created
          <6> QED
            BY <1>5, <3>1, <5>2, <6>1 DEF FileOf
        <5> QED
          BY <5>1, <5>2
      <4>8. ~(Dry /\ job.api \in NullInDryRun) /\ job.api # "DUMMY"
        BY <3>0
      <4> QED
        BY <4>1, <4>2, <4>3, <4>4, <4>5, <4>6, <4>7, <4>8 DEF create
    <3> QED
      BY <1>1, <1>2, <2>2, <3>3, OtherPart
  <2> QED
    BY <2>3, <2>4
<1> QED
  BY <1>4, <1>5

\* What is left to do of creating.
LEMMA LateCreateParts ==
    ASSUME AllInv, NEW r \in Ranks, LateCreate(r), NEW s \in Ranks
    PROVE  PartInv(s)'
<1>1. /\ RankNext(r) /\ At(r, "late_create") /\ at[r] = "late_create" /\ UNCHANGED <<job, transfer>>
      /\ Shared /\ Inv
  <2>1. at[r] = "late_create" /\ Inv
    BY DEF LateCreate, At, AllInv
  <2>2. Opening > 0
    BY <2>1 DEF Inv, CallInv, Reachable
  <2>3. Shared
    BY <2>2 DEF Opening
  <2> QED
    BY <2>1, <2>3 DEF RankNext, LateCreate
<1>2. UNCHANGED files \/ Refills
  BY <1>1, LateCreateChanges DEF AllInv
<1>3. at \in [Ranks -> Places] /\ ProgressInv(s) /\ PartInv(s) /\ moved' = moved
  BY <1>1 DEF AllInv, DataInv, Inv, TypeInv, transfer
<1>4. CASE s # r
  <2>1. at'[s] = at[s]
    <3>1. UNCHANGED at \/ \E to : Go(r, to)
      BY <1>1, PlaceSteps
    <3> QED
      BY <1>3, <1>4, <3>1 DEF Go
  <2>2. (Opened(s)' <=> Opened(s)) /\ Amount(s)' = Amount(s)
    BY <1>1, <1>3, <2>1 DEF Opened, Amount
  <2> QED
    BY <1>1, <1>2, <2>2, OtherPart
<1>5. CASE s = r
  <2>1. at'[s] \in {"late_create", "write"}
    BY <1>1, <1>3, <1>5, MovesTo, StretchMeans DEF At
  <2>2. moved[s] = 0 /\ Amount(s)' = 0
    BY <1>1, <1>3, <1>5, <2>1 DEF ProgressInv, Amount, Early, Start
  <2>3. CASE ~Active
    BY <1>1, <2>3, SameJob DEF PartInv
  <2>4. CASE Active
    <3>1. CASE job.api = "MPIIO"
      <4>1. Opened(s)
        BY <1>1, <1>5, <3>1 DEF Opened, Start
      <4> QED
        BY <1>1, <1>2, <2>2, <4>1, OtherPart
    <3>2. CASE job.api = "POSIX"
      <4>1. FileOf(s) = 0
        BY <1>1 DEF FileOf, Shared
      <4>2. CASE Exists(0)
        BY <1>1, <1>2, <2>2, <3>2, <4>1, <4>2, OtherPart DEF LateCreate, Created, Exists
      <4>3. CASE ~Exists(0)
        <5>1. UNCHANGED at
          BY <3>2, <4>3 DEF LateCreate, CannotCreate, ERR
        <5>2. ~Opened(s)'
          BY <1>1, <1>5, <3>2, <5>1 DEF Opened
        <5> QED
          BY <1>1, <1>2, <2>2, <5>2, OtherPart
      <4> QED
        BY <4>2, <4>3
    <3>3. CASE job.api = "HDFS"
      BY <1>1, <2>4, <3>3 DEF Active, Streamed, Shared
    <3> QED
      BY <3>1, <3>2, <3>3 DEF LateCreate
  <2> QED
    BY <2>3, <2>4
<1> QED
  BY <1>4, <1>5

\* Who removes what is left of an earlier test removes nothing of this one.
LEMMA RemoveOldParts ==
    ASSUME AllInv, NEW r \in Ranks, RemoveOld(r), NEW s \in Ranks
    PROVE  PartInv(s)'
<1>1. RankNext(r) /\ at[r] = "remove_old" /\ at' = [at EXCEPT ![r] = "create"]
  BY DEF RankNext, RemoveOld, At, GoAfter, Go
<1>2. Inv /\ CreateKnown(s) /\ at \in [Ranks -> Places]
  BY DEF AllInv, FileInv, Inv, TypeInv
<1>3. at'[s] \in Start
  <2>1. CASE s = r
    BY <1>1, <1>2, <2>1 DEF Start
  <2>2. CASE s # r /\ at[s] \notin Start
    <3>1. Count(r) >= ToCreate
      BY <1>2, <2>2 DEF CreateKnown
    <3>2. Count(r) < ToCreate /\ Count(r) \in Nat
      BY <1>1, <1>2, CountMeans
    <3>3. ToCreate \in Nat
      BY SizeType
    <3> QED
      BY <3>1, <3>2, <3>3
  <2>3. s # r => at'[s] = at[s]
    BY <1>1, <1>2
  <2> QED
    BY <2>1, <2>2, <2>3
<1>4. ~Opened(s)' /\ Amount(s)' = 0
  BY <1>3 DEF Opened, Amount, Early
<1> QED
  BY <1>4 DEF PartInv, Holds

\* Once one has removed the file of another there is nothing to say.
LEMMA DeleteParts ==
    ASSUME AllInv, NEW r \in Ranks, Delete(r), NEW s \in Ranks
    PROVE  PartInv(s)'
<1>1. at \in [Ranks -> Places]
  BY DEF AllInv, Inv, TypeInv
<1>2. at'[r] \in Ended
  BY <1>1 DEF Delete, GoAfter, Go, Ended, DfsPlaces
<1> QED
  BY <1>2 DEF PartInv, Removed

\* The other steps leave the files.
LEMMA OtherParts ==
    ASSUME AllInv, NEW r \in Ranks, OtherStep(r) \/ open(r) \/ read(r), RankNext(r), NEW s \in Ranks
    PROVE  PartInv(s)'
<1>1. at \in [Ranks -> Places] /\ UNCHANGED files
  BY DEF AllInv, Inv, TypeInv, OtherStep, open, read, Move
<1>2. (Opened(s)' <=> Opened(s)) /\ Amount(s)' = Amount(s)
  <2>1. UNCHANGED job
    BY JobStays
  <2>2. CASE OtherStep(r)
    <3>1. moved' = moved /\ (at'[s] = at[s] \/ \E S \in Stretches : at[s] \in S /\ at'[s] \in S)
      BY <1>1, <2>2 DEF OtherStep, Go, transfer
    <3>2. CASE at'[s] = at[s]
      BY <2>1, <3>1, <3>2 DEF Opened, Amount
    <3>3. CASE \E S \in Stretches : at[s] \in S /\ at'[s] \in S
      <4>1. /\ at[s] \in Start <=> at'[s] \in Start
            /\ at[s] \in Early <=> at'[s] \in Early
            /\ at[s] \notin {"write", "late_create"} /\ at'[s] \notin {"write", "late_create"}
        BY <3>3, StretchMeans
      <4> QED
        BY <2>1, <4>1 DEF Opened, Amount
    <3> QED
      BY <3>1, <3>2, <3>3
  <2>3. CASE open(r) \/ read(r)
    <3>1. at'[s] = at[s] \/ (at[s] \in {"open", "read"} /\ at'[s] \in {"read", "close_read"})
      <4>1. /\ at[r] \in {"open", "read"}
            /\ UNCHANGED at \/ Go(r, "read") \/ Go(r, "close_read")
        BY <2>3 DEF open, read, Move, GoAfter, ERR, At
      <4> QED
        BY <1>1, <4>1 DEF Go
    <3>2. at'[s] = at[s] => moved'[s] = moved[s] \/ at[s] \in {"open", "read"}
      <4>1. CASE open(r)
        BY <4>1 DEF open, transfer
      <4>2. CASE read(r) /\ s # r
        <5>1. at[r] = "read"
          BY <4>2 DEF read, At
        <5>2. moved' = moved \/ \E x : moved' = [moved EXCEPT ![r] = x]
          BY <4>2 DEF read, Move, transfer
        <5>3. moved \in [Ranks -> 0..(Length - 1)]
          BY DEF AllInv, FileInv, MovedType
        <5> QED
          BY <4>2, <5>2, <5>3
      <4>3. CASE read(r) /\ s = r
        BY <4>3 DEF read, At
      <4> QED
        BY <2>3, <4>1, <4>2, <4>3
    <3>3. CASE at'[s] = at[s]
      BY <2>1, <3>2, <3>3 DEF Opened, Amount, Early, Start
    <3>4. CASE at[s] \in {"open", "read"} /\ at'[s] \in {"read", "close_read"}
      BY <2>1, <3>4 DEF Opened, Amount, Early, Start
    <3> QED
      BY <3>1, <3>3, <3>4
  <2> QED
    BY <2>2, <2>3
<1> QED
  BY <1>1, <1>2, OtherPart

\* Where the units of a transfer go in the buffer of the rank that reads them.
Filled(r, n) ==
    [got EXCEPT ![r] = [k \in DOMAIN @ |->
        IF k \in moved[r]..(moved[r] + n - 1)
        THEN files[FileOf(Pretend(r))][offset(Pretend(r)) + moved[r] + k - moved[r]] ELSE @[k]]]

\* One call of the storage: the units come where they belong, and what is
\* reported has been moved.
LEMMA MoveIs ==
    ASSUME AllInv, DataIsSafe, NEW r \in Ranks, NEW access \in {"write", "read"}, At(r, access), Active,
           NEW next, Move(r, access, next)
    PROVE  /\ Reliable => UNCHANGED stopped
           /\ \E n \in Int :
                 /\ n <= Length - moved[r]
                 /\ files' = IF access = "write" THEN Stored(FileOf(r), offset(r) + moved[r], n, r, moved[r])
                             ELSE files
                 /\ got' = IF access = "write" THEN got ELSE Filled(r, n)
                 /\ \/ UNCHANGED <<at, moved>>
                    \/ UNCHANGED at /\ moved' = [moved EXCEPT ![r] = moved[r] + n] /\ job.api \notin AtOnce
                    \/ UNCHANGED at /\ moved' = [moved EXCEPT ![r] = 0]
                    \/ n = Length - moved[r] /\ Go(r, next) /\ moved' = [moved EXCEPT ![r] = 0]
<1>1. Inv /\ FileInv /\ ProgressInv(r)
  BY DEF AllInv, DataInv
<1>2. ~Streamed /\ job.api # "DUMMY"
  BY DEF Active
<1> DEFINE left == Length - moved[r]
<1>3. /\ Asked(r) = left /\ left \in Nat \ {0} /\ moved[r] \in Nat
      /\ (IF job.api = "MPIIO" THEN 0 ELSE moved[r]) = moved[r]
      /\ FirstUnit(r, "write") = offset(r) + moved[r]
      /\ FirstUnit(r, "read") = offset(Pretend(r)) + moved[r]
      /\ offset(Pretend(r)) \in Nat /\ Length \in Nat
      /\ job.api \in AtOnce => moved[r] = 0
  BY <1>1, <1>2, GoesOnWhere
<1>4. PICK n \in Results(r, access) :
         /\ files' = IF access = "write"
                     THEN Stored(FileOf(r), FirstUnit(r, access), n, r, IF job.api = "MPIIO" THEN 0 ELSE moved[r])
                     ELSE files
         /\ got' = IF access = "write" THEN got
                   ELSE [got EXCEPT ![r] = [k \in DOMAIN @ |->
                            IF k \in (IF job.api = "MPIIO" THEN 0 ELSE moved[r])
                                     ..((IF job.api = "MPIIO" THEN 0 ELSE moved[r]) + n - 1)
                            THEN files[FileOf(Pretend(r))]
                                    [FirstUnit(r, access) + k - (IF job.api = "MPIIO" THEN 0 ELSE moved[r])]
                            ELSE @[k]]]
         /\ \/ /\ Answer(access, n, left, xferRetries[r]) = "again"
               /\ moved' = [moved EXCEPT ![r] = IF job.api = "MPIIO" THEN 0 ELSE @ + n]
               /\ UNCHANGED <<at, stopped>>
            \/ /\ Answer(access, n, left, xferRetries[r]) = "whole"
               /\ moved' = [moved EXCEPT ![r] = 0] /\ Go(r, next) /\ UNCHANGED stopped
            \/ Answer(access, n, left, xferRetries[r]) = "stop" /\ UNCHANGED <<at, moved>>
  BY DEF Move, GoAfter, ERR
<1>5. Moves(n, left)
  <2>1. ASSUME access = "read" PROVE FileSize(FileOf(Pretend(r))) - FirstUnit(r, access) >= Asked(r)
    <3> DEFINE size0 == FileSize(FileOf(Pretend(r)))
               o == offset(Pretend(r))
    <3>1. size0 \in Nat /\ size0 >= o + Length
      BY <2>1, ReaderHasData
    <3>2. FirstUnit(r, access) = o + moved[r]
      BY <1>3, <2>1
    <3>3. o \in Nat /\ Length \in Nat /\ moved[r] \in Nat /\ Asked(r) = Length - moved[r]
      BY <1>3
    <3> HIDE DEF size0, o
    <3>4. size0 - FirstUnit(r, access) >= Asked(r)
      BY <3>1, <3>2, <3>3
    <3> QED
      BY <3>4 DEF size0
  <2>2. Asked(r) \in Nat
    BY <1>3
  <2> QED
    BY <1>1, <1>2, <1>3, <2>1, <2>2, ResultsAre
<1>6. /\ Answer(access, n, left, xferRetries[r]) = "whole" => n = left
      /\ Answer(access, n, left, xferRetries[r]) = "again" => job.api \notin StartsAgain
      /\ n = left => Answer(access, n, left, xferRetries[r]) = "whole"
  <2>1. job.api \in AtOnce => left = Length
    BY <1>3, UnitType
  <2>2. JobIn /\ job.bytes = 1 /\ (job.short => job.api \notin StartsAgain) /\ (job.fails => job.api # "S3")
    BY <1>1 DEF FileInv, DataIsSafe, Suits
  <2> HIDE DEF left
  <2> QED
    BY <1>2, <1>3, <1>5, <2>1, <2>2, AnswerMeans
<1>7. n \in Int /\ n <= left /\ (Reliable => n = left)
  BY <1>5 DEF Moves
<1>8. files' = IF access = "write" THEN Stored(FileOf(r), offset(r) + moved[r], n, r, moved[r]) ELSE files
  BY <1>3, <1>4
<1>9. got' = IF access = "write" THEN got ELSE Filled(r, n)
  <2>1. CASE access = "write"
    BY <1>4, <2>1
  <2>2. CASE access = "read"
    <3> DEFINE from == IF job.api = "MPIIO" THEN 0 ELSE moved[r]
    <3>1. got' = [got EXCEPT ![r] = [k \in DOMAIN @ |->
                     IF k \in from..(from + n - 1)
                     THEN files[FileOf(Pretend(r))][FirstUnit(r, access) + k - from] ELSE @[k]]]
      BY <1>4, <2>2
    <3>2. from = moved[r] /\ FirstUnit(r, access) = offset(Pretend(r)) + moved[r]
      BY <1>3, <2>2
    <3> HIDE DEF from
    <3> QED
      BY <2>2, <3>1, <3>2 DEF Filled
  <2> QED
    BY <2>1, <2>2
<1>10. \/ UNCHANGED <<at, moved>>
       \/ UNCHANGED at /\ moved' = [moved EXCEPT ![r] = moved[r] + n] /\ job.api \notin AtOnce
       \/ UNCHANGED at /\ moved' = [moved EXCEPT ![r] = 0]
       \/ n = left /\ Go(r, next) /\ moved' = [moved EXCEPT ![r] = 0]
  <2>1. CASE Answer(access, n, left, xferRetries[r]) = "again"
             /\ moved' = [moved EXCEPT ![r] = IF job.api = "MPIIO" THEN 0 ELSE @ + n] /\ UNCHANGED at
    <3>1. CASE job.api = "MPIIO"
      BY <2>1, <3>1
    <3>2. CASE job.api # "MPIIO"
      <4>1. moved' = [moved EXCEPT ![r] = moved[r] + n]
        BY <2>1, <3>2
      <4>2. job.api \notin AtOnce
        BY <1>6, <2>1, <3>2 DEF AtOnce
      <4> QED
        BY <2>1, <4>1, <4>2
    <3> QED
      BY <3>1, <3>2
  <2>2. CASE Answer(access, n, left, xferRetries[r]) = "whole"
             /\ moved' = [moved EXCEPT ![r] = 0] /\ Go(r, next)
    BY <1>6, <2>2
  <2> QED
    BY <1>4, <2>1, <2>2
<1>11. Reliable => UNCHANGED stopped
  BY <1>4, <1>6, <1>7
<1> QED
  BY <1>7, <1>8, <1>9, <1>10, <1>11

\* Writing.
LEMMA WriteParts ==
    ASSUME AllInv, DataIsSafe, NEW r \in Ranks, write(r), NEW s \in Ranks
    PROVE  PartInv(s)'
<1>1. RankNext(r) /\ At(r, "write") /\ at[r] = "write" /\ UNCHANGED job
  BY DEF RankNext, write, At
<1>2. SUFFICES ASSUME Active
               PROVE  /\ FileOf(s)' \in DOMAIN files' \/ (s # r /\ ~Opened(s)')
                      /\ Holds(s, Amount(s))'
  BY <1>1, SameJob DEF PartInv
<1>3. ~Removed /\ FileOf(r) \in DOMAIN files
  BY <1>1, <1>2, WriterHasFile
<1>4. Inv /\ FileInv /\ PartInv(s) /\ PartInv(r) /\ at \in [Ranks -> Places]
      /\ FilesType /\ moved \in [Ranks -> 0..(Length - 1)]
  BY DEF AllInv, DataInv, FileInv, MovedType, Inv, TypeInv
<1> DEFINE next == IF job.fsyncPerWrite THEN "sync" ELSE "close"
           m == moved[r]
           first == offset(r) + m
           g == FileOf(r)
<1>5. Move(r, "write", next)
  BY <1>2 DEF write, Active
<1>6. next \in {"sync", "close"}
  OBVIOUS
<1> HIDE DEF next
<1>7. PICK n \in Int :
         /\ n <= Length - moved[r]
         /\ files' = Stored(FileOf(r), offset(r) + moved[r], n, r, moved[r])
         /\ \/ UNCHANGED <<at, moved>>
            \/ UNCHANGED at /\ moved' = [moved EXCEPT ![r] = moved[r] + n]
            \/ UNCHANGED at /\ moved' = [moved EXCEPT ![r] = 0]
            \/ n = Length - moved[r] /\ Go(r, next) /\ moved' = [moved EXCEPT ![r] = 0]
  BY <1>1, <1>2, <1>5, MoveIs
<1>8. m \in Nat /\ Length \in Nat /\ m < Length /\ offset(r) \in Nat /\ offset(s) \in Nat /\ first \in Nat
      /\ g \in Ranks
  BY <1>4, UnitType, FileOfRank
<1>9. /\ DOMAIN files' = DOMAIN files /\ \A h \in DOMAIN files \ {g} : files'[h] = files[h]
      /\ \A u \in DOMAIN files[g] \ (first..(first + n - 1)) :
            u \in DOMAIN files'[g] /\ files'[g][u] = files[g][u]
      /\ \A u \in first..(first + n - 1) : u \in DOMAIN files'[g] /\ files'[g][u] = Data(r, m + u - first)
  <2>1. files' = Stored(g, first, n, r, m)
    BY <1>7
  <2> HIDE DEF g, m, first
  <2>2. g \in DOMAIN files
    BY <1>3 DEF g
  <2> QED
    BY <1>4, <1>8, <2>1, <2>2, StoredIs
<1>10. FileOf(s)' = FileOf(s) /\ offset(s)' = offset(s)
  BY <1>1, SameJob
<1>11. CASE s # r
  <2>1. at'[s] = at[s] /\ moved'[s] = moved[s]
    BY <1>4, <1>7, <1>11 DEF Go
  <2>2. Amount(s)' = Amount(s) /\ (Opened(s)' <=> Opened(s))
    BY <1>1, <2>1 DEF Amount, Opened
  <2>3. Amount(s) \in 0..Length /\ (Opened(s) => FileOf(s) \in DOMAIN files) /\ Holds(s, Amount(s))
    BY <1>2, <1>3, <1>4, AmountType DEF PartInv
  <2>4. ASSUME NEW k \in 0..(Amount(s) - 1)
        PROVE  /\ FileOf(s) \in DOMAIN files' /\ offset(s) + k \in DOMAIN files'[FileOf(s)]
               /\ files'[FileOf(s)][offset(s) + k] = Data(s, k)
    <3> DEFINE u == offset(s) + k
    <3>1. FileOf(s) \in DOMAIN files /\ u \in DOMAIN files[FileOf(s)] /\ files[FileOf(s)][u] = Data(s, k)
      BY <2>3, <2>4 DEF Holds
    <3>2. CASE FileOf(s) # g
      BY <1>9, <3>1, <3>2
    <3>3. CASE FileOf(s) = g
      <4>1. k \in Nat /\ k < Length
        <5>1. Amount(s) \in 0..Length /\ Length \in Nat
          BY <2>3, UnitType
        <5> QED
          BY <5>1
      <4>2. offset(r) + Length <= offset(s) \/ offset(s) + Length <= offset(r)
        BY <1>11, <3>3, PartsApart
      <4>3. n <= Length - m
        BY <1>7
      <4>4. u \notin first..(first + n - 1)
        <5> HIDE DEF m, u
        <5>1. first = offset(r) + m /\ u = offset(s) + k
          BY DEF u
        <5> HIDE DEF first
        <5> QED
          BY <1>8, <4>1, <4>2, <4>3, <5>1
      <4> HIDE DEF first, u
      <4> QED
        BY <1>9, <3>1, <3>3, <4>4 DEF u
    <3> QED
      BY <3>2, <3>3
  <2>5. Holds(s, Amount(s))'
    BY <1>10, <2>2, <2>4 DEF Holds
  <2> QED
    BY <1>9, <1>10, <1>11, <2>2, <2>3, <2>5
<1>12. CASE s = r
  <2>1. Holds(r, m)
    <3>1. Amount(r) = m
      BY <1>1 DEF Amount, Early, Start
    <3> QED
      BY <1>2, <1>3, <1>4, <3>1 DEF PartInv
  <2>2. \A k \in 0..(Amount(r)' - 1) : k \in Nat /\ (k < m \/ (m <= k /\ k < m + n))
    <3>1. CASE UNCHANGED <<at, moved>>
      <4>1. Amount(r)' = m
        BY <1>1, <3>1 DEF Amount, Early, Start
      <4> HIDE DEF m
      <4> QED
        BY <1>8, <4>1
    <3>2. CASE UNCHANGED at /\ moved' = [moved EXCEPT ![r] = moved[r] + n]
      <4>1. Amount(r)' = m + n
        BY <1>1, <1>4, <3>2 DEF Amount, Early, Start
      <4> HIDE DEF m
      <4> QED
        BY <1>8, <4>1
    <3>3. CASE UNCHANGED at /\ moved' = [moved EXCEPT ![r] = 0]
      <4>1. Amount(r)' = 0
        BY <1>1, <1>4, <3>3 DEF Amount, Early, Start
      <4> QED
        BY <4>1
    <3>4. CASE n = Length - moved[r] /\ Go(r, next)
      <4>1. Amount(r)' = Length
        BY <1>4, <1>6, <3>4 DEF Go, Amount, Early, Start
      <4>2. n = Length - m
        BY <3>4
      <4> HIDE DEF m
      <4> QED
        BY <1>8, <4>1, <4>2
    <3> QED
      BY <1>7, <3>1, <3>2, <3>3, <3>4
  <2>3. ASSUME NEW k \in Nat, k < m \/ (m <= k /\ k < m + n)
        PROVE  /\ offset(r) + k \in DOMAIN files'[g] /\ files'[g][offset(r) + k] = Data(r, k)
    <3> DEFINE u == offset(r) + k
    <3>1. CASE k < m
      <4>1. k \in 0..(m - 1)
        BY <1>8, <3>1
      <4>2. u \in DOMAIN files[g] /\ files[g][u] = Data(r, k)
        BY <2>1, <4>1 DEF Holds
      <4>3. u \notin first..(first + n - 1)
        <5> HIDE DEF m
        <5> QED
          BY <1>8, <3>1
      <4> HIDE DEF first, u
      <4> QED
        BY <1>9, <4>2, <4>3 DEF u
    <3>2. CASE m <= k /\ k < m + n
      <4>1. u \in first..(first + n - 1) /\ m + u - first = k
        <5> HIDE DEF m
        <5> QED
          BY <1>8, <3>2
      <4> HIDE DEF first, u
      <4> QED
        BY <1>9, <4>1 DEF u
    <3> QED
      BY <2>3, <3>1, <3>2
  <2>4. Holds(r, Amount(r))'
    <3>1. ASSUME NEW k \in 0..(Amount(r)' - 1)
          PROVE  /\ g \in DOMAIN files' /\ offset(r) + k \in DOMAIN files'[g]
                 /\ files'[g][offset(r) + k] = Data(r, k)
      BY <1>3, <1>9, <2>2, <2>3
    <3> QED
      BY <1>10, <1>12, <3>1 DEF Holds
  <2> QED
    BY <1>3, <1>9, <1>10, <1>12, <2>4
<1> QED
  BY <1>11, <1>12

----------------------------------------------------------------------------
(* What the ranks have read.                                               *)

\* Only the rank itself moves on, transfers and reads.
LEMMA OthersStay ==
    ASSUME AllInv, NEW r \in Ranks, RankNext(r)
    PROVE  /\ GotType' /\ \A s \in Ranks : DOMAIN got'[s] = 0..(Length - 1)
           /\ \A s \in Ranks \ {r} : at'[s] = at[s] /\ moved'[s] = moved[s] /\ got'[s] = got[s]
           /\ UNCHANGED <<moved, got>> \/ write(r) \/ read(r)
           /\ UNCHANGED got \/ read(r)
<1>1. /\ at \in [Ranks -> Places] /\ moved \in [Ranks -> 0..(Length - 1)] /\ GotType
      /\ \A s \in Ranks : DOMAIN got[s] = 0..(Length - 1)
  BY DEF AllInv, DataInv, Inv, TypeInv, FileInv, MovedType, GotInv
<1>2. UNCHANGED <<moved, got>> \/ write(r) \/ read(r)
  BY StepKinds DEF OtherStep, create, LateCreate, open, RemoveOld, Delete, transfer
<1>3. UNCHANGED at \/ \E to : Go(r, to)
  BY PlaceSteps
<1>4. UNCHANGED moved \/ \E x : moved' = [moved EXCEPT ![r] = x]
  BY <1>2 DEF write, read, Move, transfer
<1>5. UNCHANGED got \/ (read(r) /\ \E F : got' = [got EXCEPT ![r] = [k \in DOMAIN @ |-> F[k]]])
  <2>1. CASE write(r)
    BY <2>1 DEF write, Move, transfer
  <2>2. CASE read(r) /\ ~UNCHANGED got
    <3>1. PICK n \in Results(r, "read") :
             got' = [got EXCEPT ![r] = [k \in DOMAIN @ |->
                        IF k \in (IF job.api = "MPIIO" THEN 0 ELSE moved[r])
                                 ..((IF job.api = "MPIIO" THEN 0 ELSE moved[r]) + n - 1)
                        THEN files[FileOf(Pretend(r))]
                                [FirstUnit(r, "read") + k - (IF job.api = "MPIIO" THEN 0 ELSE moved[r])]
                        ELSE @[k]]]
      BY <2>2 DEF read, Move, transfer
    <3> DEFINE F == [k \in DOMAIN got[r] |->
                        IF k \in (IF job.api = "MPIIO" THEN 0 ELSE moved[r])
                                 ..((IF job.api = "MPIIO" THEN 0 ELSE moved[r]) + n - 1)
                        THEN files[FileOf(Pretend(r))]
                                [FirstUnit(r, "read") + k - (IF job.api = "MPIIO" THEN 0 ELSE moved[r])]
                        ELSE got[r][k]]
    <3>2. got' = [got EXCEPT ![r] = F]
      BY <3>1
    <3>3. F = [k \in DOMAIN got[r] |-> F[k]]
      OBVIOUS
    <3> HIDE DEF F
    <3>4. got' = [got EXCEPT ![r] = [k \in DOMAIN @ |-> F[k]]]
      BY <3>2, <3>3
    <3> QED
      BY <2>2, <3>4
  <2> QED
    BY <1>2, <2>1, <2>2
<1>6. \A s \in Ranks \ {r} : at'[s] = at[s] /\ moved'[s] = moved[s]
  BY <1>1, <1>3, <1>4 DEF Go
<1>7. /\ GotType' /\ \A s \in Ranks : DOMAIN got'[s] = 0..(Length - 1)
      /\ \A s \in Ranks \ {r} : got'[s] = got[s]
  <2>1. CASE UNCHANGED got
    BY <1>1, <2>1 DEF GotType
  <2>2. CASE \E F : got' = [got EXCEPT ![r] = [k \in DOMAIN @ |-> F[k]]]
    <3>1. PICK F : got' = [got EXCEPT ![r] = [k \in DOMAIN got[r] |-> F[k]]]
      BY <2>2
    <3>2. DOMAIN got = Ranks
      BY <1>1 DEF GotType
    <3>3. /\ DOMAIN got' = Ranks /\ got' = [s \in Ranks |-> got'[s]]
          /\ got'[r] = [k \in DOMAIN got[r] |-> F[k]]
          /\ \A s \in Ranks \ {r} : got'[s] = got[s]
      BY <3>1, <3>2
    <3> QED
      BY <1>1, <3>3 DEF GotType
  <2> QED
    BY <1>5, <2>1, <2>2
<1> QED
  BY <1>2, <1>5, <1>6, <1>7

\* A transfer begins with nothing.
LEMMA ProgressKeeps ==
    ASSUME AllInv, DataIsSafe, NEW r \in Ranks, RankNext(r), NEW s \in Ranks
    PROVE  ProgressInv(s)'
<1>1. ProgressInv(s) /\ UNCHANGED job /\ at \in [Ranks -> Places] /\ moved \in [Ranks -> 0..(Length - 1)]
  BY JobStays DEF AllInv, DataInv, Inv, TypeInv, FileInv, MovedType
<1>2. Dry' <=> Dry
  BY <1>1, SameJob
<1>3. CASE s # r
  <2>1. at'[s] = at[s] /\ moved'[s] = moved[s]
    BY <1>3, OthersStay
  <2> QED
    BY <1>1, <1>2, <2>1 DEF ProgressInv
<1>4. CASE s = r /\ (UNCHANGED <<moved, at>> \/ (UNCHANGED moved /\ at[r] \notin {"write", "read"}))
  BY <1>1, <1>2, <1>4 DEF ProgressInv
<1>5. CASE s = r /\ ~write(r) /\ ~read(r)
  <2>1. UNCHANGED moved
    BY <1>5, OthersStay
  <2>2. UNCHANGED at \/ at[r] \notin {"write", "read"}
    <3>1. CASE OtherStep(r)
      BY <3>1, StretchMeans DEF OtherStep
    <3> QED
      BY <1>5, <3>1, StepKinds DEF create, LateCreate, open, RemoveOld, Delete, At
  <2> QED
    BY <1>4, <1>5, <2>1, <2>2
<1>6. ASSUME s = r, NEW access \in {"write", "read"}, NEW next, at[r] = access, At(r, access),
             Move(r, access, next), ~Dry
      PROVE  ProgressInv(s)'
  <2>1. CASE Active
    <3>1. PICK n \in Int :
             \/ UNCHANGED <<at, moved>>
             \/ UNCHANGED at /\ moved' = [moved EXCEPT ![r] = moved[r] + n] /\ job.api \notin AtOnce
             \/ UNCHANGED at /\ moved' = [moved EXCEPT ![r] = 0]
             \/ n = Length - moved[r] /\ Go(r, next) /\ moved' = [moved EXCEPT ![r] = 0]
      BY <1>6, <2>1, MoveIs
    <3>2. CASE UNCHANGED at /\ moved' = [moved EXCEPT ![r] = moved[r] + n] /\ job.api \notin AtOnce
      BY <1>1, <1>2, <1>6, <3>2 DEF ProgressInv
    <3>3. CASE moved' = [moved EXCEPT ![r] = 0]
      BY <1>1, <1>6, <3>3 DEF ProgressInv
    <3> QED
      BY <1>4, <1>6, <3>1, <3>2, <3>3
  <2>2. CASE ~Active
    <3>1. job.api \notin AtOnce
      BY <1>6, <2>2 DEF Active, Streamed, AtOnce, StartsAgain
    <3>2. UNCHANGED at \/ moved' = [moved EXCEPT ![r] = 0]
      BY <1>6 DEF Move, ERR
    <3> QED
      BY <1>1, <1>2, <1>6, <3>1, <3>2 DEF ProgressInv
  <2> QED
    BY <2>1, <2>2
<1>7. CASE s = r /\ write(r)
  <2>1. CASE Dry
    BY <1>1, <1>2, <1>7, <2>1 DEF write, transfer, ProgressInv
  <2>2. CASE ~Dry
    <3>1. At(r, "write") /\ at[r] = "write" /\ \E next : Move(r, "write", next)
      BY <1>7, <2>2 DEF write, At
    <3> QED
      BY <1>6, <1>7, <2>2, <3>1
  <2> QED
    BY <2>1, <2>2
<1>8. CASE s = r /\ read(r)
  <2>1. CASE Dry
    BY <1>1, <1>2, <1>8, <2>1 DEF read, transfer, ProgressInv
  <2>2. CASE ~Dry
    <3>1. At(r, "read") /\ at[r] = "read" /\ \E next : Move(r, "read", next)
      BY <1>8, <2>2 DEF read, At
    <3> QED
      BY <1>6, <1>8, <2>2, <3>1
  <2> QED
    BY <2>1, <2>2
<1> QED
  BY <1>3, <1>5, <1>7, <1>8

\* What counts as read stays, or is less, but for the rank that reads.
LEMMA GottenKeeps ==
    ASSUME AllInv, NEW r \in Ranks, RankNext(r), NEW s \in Ranks, s # r \/ ~read(r)
    PROVE  Gotten(s)' = Gotten(s) \/ Gotten(s)' = 0
<1>1. at \in [Ranks -> Places] /\ ProgressInv(s)
  BY DEF AllInv, DataInv, Inv, TypeInv
<1>2. CASE s # r
  <2>1. at'[s] = at[s] /\ moved'[s] = moved[s]
    BY <1>2, OthersStay
  <2> QED
    BY <2>1 DEF Gotten
<1>3. CASE s = r
  <2>1. at[s] # "write" => UNCHANGED moved
    <3>1. UNCHANGED moved \/ write(r)
      BY <1>3, OthersStay
    <3> QED
      BY <1>3, <3>1 DEF write, At
  <2>2. at[s] = "read" => UNCHANGED at
    <3>1. ASSUME at[s] = "read", OtherStep(r) PROVE UNCHANGED at
      BY <1>3, <3>1, StretchMeans DEF OtherStep
    <3> QED
      BY <1>3, <3>1, StepKinds DEF create, LateCreate, write, open, RemoveOld, Delete, At
  <2>3. CASE at'[s] = at[s]
    BY <2>1, <2>3 DEF Gotten
  <2>4. CASE \E S \in Stretches : at[s] \in S /\ at'[s] \in S
    <3>1. /\ at[s] \in {"close_read", "remove"} \cup Ended <=> at'[s] \in {"close_read", "remove"} \cup Ended
          /\ at[s] # "read" /\ at'[s] # "read"
      BY <2>4, StretchMeans
    <3> QED
      BY <3>1 DEF Gotten
  <2>5. CASE at'[s] \in {"create", "late_create", "write"} \cup Middle
    BY <2>5 DEF Gotten, Middle, Ended, DfsPlaces
  <2>6. CASE At(s, "open") /\ at'[s] = "read"
    <3>1. moved'[s] = 0
      BY <1>1, <2>1, <2>6 DEF ProgressInv, At
    <3> QED
      BY <2>6, <3>1 DEF Gotten
  <2>7. CASE At(s, "remove") /\ at'[s] \in Ended
    BY <2>7 DEF Gotten, Ended, DfsPlaces, At
  <2> QED
    BY <1>1, <2>2, <2>3, <2>4, <2>5, <2>6, <2>7, MovesTo DEF At
<1> QED
  BY <1>2, <1>3

\* What a rank has read is what the other one has written.
LEMMA GotKeeps ==
    ASSUME AllInv, DataIsSafe, NEW r \in Ranks, RankNext(r), NEW s \in Ranks
    PROVE  GotInv(s)'
<1>1. GotInv(s) /\ UNCHANGED job /\ DOMAIN got'[s] = 0..(Length - 1)
  BY JobStays, OthersStay DEF AllInv, DataInv
<1>2. SUFFICES ASSUME Active, NEW k \in 0..(Gotten(s)' - 1)
               PROVE  got'[s][k] = Data(Pretend(s), k)
  BY <1>1, SameJob DEF GotInv
<1>3. CASE s # r \/ ~read(r)
  <2>1. got'[s] = got[s]
    <3>1. DOMAIN got = Ranks
      BY DEF AllInv, DataInv, GotType
    <3> QED
      BY <1>3, OthersStay
  <2>2. Gotten(s)' = Gotten(s) \/ Gotten(s)' = 0
    BY <1>3, GottenKeeps
  <2> QED
    BY <1>1, <1>2, <2>1, <2>2 DEF GotInv
<1>4. CASE s = r /\ read(r)
  <2> DEFINE m == moved[r]
             file == files[FileOf(Pretend(r))]
             first == offset(Pretend(r))
  <2>1. At(r, "read") /\ at[r] = "read" /\ Move(r, "read", "close_read")
    BY <1>2, <1>4 DEF read, At, Active
  <2>2. PICK n \in Int :
           /\ n <= Length - moved[r] /\ got' = Filled(r, n)
           /\ \/ UNCHANGED <<at, moved>>
              \/ UNCHANGED at /\ moved' = [moved EXCEPT ![r] = moved[r] + n]
              \/ UNCHANGED at /\ moved' = [moved EXCEPT ![r] = 0]
              \/ n = Length - moved[r] /\ Go(r, "close_read")
    BY <1>2, <2>1, MoveIs
  <2>3. /\ at \in [Ranks -> Places] /\ moved \in [Ranks -> 0..(Length - 1)] /\ DOMAIN got = Ranks
        /\ DOMAIN got[r] = 0..(Length - 1)
    BY <1>1, <1>4 DEF AllInv, DataInv, Inv, TypeInv, FileInv, MovedType, GotInv, GotType
  <2>4. m \in Nat /\ Length \in Nat /\ m < Length /\ first \in Nat
    BY <2>3, UnitType, PretendType
  <2>5. k \in 0..(Length - 1) /\ (k < m \/ (m <= k /\ k < m + n))
    <3>1. Gotten(r)' = m \/ Gotten(r)' = m + n \/ Gotten(r)' = 0 \/ (n = Length - m /\ Gotten(r)' = Length)
      <4>1. CASE UNCHANGED at
        <5>1. Gotten(r)' = moved'[r]
          BY <2>1, <4>1 DEF Gotten
        <5>2. moved'[r] = m \/ moved'[r] = m + n \/ moved'[r] = 0 \/ (n = Length - m /\ Go(r, "close_read"))
          BY <2>2, <2>3
        <5>3. ~Go(r, "close_read")
          BY <2>1, <2>3, <4>1 DEF Go
        <5> QED
          BY <5>1, <5>2, <5>3
      <4>2. CASE n = Length - moved[r] /\ Go(r, "close_read")
        BY <2>3, <4>2 DEF Gotten, Go
      <4> QED
        BY <2>2, <4>1, <4>2
    <3>2. k \in 0..(Gotten(r)' - 1) /\ n <= Length - m
      BY <1>2, <1>4, <2>2
    <3> HIDE DEF m
    <3> DEFINE g == Gotten(r)'
    <3> HIDE DEF g
    <3>3. g = m \/ g = m + n \/ g = 0 \/ (n = Length - m /\ g = Length)
      BY <3>1 DEF g
    <3>4. k \in 0..(g - 1)
      BY <3>2 DEF g
    <3> QED
      BY <2>4, <3>2, <3>3, <3>4
  <2>6. got'[r][k] = IF k \in m..(m + n - 1) THEN file[first + m + k - m] ELSE got[r][k]
    BY <2>2, <2>3, <2>5 DEF Filled
  <2>7. first + m + k - m = first + k
    <3> HIDE DEF m, first
    <3> QED
      BY <2>4, <2>5
  <2>8. file[first + k] = Data(Pretend(r), k)
    BY <1>2, <2>1, <2>5, ReaderHasData DEF Holds
  <2>9. CASE k \in m..(m + n - 1)
    BY <1>4, <2>6, <2>7, <2>8, <2>9
  <2>10. CASE k \notin m..(m + n - 1)
    <3>1. Gotten(r) = m
      BY <2>1 DEF Gotten
    <3>2. k \in 0..(m - 1)
      <4> HIDE DEF m
      <4> QED
        BY <2>4, <2>5, <2>10
    <3> QED
      BY <1>1, <1>2, <1>4, <2>6, <2>10, <3>1, <3>2 DEF GotInv
  <2> QED
    BY <2>9, <2>10
<1> QED
  BY <1>3, <1>4

----------------------------------------------------------------------------
(* Nobody finds his file made already.                                     *)

\* A backend that makes a file of its own makes no other.
LEMMA ExclusiveCreates ==
    ASSUME NEW r \in Ranks, create(r), Exclusive, ~Dry
    PROVE  \/ UNCHANGED files
           \/ /\ Go(r, "write") /\ (job.filePerProc \/ r = 0)
              /\ DOMAIN files' = DOMAIN files \cup {FileOf(r)}
<1>1. ASSUME NEW f, files' = Made(f) \/ \E c : files' = With(f, c)
      PROVE  DOMAIN files' = DOMAIN files \cup {f}
  BY <1>1 DEF Made, With, Exists
<1>2. CASE job.api = "POSIX"
  <2>1. job.striping /\ POSIX_Create(r)
    BY <1>2 DEF create, Exclusive
  <2>2. CASE files' = Made(FileOf(r)) /\ Go(r, "write") /\ (job.filePerProc \/ r = 0)
    BY <1>1, <2>2
  <2> QED
    BY <2>1, <2>2 DEF POSIX_Create, CannotCreate, CreatedFirst, CreateLater, GoAfter
<1>3. CASE job.api = "PMDK"
  <2>1. PMDK_Create(r)
    BY <1>3 DEF create, NullInDryRun
  <2>2. CASE (\E c : files' = With(r, c)) /\ Go(r, "write") /\ job.filePerProc
    BY <1>1, <2>2 DEF FileOf
  <2> QED
    BY <2>1, <2>2 DEF PMDK_Create, CannotCreate, Created, GoAfter
<1> QED
  BY <1>2, <1>3 DEF Exclusive

\* The file of a rank that is to create it is not there.
LEMMA FreshKeeps ==
    ASSUME AllInv, NEW r \in Ranks, RankNext(r), NEW s \in Ranks
    PROVE  FreshInv(s)'
<1>1. FreshInv(s) /\ UNCHANGED job /\ at \in [Ranks -> Places]
  BY JobStays DEF AllInv, DataInv, Inv, TypeInv
<1>2. (Dry' <=> Dry) /\ (Exclusive' <=> Exclusive) /\ FileOf(s)' = FileOf(s)
  BY <1>1, SameJob
<1>3. SUFFICES ASSUME Exclusive, ~Dry, at'[s] = "create", job.filePerProc \/ s = 0,
                      FileOf(s) \in DOMAIN files'
               PROVE  FALSE
  BY <1>1, <1>2 DEF FreshInv
<1>4. CASE at[s] # "create"
  <2>1. At(s, "remove_old")
    BY <1>1, <1>3, <1>4, MovesTo, StretchMeans DEF At, Middle, Ended, DfsPlaces
  <2>2. s = r
    BY <1>3, <1>4, OthersStay
  <2>3. RemoveOld(r)
    <3>1. at[r] = "remove_old"
      BY <2>1, <2>2 DEF At
    <3>2. ~OtherStep(r)
      <4>1. ASSUME OtherStep(r) PROVE FALSE
        <5>1. at'[r] = at[r] \/ \E S \in Stretches : at[r] \in S /\ at'[r] \in S
          BY <1>1, <4>1 DEF OtherStep, Go
        <5> QED
          BY <1>3, <1>4, <2>2, <5>1, StretchMeans
      <4> QED
        BY <4>1
    <3> QED
      BY <3>1, <3>2, StepKinds DEF create, LateCreate, write, open, read, Delete, At
  <2>4. files' = Without(FileOf(s))
    BY <1>3, <2>2, <2>3 DEF RemoveOld
  <2> QED
    BY <1>3, <2>4 DEF Without, Restrict
<1>5. CASE at[s] = "create"
  <2>1. FileOf(s) \notin DOMAIN files
    BY <1>1, <1>3, <1>5 DEF FreshInv
  <2>2. CASE create(r)
    <3>1. Go(r, "write") /\ (job.filePerProc \/ r = 0) /\ FileOf(s) = FileOf(r)
      <4>1. \/ UNCHANGED files
            \/ /\ Go(r, "write") /\ (job.filePerProc \/ r = 0)
               /\ DOMAIN files' = DOMAIN files \cup {FileOf(r)}
        BY <1>3, <2>2, ExclusiveCreates
      <4> QED
        BY <1>3, <2>1, <4>1
    <3>2. r = s
      BY <1>3, <3>1 DEF FileOf
    <3> QED
      BY <1>1, <1>3, <3>1, <3>2 DEF Go
  <2>3. CASE LateCreate(r)
    BY <1>3, <2>1, <2>3 DEF LateCreate, Exclusive, Created, CannotCreate
  <2>4. CASE write(r)
    <3>1. ASSUME NEW f, NEW first, NEW n, NEW q, NEW from, files' = Stored(f, first, n, q, from)
          PROVE  DOMAIN files' = DOMAIN files
      <4>1. files' = files \/ (f \in DOMAIN files /\ \E c : files' = With(f, c))
        BY <3>1 DEF Stored, Exists
      <4> QED
        BY <4>1 DEF With
    <3>2. \E f, first, n, q, from : files' = Stored(f, first, n, q, from)
      BY <1>3, <2>4 DEF write, Move
    <3> QED
      BY <1>3, <2>1, <3>1, <3>2
  <2>5. CASE RemoveOld(r) \/ Delete(r)
    <3>1. UNCHANGED files \/ \E f : files' = Without(f)
      BY <2>5 DEF RemoveOld, Delete
    <3> QED
      BY <1>3, <2>1, <3>1 DEF Without, Restrict
  <2>6. CASE OtherStep(r) \/ open(r) \/ read(r)
    BY <1>3, <2>1, <2>6 DEF OtherStep, open, read, Move
  <2> QED
    BY <2>2, <2>3, <2>4, <2>5, <2>6, StepKinds
<1> QED
  BY <1>4, <1>5

\* Rank 0 goes first.
LEMMA LateKeeps ==
    ASSUME AllInv, NEW r \in Ranks, RankNext(r), NEW s \in Ranks
    PROVE  LateKnown(s)'
<1>1. LateKnown(s) /\ UNCHANGED job /\ at \in [Ranks -> Places]
  BY JobStays DEF AllInv, DataInv, Inv, TypeInv
<1>2. SUFFICES ASSUME at'[s] = "late_create", at[s] # "late_create", s = 0
               PROVE  job.api = "MPIIO"
  BY <1>1 DEF LateKnown
<1>3. At(s, "create") /\ at[s] = "create"
  BY <1>1, <1>2, MovesTo, StretchMeans DEF At, Middle, Ended, DfsPlaces
<1>4. s = r
  BY <1>2, OthersStay
<1>5. create(r)
  <2>1. ~OtherStep(r)
    BY <1>1, <1>2, <1>3, <1>4, StretchMeans DEF OtherStep, Go
  <2> QED
    BY <1>3, <1>4, <2>1, StepKinds DEF LateCreate, write, open, read, RemoveOld, Delete, At
<1>6. at'[r] = "late_create" /\ at[r] = "create" /\ r = 0
  BY <1>2, <1>3, <1>4
<1>7. ~ERR /\ ~Go(r, "write")
  BY <1>1, <1>6 DEF ERR, Go
<1> QED
  BY <1>5, <1>6, <1>7 DEF create, POSIX_Create, MMAP_Create, HDFS_Create_Or_Open, IME_Open, CEPHFS_Open,
     S3_Create, Gfarm_create, CHFS_create, FINCHFS_create, RADOS_Create_Or_Open, DFS_Create, PMDK_Create,
     DUMMY_Create, Created, CreatedFirst, CreateLater, CannotCreate, GoAfter

----------------------------------------------------------------------------
(* Who gives up.                                                           *)

\* Creating fails only where it has to.
LEMMA CreateSucceeds ==
    ASSUME AllInv, Reliable, NEW r \in Ranks, create(r), ~Refused
    PROVE  UNCHANGED stopped
<1>1. at[r] = "create" /\ FreshInv(r)
  BY DEF AllInv, DataInv, create, At
<1>2. (Dry => job.api = "MPIIO") /\ (job.api = "PMDK" => job.filePerProc)
  BY DEF Refused
<1>3. ASSUME job.filePerProc \/ r = 0, Exclusive, ~Dry PROVE ~Exists(FileOf(r))
  BY <1>1, <1>3 DEF FreshInv, Exists
<1>4. CASE job.api = "POSIX"
  <2>1. POSIX_Create(r) /\ ~Dry
    BY <1>2, <1>4 DEF create, NullInDryRun
  <2>2. CASE job.striping
    <3>1. Exclusive
      BY <1>4, <2>2 DEF Exclusive
    <3> QED
      BY <1>3, <2>1, <2>2, <3>1 DEF POSIX_Create, CreatedFirst, CreateLater
  <2>3. CASE ~job.striping
    BY <2>1, <2>3 DEF POSIX_Create, Created
  <2> QED
    BY <2>2, <2>3
<1>5. CASE job.api = "PMDK"
  <2>1. Exclusive /\ ~Dry /\ job.filePerProc /\ PMDK_Create(r)
    BY <1>2, <1>5 DEF create, Exclusive, NullInDryRun
  <2>2. ~Exists(r)
    BY <1>3, <2>1 DEF FileOf
  <2> QED
    BY <2>1, <2>2 DEF PMDK_Create, Created
<1>6. CASE job.api \notin {"POSIX", "PMDK"}
  BY <1>2, <1>6 DEF create, NullInDryRun, MMAP_Create, MPIIO_Open, HDFS_Create_Or_Open, IME_Open, CEPHFS_Open,
     S3_Create, Gfarm_create, CHFS_create, FINCHFS_create, RADOS_Create_Or_Open, DFS_Create,
     DUMMY_Create, Created, CreatedFirst, CreateLater, LookupFails, Reliable
<1> QED
  BY <1>4, <1>5, <1>6

\* Who has waited for rank 0 finds its file.
LEMMA LateCreateSucceeds ==
    ASSUME AllInv, NEW r \in Ranks, LateCreate(r), ~Refused
    PROVE  UNCHANGED stopped
<1>1. SUFFICES ASSUME job.api = "POSIX" PROVE Exists(0)
  BY DEF LateCreate, CreatedFirst, Created
<1>2. Inv /\ At(r, "late_create") /\ at[r] = "late_create" /\ 0 \in Ranks /\ PartInv(0) /\ LateKnown(0)
  BY FileOfRank DEF AllInv, DataInv, LateCreate, At
<1>3. Active
  BY <1>1 DEF Refused, Active, Streamed
<1>4. ~Removed
  BY <1>2, NothingRemoved DEF Ended, DfsPlaces
<1>5. /\ Ready(r) /\ Count(r) = Due["late_create"] /\ "late_create" \in Reachable
      /\ Awaited["late_create"] # "none" => calls[r][Count(r)].op = Awaited["late_create"]
  <2>1. "late_create" \in Places
    BY DEF Places
  <2> QED
    BY <1>2, <2>1, AtMeans
<1>6. Awaited["late_create"] = "Barrier" /\ "Barrier" \in Synchronizing
  BY <1>1, AwaitedAt DEF LateWait, Synchronizing
<1>7. Due["late_create"] = ToCreate + 1 /\ ToCreate \in Nat
  BY DueAt, SizeType
<1>8. Count(0) >= ToCreate + 1
  BY <1>2, <1>5, <1>6, <1>7, ReadyMeans
<1>9. at[0] \notin Start
  <2>1. Count(0) \in Nat
    BY <1>2, CountMeans
  <2>2. Count(0) > ToCreate
    BY <1>7, <1>8, <2>1
  <2> QED
    BY <1>2, <2>2, CountMeans
<1>10. Opened(0)
  BY <1>1, <1>2, <1>9 DEF Opened, LateKnown
<1>11. FileOf(0) = 0
  BY DEF FileOf
<1> QED
  BY <1>2, <1>3, <1>4, <1>10, <1>11 DEF PartInv, Exists

\* The storage does what it is asked for.
LEMMA MoveSucceeds ==
    ASSUME AllInv, DataIsSafe, NEW r \in Ranks, NEW access \in {"write", "read"}, At(r, access),
           NEW next, Move(r, access, next), Reliable, ~Streamed, ~Dry
    PROVE  UNCHANGED stopped
<1>1. CASE job.api = "DUMMY"
  <2>1. \A n, left, retries : Answer(access, n, left, retries) = "whole"
    BY <1>1 DEF Answer, DUMMY_Xfer
  <2> QED
    BY <2>1 DEF Move
<1>2. CASE job.api # "DUMMY"
  <2>1. Active
    BY <1>2 DEF Active
  <2> QED
    BY <2>1, MoveIs
<1> QED
  BY <1>1, <1>2

\* Nobody gives up without a reason.
LEMMA StopKeeps ==
    ASSUME AllInv, DataIsSafe, NEW r \in Ranks, RankNext(r)
    PROVE  GivesUpForAReason'
<1>1. GivesUpForAReason /\ UNCHANGED job
  BY JobStays DEF AllInv, DataInv
<1>2. SUFFICES ASSUME Reliable, ~Streamed, ~Refused PROVE UNCHANGED stopped
  BY <1>1, SameJob DEF GivesUpForAReason
<1>3. CASE OtherStep(r) \/ RemoveOld(r) \/ Delete(r)
  BY <1>3 DEF OtherStep, RemoveOld, Delete
<1>4. CASE create(r)
  BY <1>2, <1>4, CreateSucceeds
<1>5. CASE LateCreate(r)
  BY <1>2, <1>5, LateCreateSucceeds
<1>6. CASE write(r)
  <2>1. CASE Dry
    BY <1>6, <2>1 DEF write
  <2>2. CASE ~Dry
    <3>1. At(r, "write") /\ \E next : Move(r, "write", next)
      BY <1>6, <2>2 DEF write
    <3> QED
      BY <1>2, <2>2, <3>1, MoveSucceeds
  <2> QED
    BY <2>1, <2>2
<1>7. CASE open(r)
  <2>1. CASE Active
    <3>1. Exists(FileOf(Pretend(r)))
      BY <1>7, <2>1, ReaderHasData DEF open, Exists
    <3> QED
      BY <1>2, <1>7, <3>1 DEF open, LookupFails, Reliable
  <2>2. CASE ~Active
    BY <1>2, <1>7, <2>2 DEF open, Active, LookupFails, Reliable
  <2> QED
    BY <2>1, <2>2
<1>8. CASE read(r)
  <2>1. CASE Dry
    BY <1>8, <2>1 DEF read
  <2>2. CASE ~Dry
    <3>1. At(r, "read") /\ \E next : Move(r, "read", next)
      BY <1>8, <2>2 DEF read
    <3> QED
      BY <1>2, <2>2, <3>1, MoveSucceeds
  <2> QED
    BY <2>1, <2>2
<1> QED
  BY <1>3, <1>4, <1>5, <1>6, <1>7, <1>8, StepKinds

----------------------------------------------------------------------------
(* All runs.                                                               *)

\* The part of every rank, whatever the step.
LEMMA PartKeeps ==
    ASSUME AllInv, DataIsSafe, NEW r \in Ranks, RankNext(r), NEW s \in Ranks
    PROVE  PartInv(s)'
BY StepKinds, CreateParts, LateCreateParts, WriteParts, RemoveOldParts, DeleteParts, OtherParts

\* The invariant holds at first.
LEMMA DataInit == Init => DataInv
<1> SUFFICES ASSUME Init PROVE DataInv
  OBVIOUS
<1>1. GotType /\ GivesUpForAReason
  BY DEF Init, GotType, GivesUpForAReason
<1>2. ASSUME NEW s \in Ranks
      PROVE  /\ at[s] = "initialize" /\ moved[s] = 0 /\ DOMAIN got[s] = 0..(Length - 1)
  BY DEF Init
<1>3. ASSUME NEW s \in Ranks
      PROVE  /\ PartInv(s) /\ ProgressInv(s) /\ GotInv(s)
             /\ OpenKnown(s) /\ RemoveKnown(s) /\ FreshInv(s) /\ LateKnown(s)
  <2>1. ~Opened(s) /\ Amount(s) = 0 /\ Gotten(s) = 0
    BY <1>2 DEF Opened, Amount, Gotten, Early, Start, Ended, DfsPlaces
  <2>2. PartInv(s) /\ ProgressInv(s) /\ GotInv(s)
    BY <1>2, <2>1 DEF PartInv, Holds, ProgressInv, GotInv
  <2>3. OpenKnown(s) /\ RemoveKnown(s) /\ FreshInv(s) /\ LateKnown(s)
    BY <1>2 DEF OpenKnown, RemoveKnown, FreshInv, LateKnown, Last, Ended, DfsPlaces
  <2> QED
    BY <2>2, <2>3
<1> QED
  BY <1>1, <1>3 DEF DataInv

\* No step breaks it.
LEMMA DataStep ==
    ASSUME AllInv, DataIsSafe, [Next]_vars
    PROVE  DataInv'
<1>1. CASE UNCHANGED vars
  <2>1. UNCHANGED <<job, at, calls, files, moved, got, stopped>> /\ Ranks' = Ranks
    BY <1>1 DEF vars, transfer, Ranks
  <2>2. GotType' /\ GivesUpForAReason'
    BY <2>1, SameJob DEF AllInv, DataInv, GotType, GivesUpForAReason
  <2>3. ASSUME NEW s \in Ranks
        PROVE  /\ PartInv(s)' /\ ProgressInv(s)' /\ GotInv(s)'
               /\ OpenKnown(s)' /\ RemoveKnown(s)' /\ FreshInv(s)' /\ LateKnown(s)'
    <3>1. /\ PartInv(s) /\ ProgressInv(s) /\ GotInv(s)
          /\ OpenKnown(s) /\ RemoveKnown(s) /\ FreshInv(s) /\ LateKnown(s)
      BY DEF AllInv, DataInv
    <3>2. /\ (Active' <=> Active) /\ (Dry' <=> Dry) /\ (Exclusive' <=> Exclusive)
          /\ FileOf(s)' = FileOf(s) /\ offset(s)' = offset(s)
      BY <2>1, SameJob
    <3>3. PartInv(s)'
      BY <2>1, <3>1, <3>2 DEF PartInv, Removed, Opened, Holds, Amount
    <3>4. ProgressInv(s)' /\ GotInv(s)' /\ FreshInv(s)' /\ LateKnown(s)'
      BY <2>1, <3>1, <3>2 DEF ProgressInv, GotInv, Gotten, FreshInv, LateKnown
    <3>5. ToOpen' = ToOpen /\ ToRemove' = ToRemove /\ \A q \in Ranks : Count(q)' = Count(q)
      BY <2>1 DEF ToRemove, ToOpen, ToSize, ToClose, ToWrite, ToCreate, Opening, Reopening, Sizing, Optional,
         Together, TransferTogether, AfterCreate, AfterTransfer, Shared, Dry, Count
    <3>6. OpenKnown(s)' /\ RemoveKnown(s)'
      BY <2>1, <3>1, <3>5 DEF OpenKnown, RemoveKnown
    <3> QED
      BY <3>3, <3>4, <3>6
  <2> QED
    BY <2>1, <2>2, <2>3 DEF DataInv
<1>2. CASE \E r \in Ranks : RankNext(r)
  <2>1. PICK r \in Ranks : RankNext(r)
    BY <1>2
  <2>2. GotType' /\ GivesUpForAReason'
    BY <2>1, OthersStay, StopKeeps
  <2>3. ASSUME NEW s \in Ranks
        PROVE  /\ PartInv(s)' /\ ProgressInv(s)' /\ GotInv(s)'
               /\ OpenKnown(s)' /\ RemoveKnown(s)' /\ FreshInv(s)' /\ LateKnown(s)'
    BY <2>1, PartKeeps, ProgressKeeps, GotKeeps, KnowledgeKeeps, FreshKeeps, LateKeeps
  <2>4. Ranks' = Ranks
    BY DEF Ranks
  <2> QED
    BY <2>2, <2>3, <2>4 DEF DataInv
<1> QED
  BY <1>1, <1>2 DEF Next, Terminating

\* The data of a test, all the time.
LEMMA DataInvariant ==
    ASSUME TruncatersWait, DaosAnswers
    PROVE  Spec => [](Inv /\ FileInv /\ (DataIsSafe => DataInv))
<1>1. Init => Inv /\ FileInv /\ (DataIsSafe => DataInv)
  BY InvInit, FileInit, DataInit
<1>2. Inv /\ FileInv /\ (DataIsSafe => DataInv) /\ [Next]_vars => (Inv /\ FileInv /\ (DataIsSafe => DataInv))'
  <2> SUFFICES ASSUME Inv, FileInv, DataIsSafe => DataInv, [Next]_vars
               PROVE  Inv' /\ FileInv' /\ (DataIsSafe' => DataInv')
    OBVIOUS
  <2>1. Inv' /\ FileInv'
    BY InvStep, FileStep
  <2>2. UNCHANGED job
    BY JobStays DEF Next, Terminating, vars
  <2>3. DataIsSafe' => DataIsSafe
    BY <2>2 DEF DataIsSafe, Suits
  <2>4. DataIsSafe => DataInv'
    BY DataStep DEF AllInv
  <2> QED
    BY <2>1, <2>3, <2>4
<1> QED
  BY <1>1, <1>2, PTL DEF Spec

\* What a rank has read back is what the next one has written, byte by byte and
\* at its place, on any number of ranks, for any length, however the storage
\* splits the transfers and whenever it fails: the retries of POSIX_Xfer,
\* HDFS_Xfer and MPIIO_Xfer, the barriers of create, WriteOrRead and TestIoSys.
THEOREM WhatIsReadWasWritten ==
    ASSUME TruncatersWait, HandlesAreIntegers, StorageSuits, DaosAnswers
    PROVE  Spec => []ReadBack
<1>1. Inv => DataIsSafe
  BY DEF Inv, TypeInv, DataIsSafe, HandlesAreIntegers, StorageSuits
<1>2. DataInv => ReadBack
  <2> SUFFICES ASSUME DataInv, NEW r \in Ranks,
                      at[r] \in {"close_read", "remove"} \cup Ended, Active,
                      NEW k \in 0..(Length - 1)
               PROVE  got[r][k] = Data(Pretend(r), k)
    BY DEF ReadBack, Active, Ended, DfsPlaces
  <2>1. GotInv(r)
    BY DEF DataInv
  <2>2. Gotten(r) = Length
    BY DEF Gotten, Ended, DfsPlaces
  <2> QED
    BY <2>1, <2>2 DEF GotInv
<1> QED
  BY <1>1, <1>2, DataInvariant, PTL

\* No rank gives up if the storage moves all that it is asked to, in whatever
\* order the ranks run: the file is there for who opens it and not there for who
\* makes it alone (the barriers around create, LateCreate and open), and no
\* backend takes a whole transfer for a short one.
THEOREM GivesUpOnlyForAReason ==
    ASSUME TruncatersWait, HandlesAreIntegers, DaosAnswers
    PROVE  Spec => []GivesUpForAReason
<1>1. Inv /\ Reliable => DataIsSafe
  BY DEF Inv, TypeInv, DataIsSafe, HandlesAreIntegers, Suits, Reliable
<1>2. DataInv \/ ~Reliable => GivesUpForAReason
  BY DEF DataInv, GivesUpForAReason
<1> QED
  BY <1>1, <1>2, DataInvariant, PTL

----------------------------------------------------------------------------
(* The size of the files.                                                  *)

\* A file of its own is as long as the transfer of its rank, but MMAP extends
\* it to the size of all of them (MMAP_Create) and CEPHFS adds up the sizes
\* that CheckFileSize adds up again (CEPHFS_GetFileSize).
AddUp(j) == j.filePerProc => j.api \notin {"MMAP", "CEPHFS"}
FilesAddUp == \A j \in Jobs : AddUp(j)

\* The size of this job is checked, and the file is found.
Sized == Active /\ ~job.lost /\ job.api # "S3" /\ AddUp(job)

\* How long a file is when all have written.
Full == IF job.filePerProc THEN Length ELSE expectedAggFileSize

\* No file is longer, if what is left of an earlier test has been removed.
Cleaned(f) == Shared \/ at[f] \notin {"initialize", "remove_old"}
BoundInv == \A f \in DOMAIN files : Cleaned(f) => \A u \in DOMAIN files[f] : u < Full

\* The places up to the size, those where a rank has been told the size of its
\* file, and those where it has passed that on to the others.
Before == {"initialize", "remove_old", "create", "late_create", "write", "sync", "close", "size"}
Sizes == {"reduce_size", "check_size", "checked"}
After == {"checked", "open"} \cup Last

AsksRank0 == Shared /\ job.api \in {"MPIIO", "DFS"}

\* The calls that a rank has made at least.
Least(place) == IF place \in After THEN ToSize + Sizing + 1
                ELSE IF place \in Sizes THEN ToSize + Optional(job.api = "CEPHFS") ELSE 0

FullIn(call) == call.op = "Allreduce" /\ call.value = Full

\* The sizes that a rank has been told, and those that it has told the others.
Told(r) ==
    /\ at[r] \in Sizes => size[r] = Full
    /\ at[r] \in {"open", "read", "close_read", "remove"} => size[r] = expectedAggFileSize
Tells(r) ==
    /\ Count(r) > ToSize + Sizing => FullIn(calls[r][ToSize + Sizing + 1])
    /\ Count(r) > ToSize /\ job.api = "CEPHFS" => FullIn(calls[r][ToSize + 1])
    /\ Count(r) > ToSize /\ AsksRank0 => calls[r][ToSize + 1].op = "Bcast"
    /\ at[r] = "check_size" /\ AsksRank0 /\ ahead[r] # << >> => Head(ahead[r]) = "Bcast"

SizeOf(r) == Count(r) >= Least(at[r]) /\ Told(r) /\ Tells(r)
SizeInv == size = [r \in Ranks |-> size[r]] /\ (Sized => BoundInv /\ \A r \in Ranks : SizeOf(r))

\* Every part ends in the file of its rank, and the last one where the file does.
LEMMA FullType ==
    /\ Full \in Nat \ {0} /\ Length <= Full /\ (Shared => Full = expectedAggFileSize)
    /\ \A r \in Ranks : offset(r) + Length <= Full
    /\ \E r \in Ranks : Shared => offset(r) + Length = Full
<1>1. Length \in Nat \ {0} /\ expectedAggFileSize \in Nat /\ 0 \in Ranks
      /\ \A r \in Ranks : offset(r) \in Nat /\ offset(r) + Length <= expectedAggFileSize
  BY UnitType, EndOfPart, FileOfRank
<1>2. ASSUME job.filePerProc PROVE \A r \in Ranks : offset(r) = 0
  BY <1>2 DEF offset
<1>3. CASE job.filePerProc
  BY <1>1, <1>2, <1>3 DEF Full, Shared
<1>4. CASE ~job.filePerProc
  <2>1. N - 1 \in Ranks /\ N \in Nat
    BY MpiAssumption DEF Ranks
  <2>2. offset(N - 1) = (N - 1) * Length
    BY <1>4 DEF offset
  <2>3. (N - 1) * Length + Length = N * Length
    BY <1>1, <2>1
  <2>4. offset(N - 1) + Length = Full /\ Full = expectedAggFileSize
    BY <1>4, <2>2, <2>3 DEF Full, expectedAggFileSize
  <2>5. Full \in Nat \ {0} /\ Length <= Full
    BY <1>1, <2>1, <2>4
  <2> QED
    BY <1>1, <2>1, <2>4, <2>5
<1> QED
  BY <1>3, <1>4

\* The calls due at these places.
LEMMA DueOfSizes ==
    /\ \A place \in Before \cap Reachable : Due[place] \in Int /\ Due[place] <= ToSize
    /\ \A place \in (Before \ {"size"}) \cap Reachable : Due[place] < ToSize
    /\ \A place \in {"reduce_size", "check_size"} \cap Reachable : Due[place] \in Int /\ Due[place] <= ToSize + Sizing
    /\ ToSize \in Nat /\ Sizing \in Nat
    /\ (job.api = "CEPHFS" => Sizing >= 1) /\ (AsksRank0 /\ Active => Sizing = 1)
<1>1. /\ Opening \in Nat /\ Sizing \in Nat /\ ToCreate \in Nat \ {0} /\ ToWrite \in Nat /\ ToClose \in Nat
      /\ ToSize \in Nat /\ ToCreate <= ToWrite /\ ToWrite <= ToClose /\ ToClose < ToSize
  BY SizeType
<1>2. /\ Due["initialize"] = 0 /\ Due["remove_old"] = ToCreate - 1 /\ Due["create"] = ToCreate
      /\ Due["late_create"] = ToCreate + 1 /\ Due["write"] = ToWrite
      /\ Due["sync"] = ToWrite + Len(TransferTogether) /\ Due["close"] = ToClose
      /\ Due["size"] = ToSize /\ Due["reduce_size"] = ToSize + 1 /\ Due["check_size"] = ToSize + Sizing
  BY DueAt
<1>3. Len(TransferTogether) \in Nat /\ Len(Together) \in Nat /\ Len(AfterCreate) \in Nat
  BY OpsOfJob
<1>4. ToWrite + Len(TransferTogether) <= ToClose
  <2> DEFINE own == IF job.fsyncPerWrite THEN Len(Together) ELSE 0
             t == Len(TransferTogether)
  <2>1. own \in Nat /\ t \in Nat
    BY <1>3
  <2>2. ToClose = ToWrite + t + own
    BY DEF ToClose
  <2> HIDE DEF own, t
  <2>3. ToWrite + t <= ToClose
    BY <1>1, <2>1, <2>2
  <2> QED
    BY <2>3 DEF t
<1>5. "late_create" \in Reachable => ToCreate + 1 <= ToWrite
  <2>1. "late_create" \in Reachable => Opening > 0
    BY DEF Reachable
  <2>2. ToWrite = ToCreate + Opening + Len(AfterCreate)
    BY DEF ToWrite
  <2> QED
    BY <1>1, <1>3, <2>1, <2>2
<1>6. job.api = "CEPHFS" => Sizing >= 1
  BY DEF Sizing, Optional
<1>7. AsksRank0 /\ Active => Sizing = 1
  BY DEF Sizing, Optional, AsksRank0, Active
<1>8. "reduce_size" \in Reachable => ToSize + 1 <= ToSize + Sizing
  <2>1. "reduce_size" \in Reachable => job.api = "CEPHFS"
    BY DEF Reachable
  <2> QED
    BY <1>1, <1>6, <2>1
<1> DEFINE t == Len(TransferTogether)
<1> HIDE DEF t
<1>9. \A place \in (Before \ {"size"}) \cap Reachable : Due[place] \in Int /\ Due[place] < ToSize
  BY <1>1, <1>2, <1>3, <1>4, <1>5 DEF Before
<1>10. \A place \in Before \cap Reachable : Due[place] \in Int /\ Due[place] <= ToSize
  BY <1>1, <1>2, <1>9
<1>11. \A place \in {"reduce_size", "check_size"} \cap Reachable : Due[place] \in Int /\ Due[place] <= ToSize + Sizing
  BY <1>1, <1>2, <1>8
<1> QED
  BY <1>1, <1>6, <1>7, <1>9, <1>10, <1>11

\* Where a rank is that has made that many calls.
LEMMA CountOfSizes ==
    ASSUME Inv, NEW s \in Ranks
    PROVE  /\ at[s] \in Before \cup Sizes \cup After
           /\ Count(s) >= ToSize => at[s] \in {"size"} \cup Sizes \cup After
           /\ Count(s) > ToSize => at[s] \in Sizes \cup After
           /\ Count(s) > ToSize + Sizing => at[s] \in After
<1>1. Count(s) \in Nat /\ at[s] \in Places /\ Count(s) <= Due[at[s]] /\ at[s] \in Reachable
  BY CountMeans DEF Inv, CallInv
<1>2. at[s] \in Before \cup Sizes \cup After
  BY <1>1 DEF Places, DfsPlaces, Before, Sizes, After, Last, Ended
<1>3. ToSize \in Nat /\ Sizing \in Nat
  BY DueOfSizes
<1>4. ASSUME Count(s) >= ToSize PROVE at[s] \notin Before \ {"size"}
  BY <1>1, <1>3, <1>4, DueOfSizes
<1>5. ASSUME Count(s) > ToSize PROVE at[s] \notin Before
  BY <1>1, <1>3, <1>5, DueOfSizes
<1>6. ASSUME Count(s) > ToSize + Sizing PROVE at[s] \notin Before \cup {"reduce_size", "check_size"}
  <2>1. Count(s) > ToSize
    BY <1>1, <1>3, <1>6
  <2>2. at[s] \notin {"reduce_size", "check_size"}
    BY <1>1, <1>3, <1>6, DueOfSizes
  <2> QED
    BY <1>5, <2>1, <2>2
<1> QED
  BY <1>2, <1>4, <1>5, <1>6 DEF Sizes, After

\* When a rank asks for the size of its file, all have written all of their parts.
LEMMA FilesAreFull ==
    ASSUME AllInv, SizeInv, Sized, NEW r \in Ranks, At(r, "size")
    PROVE  FileSize(FileOf(r)) = Full
<1>1. Inv /\ FileInv /\ FilesType /\ at[r] = "size" /\ Active /\ BoundInv
  BY DEF AllInv, FileInv, At, SizeInv, Sized
<1>2. ~Removed
  BY <1>1, NothingRemoved DEF Ended, DfsPlaces
<1>3. \A s \in Ranks : Count(s) >= ToSize
  <2>1. Due["size"] = ToSize /\ "size" \in BarrierPlaces /\ ToSize > 0
    BY DueAt, SizeType DEF BarrierPlaces
  <2> QED
    BY <1>1, <2>1, BarrierKnows
<1>4. ASSUME NEW s \in Ranks PROVE Holds(s, Length) /\ Cleaned(s)
  <2>1. at[s] \in {"size"} \cup Sizes \cup After
    BY <1>1, <1>3, CountOfSizes
  <2>2. Amount(s) = Length /\ Cleaned(s)
    BY <2>1 DEF Amount, Cleaned, Early, Start, Sizes, After, Last, Ended, DfsPlaces
  <2>3. PartInv(s)
    BY DEF AllInv, DataInv
  <2> QED
    BY <1>1, <1>2, <2>2, <2>3 DEF PartInv
<1>5. PICK s \in Ranks : FileOf(s) = FileOf(r) /\ offset(s) + Length = Full
  <2>1. CASE job.filePerProc
    <3>1. offset(r) = 0 /\ Full = Length /\ Length \in Nat
      BY <2>1, UnitType DEF offset, Full
    <3> QED
      BY <3>1
  <2>2. CASE ~job.filePerProc
    BY <2>2, FullType DEF FileOf, Shared
  <2> QED
    BY <2>1, <2>2
<1> DEFINE f == FileOf(r)
<1>6. f \in DOMAIN files /\ Full - 1 \in DOMAIN files[f]
  <2>1. Length - 1 \in 0..(Length - 1) /\ offset(s) \in Nat /\ Length \in Nat
    BY UnitType
  <2>2. offset(s) + (Length - 1) = Full - 1
    BY <1>5, <2>1
  <2>3. FileOf(s) \in DOMAIN files /\ offset(s) + (Length - 1) \in DOMAIN files[FileOf(s)]
    BY <1>4, <2>1 DEF Holds
  <2> QED
    BY <1>5, <2>2, <2>3
<1>7. DOMAIN files[f] = 0..(FileSize(f) - 1) /\ FileSize(f) \in Nat
  BY <1>1, <1>6, SizeIs
<1>8. \A u \in DOMAIN files[f] : u < Full
  <2>1. Cleaned(f)
    BY <1>4, FileOfRank
  <2> QED
    BY <1>1, <1>6, <2>1 DEF BoundInv
<1>9. Full \in Nat \ {0}
  BY FullType
<1> HIDE DEF f
<1>10. FileSize(f) >= Full
  BY <1>6, <1>7, <1>9
<1>11. FileSize(f) <= Full
  <2>1. FileSize(f) - 1 \in DOMAIN files[f]
    BY <1>7, <1>9, <1>10
  <2> QED
    BY <1>7, <1>8, <1>9, <2>1
<1> QED
  BY <1>7, <1>9, <1>10, <1>11 DEF f

\* What all have told each other: a size, whether it is added up or compared.
LEMMA ReducedIs ==
    ASSUME NEW r \in Ranks, \A s \in Ranks : Sent(s, r) = Full
    PROVE  Reduced(r) = expectedAggFileSize
<1>1. Full \in Nat /\ 0 \in Ranks
  BY FullType, FileOfRank
<1>2. DOMAIN Values(r) = Ranks /\ \A s \in Ranks : Values(r)[s] = Full
  BY DEF Values
<1>3. CASE job.filePerProc
  <2>1. FoldFunction(LAMBDA a, b : a + b, 0, Values(r)) = N * Full
    BY <1>1, <1>2, SumOfEquals
  <2>2. Total(r) = N * Full
    BY <2>1 DEF Total
  <2> QED
    BY <1>3, <2>2 DEF Reduced, Full, expectedAggFileSize
<1>4. CASE ~job.filePerProc
  <2>1. Range(Values(r)) = {Full}
    BY <1>1, <1>2 DEF Range
  <2>2. Full <= Full
    BY <1>1
  <2>3. Min({Full}) = Full
    BY <2>2 DEF Min
  <2> QED
    BY <1>4, <2>1, <2>3, FullType DEF Reduced, Shared
<1> QED
  BY <1>3, <1>4

\* A file that a step makes or changes in creating is not too long.
LEMMA CreateBounds ==
    ASSUME AllInv, Sized, BoundInv, NEW r \in Ranks, create(r) \/ LateCreate(r)
    PROVE  \A f \in DOMAIN files' :
              \/ f \in DOMAIN files /\ files'[f] = files[f]
              \/ \A u \in DOMAIN files'[f] : u < Full
<1> DEFINE Fits(c) == \A u \in DOMAIN c : u < Full
           g == FileOf(r)
<1>1. g \in Ranks /\ 0 \in Ranks /\ (job.filePerProc => g = r) /\ (~job.filePerProc => g = 0)
  BY FileOfRank DEF FileOf
<1>2. Fits(EmptyFile)
  BY EmptyOrOld
<1>3. ASSUME NEW f, NEW c, files' = With(f, c), Fits(c)
      PROVE  \A h \in DOMAIN files' : (h \in DOMAIN files /\ files'[h] = files[h]) \/ Fits(files'[h])
  BY <1>3 DEF With
<1>4. CASE UNCHANGED files
  BY <1>4
<1>5. CASE \E f : files' = Made(f) \/ files' = Truncated(f)
  <2>1. PICK f : files' = Made(f) \/ files' = Truncated(f)
    BY <1>5
  <2>2. UNCHANGED files \/ files' = With(f, EmptyFile)
    BY <2>1 DEF Made, Truncated
  <2> HIDE DEF Fits
  <2>3. \A h \in DOMAIN files' : (h \in DOMAIN files /\ files'[h] = files[h]) \/ Fits(files'[h])
    BY <1>2, <1>3, <2>2
  <2> QED
    BY <2>3 DEF Fits
<1>6. CASE job.api = "MMAP"
  <2>1. ~job.filePerProc /\ Full \in Nat /\ Full = expectedAggFileSize
    BY <1>6, FullType DEF Sized, AddUp, Shared
  <2> DEFINE c == [u \in 0..(expectedAggFileSize - 1) |->
                    IF Exists(g) /\ u \in DOMAIN files[g] THEN files[g][u] ELSE Hole]
  <2>2. UNCHANGED files \/ files' = With(g, c)
    BY <1>6 DEF create, LateCreate, MMAP_Create, CannotCreate, Created
  <2>3. Fits(c)
    BY <2>1
  <2> HIDE DEF Fits, c
  <2>4. \A h \in DOMAIN files' : (h \in DOMAIN files /\ files'[h] = files[h]) \/ Fits(files'[h])
    BY <1>3, <2>2, <2>3
  <2> QED
    BY <2>4 DEF Fits
<1>7. CASE job.api = "PMDK"
  <2> DEFINE c == [u \in 0..(Length - 1) |-> Hole]
  <2>1. UNCHANGED files \/ files' = With(r, c)
    BY <1>7 DEF create, LateCreate, PMDK_Create, CannotCreate, Created
  <2>2. Fits(c)
    BY FullType, UnitType
  <2> HIDE DEF Fits, c
  <2>3. \A h \in DOMAIN files' : (h \in DOMAIN files /\ files'[h] = files[h]) \/ Fits(files'[h])
    BY <1>3, <2>1, <2>2
  <2> QED
    BY <2>3 DEF Fits
<1>8. CASE job.api \notin {"MMAP", "PMDK"}
  <2>1. UNCHANGED files \/ \E f : files' = Made(f) \/ files' = Truncated(f)
    BY <1>8 DEF create, LateCreate, POSIX_Create, MPIIO_Open, HDFS_Create_Or_Open, IME_Open, CEPHFS_Open,
       S3_Create, Gfarm_create, CHFS_create, FINCHFS_create, RADOS_Create_Or_Open, DFS_Create,
       DUMMY_Create, Created, CreatedFirst, CreateLater, CannotCreate
  <2> QED
    BY <1>4, <1>5, <2>1
<1> QED
  BY <1>6, <1>7, <1>8

\* Nobody makes a file too long.
LEMMA LengthKeeps ==
    ASSUME AllInv, DataIsSafe, Sized, BoundInv, NEW r \in Ranks, RankNext(r)
    PROVE  BoundInv'
<1>1. /\ Inv /\ FileInv /\ FilesType /\ UNCHANGED job /\ at \in [Ranks -> Places] /\ MovedType
      /\ DOMAIN files \subseteq Ranks /\ ~Dry /\ Active
  BY JobStays DEF AllInv, FileInv, FilesType, Inv, TypeInv, Sized, Active
<1>2. Full' = Full /\ (Shared' <=> Shared)
  BY <1>1 DEF Full, expectedAggFileSize, Shared
<1>3. ASSUME NEW f \in Ranks, Cleaned(f)', ~Cleaned(f)
      PROVE  RemoveOld(r) /\ r = f /\ ~Shared
  <2>1. ~Shared /\ at'[f] \notin {"initialize", "remove_old"} /\ at[f] \in {"initialize", "remove_old"}
    BY <1>2, <1>3 DEF Cleaned
  <2>2. At(f, "remove_old") /\ at'[f] = "create"
    BY <1>1, <2>1, MovesTo, StretchMeans DEF Stretches, Middle, Ended, DfsPlaces, At
  <2>3. r = f
    <3>1. UNCHANGED at \/ \E to : Go(r, to)
      BY PlaceSteps
    <3>2. r # f => at'[f] = at[f]
      BY <1>1, <3>1 DEF Go
    <3> QED
      BY <2>1, <2>2, <3>2
  <2>4. at[r] = "remove_old" /\ at'[r] = "create"
    BY <2>2, <2>3 DEF At
  <2>5. OtherStep(r) => at'[r] # "create"
    BY <1>1, <2>4 DEF OtherStep, Go, Stretches, Middle, Ended, DfsPlaces
  <2>6. RemoveOld(r)
    BY <2>4, <2>5, StepKinds DEF create, LateCreate, write, open, read, Delete, At
  <2> QED
    BY <2>1, <2>3, <2>6
<1>4. ASSUME \A f \in DOMAIN files' : \/ f \in DOMAIN files /\ files'[f] = files[f]
                                      \/ \A u \in DOMAIN files'[f] : u < Full
      PROVE  BoundInv'
  <2> SUFFICES ASSUME NEW f \in DOMAIN files', Cleaned(f)', NEW u \in DOMAIN files'[f]
               PROVE  u < Full
    BY <1>2 DEF BoundInv
  <2>1. CASE f \in DOMAIN files /\ files'[f] = files[f] /\ Cleaned(f)
    BY <2>1 DEF BoundInv
  <2>2. CASE f \in DOMAIN files /\ files'[f] = files[f] /\ ~Cleaned(f)
    <3>1. RemoveOld(r) /\ r = f /\ ~Shared
      BY <1>1, <1>3, <2>2
    <3>2. files' = Without(f)
      BY <1>1, <3>1 DEF RemoveOld, Shared, FileOf
    <3>3. f \notin DOMAIN files'
      BY <1>1, <3>2, WithoutIs
    <3> QED
      BY <3>3
  <2> QED
    BY <1>4, <2>1, <2>2
<1>5. CASE create(r) \/ LateCreate(r)
  BY <1>1, <1>4, <1>5, CreateBounds
<1>6. CASE UNCHANGED files \/ \E f : files' = Without(f)
  <2>1. \A f \in DOMAIN files' : f \in DOMAIN files /\ files'[f] = files[f]
    BY <1>1, <1>6, WithoutIs
  <2> QED
    BY <1>4, <2>1
<1>7. CASE write(r)
  <2> DEFINE next == IF job.fsyncPerWrite THEN "sync" ELSE "close"
             g == FileOf(r)
             m == moved[r]
  <2>1. At(r, "write") /\ Move(r, "write", next)
    BY <1>1, <1>7 DEF write
  <2> HIDE DEF next
  <2>2. PICK n \in Int : n <= Length - m /\ files' = Stored(g, offset(r) + m, n, r, m)
    BY <1>1, <2>1, MoveIs
  <2>3. /\ m \in Nat /\ Length \in Nat /\ offset(r) \in Nat /\ offset(r) + m \in Nat /\ g \in Ranks
        /\ offset(r) + Length <= Full /\ Full \in Nat
    BY <1>1, UnitType, FileOfRank, FullType DEF MovedType
  <2> DEFINE first == offset(r) + m
  <2>4. /\ DOMAIN files' = DOMAIN files /\ \A h \in DOMAIN files \ {g} : files'[h] = files[h]
        /\ g \in DOMAIN files =>
             \A u \in DOMAIN files'[g] : \E y \in DOMAIN files[g] \cup (first..(first + n - 1)) : u <= y
    BY <1>1, <2>2, <2>3, StoredIs
  <2>5. FilesType' /\ (g \in DOMAIN files' => files'[g] \in Contents)
    BY <1>1, StepKeepsData DEF FilesType
  <2>6. Cleaned(g)
    BY <2>1 DEF Cleaned, At, FileOf, Shared
  <2>7. ASSUME g \in DOMAIN files, NEW u \in DOMAIN files'[g] PROVE u < Full
    <3>1. PICK y \in DOMAIN files[g] \cup (first..(first + n - 1)) : u <= y
      BY <2>4, <2>7
    <3>2. u \in Int
      <4>1. PICK k \in Nat : files'[g] \in [0..(k - 1) -> Int]
        BY <2>4, <2>5, <2>7 DEF Contents
      <4> QED
        BY <2>7, <4>1
    <3>3. CASE y \in DOMAIN files[g]
      <4>1. y < Full
        BY <2>6, <2>7, <3>3 DEF BoundInv
      <4>2. y \in Int
        <5>1. DOMAIN files[g] = 0..(FileSize(g) - 1)
          BY <1>1, <2>7, SizeIs
        <5> QED
          BY <3>3, <5>1
      <4> HIDE DEF g
      <4> QED
        BY <2>3, <3>1, <3>2, <4>1, <4>2
    <3>4. CASE y \in first..(first + n - 1)
      <4> HIDE DEF g, m
      <4>1. y < Full /\ y \in Int
        BY <2>2, <2>3, <3>4
      <4> QED
        BY <2>3, <3>1, <3>2, <4>1
    <3> QED
      BY <3>1, <3>3, <3>4
  <2> HIDE DEF g, m
  <2> QED
    BY <1>4, <2>4, <2>7
<1> QED
  BY <1>5, <1>6, <1>7, StepKinds DEF OtherStep, open, RemoveOld, Delete, read, Move

\* The steps that tell no sizes: on the way to the size, and after it.
Onward(r) ==
    /\ UNCHANGED <<size, calls>>
    /\ \/ UNCHANGED <<at, ahead>>
       \/ /\ \E ops : ahead' = [ahead EXCEPT ![r] = ops]
          /\ \/ at[r] \in Before \ {"size"} /\ \E to \in Before : Go(r, to)
             \/ at[r] \in {"open", "read", "close_read"}
                   /\ \E to \in {"read", "close_read", "remove"} : Go(r, to)
             \/ at[r] \in Last /\ \E to \in Ended : Go(r, to)

LEMMA SizeKinds ==
    ASSUME NEW r \in Ranks, RankNext(r)
    PROVE  \/ Onward(r) \/ Collective(r)
           \/ GetFileSize(r) \/ CEPHFS_ReduceSize(r) \/ CheckFileSize(r) \/ AggregateSize(r)
<1>1. ASSUME UNCHANGED size, Stays PROVE Onward(r)
  BY <1>1 DEF Onward, Stays
<1>2. ASSUME UNCHANGED size, NEW ops, NEW to, GoAfter(r, ops, to),
             \/ at[r] \in Before \ {"size"} /\ to \in Before
             \/ at[r] \in {"open", "read", "close_read"} /\ to \in {"read", "close_read", "remove"}
             \/ at[r] \in Last /\ to \in Ended
      PROVE  Onward(r)
  BY <1>2 DEF Onward, GoAfter
<1>3. CASE initialize(r) \/ RemoveOld(r)
  <2>1. /\ UNCHANGED size /\ at[r] \in {"initialize", "remove_old"}
        /\ \E ops : GoAfter(r, ops, "remove_old") \/ GoAfter(r, ops, "create")
    BY <1>3 DEF initialize, DFS_Init, RemoveOld, At
  <2> QED
    BY <1>2, <2>1 DEF Before
<1>4. CASE create(r) \/ LateCreate(r)
  <2>1. UNCHANGED size /\ at[r] \in {"create", "late_create"}
    BY <1>4 DEF create, LateCreate, At
  <2>2. Stays \/ \E ops : GoAfter(r, ops, "write") \/ GoAfter(r, ops, "late_create")
    BY <1>4 DEF create, LateCreate, POSIX_Create, MMAP_Create, MPIIO_Open, HDFS_Create_Or_Open, IME_Open,
       CEPHFS_Open, S3_Create, Gfarm_create, CHFS_create, FINCHFS_create, RADOS_Create_Or_Open, DFS_Create,
       PMDK_Create, DUMMY_Create, Created, CreatedFirst, CreateLater, CannotCreate, ERR, Stays
  <2> QED
    BY <1>1, <1>2, <2>1, <2>2 DEF Before
<1>5. CASE write(r)
  <2> DEFINE next == IF job.fsyncPerWrite THEN "sync" ELSE "close"
  <2>1. UNCHANGED size /\ at[r] = "write" /\ (Stays \/ \E ops : GoAfter(r, ops, next))
    BY <1>5, MoveGoesOn DEF write, At
  <2> QED
    BY <1>1, <1>2, <2>1 DEF Before
<1>6. CASE fsync(r) \/ close(r)
  <2>1. /\ UNCHANGED size /\ at[r] \in {"sync", "close"}
        /\ \E ops : GoAfter(r, ops, "close") \/ GoAfter(r, ops, "size")
    BY <1>6 DEF fsync, close, At
  <2> QED
    BY <1>2, <2>1 DEF Before
<1>7. CASE open(r)
  <2>1. UNCHANGED size /\ at[r] = "open" /\ (Stays \/ \E ops : GoAfter(r, ops, "read"))
    BY <1>7 DEF open, At, ERR, Stays
  <2> QED
    BY <1>1, <1>2, <2>1
<1>8. CASE read(r)
  <2>1. UNCHANGED size /\ at[r] = "read" /\ (Stays \/ \E ops : GoAfter(r, ops, "close_read"))
    BY <1>8, MoveGoesOn DEF read, At
  <2> QED
    BY <1>1, <1>2, <2>1
<1>9. CASE CloseRead(r)
  <2>1. UNCHANGED size /\ at[r] = "close_read" /\ \E ops : GoAfter(r, ops, "remove")
    BY <1>9 DEF CloseRead, At
  <2> QED
    BY <1>2, <2>1
<1>10. CASE Delete(r)
  <2>1. UNCHANGED size /\ at[r] = "remove" /\ \E ops : GoAfter(r, ops, "finalize") \/ GoAfter(r, ops, "done")
    BY <1>10 DEF Delete, At
  <2> QED
    BY <1>2, <2>1 DEF Last, Ended, DfsPlaces
<1>11. CASE finalize(r) \/ cont_close(r) \/ cont_destroy(r) \/ pool_disconnect(r)
  <2>1. /\ UNCHANGED size /\ at[r] \in DfsPlaces
        /\ \E ops : \E to \in Ended : GoAfter(r, ops, to)
    <3>1. /\ UNCHANGED size /\ at[r] \in DfsPlaces
          /\ \E ops : \/ GoAfter(r, ops, "cont_close") \/ GoAfter(r, ops, "destroy")
                      \/ GoAfter(r, ops, "disconnect") \/ GoAfter(r, ops, "done")
      BY <1>11 DEF finalize, DFS_Finalize, cont_close, cont_destroy, pool_disconnect, At, DfsPlaces
    <3> QED
      BY <3>1 DEF Ended, DfsPlaces
  <2> QED
    BY <1>2, <2>1 DEF Last, Ended
<1> QED
  BY <1>3, <1>4, <1>5, <1>6, <1>7, <1>8, <1>9, <1>10, <1>11 DEF RankNext

\* The others stay where they are, know what they knew and call nothing.
LEMMA RestStays ==
    ASSUME Inv, size = [s \in Ranks |-> size[s]], NEW r \in Ranks, RankNext(r)
    PROVE  /\ size' = [s \in Ranks |-> size'[s]]
           /\ \A s \in Ranks \ {r} : /\ at'[s] = at[s] /\ ahead'[s] = ahead[s] /\ calls'[s] = calls[s]
                                     /\ size'[s] = size[s]
<1>1. /\ at \in [Ranks -> Places] /\ ahead \in [Ranks -> Seq(Collectives)] /\ at[r] \in Reachable
      /\ Answers /\ DOMAIN calls = Ranks
  BY DEF Inv, TypeInv, CallInv, CallsIn
<1>2. UNCHANGED at \/ \E to : Go(r, to)
  BY PlaceSteps
<1>3. \A s \in Ranks \ {r} : at'[s] = at[s]
  BY <1>1, <1>2 DEF Go
<1>4. /\ UNCHANGED ahead \/ \E ops : ahead' = [ahead EXCEPT ![r] = ops]
      /\ UNCHANGED calls \/ \E op, value : Send(r, op, value)
  <2>1. CASE Collective(r)
    <3>1. ahead' = [ahead EXCEPT ![r] = Tail(ahead[r])] /\ Send(r, Head(ahead[r]), 0)
      BY <2>1 DEF Collective, Call
    <3> QED
      BY <3>1
  <2>2. CASE Stays
    BY <2>2 DEF Stays
  <2>3. CASE Walks(r)
    BY <2>3 DEF Walks, GoAfter
  <2>4. CASE Sends(r)
    BY <2>4 DEF Sends
  <2> QED
    BY <1>1, <2>1, <2>2, <2>3, <2>4, Steps
<1>5. \A s \in Ranks \ {r} : ahead'[s] = ahead[s] /\ calls'[s] = calls[s]
  BY <1>1, <1>4 DEF Send
<1>6. UNCHANGED size \/ \E x : size' = [size EXCEPT ![r] = x]
  BY SizeKinds DEF Onward, Collective, GetFileSize, MPIIO_GetFileSize, DFS_GetFileSize, CEPHFS_GetFileSize,
     S3_GetFileSize, DUMMY_GetFileSize, StatSize, CEPHFS_ReduceSize, CheckFileSize, AggregateSize
<1>7. size' = [s \in Ranks |-> size'[s]] /\ \A s \in Ranks \ {r} : size'[s] = size[s]
  BY <1>6
<1> QED
  BY <1>3, <1>5, <1>7

\* The numbers of calls are those of the job.
LEMMA SameCounts ==
    ASSUME UNCHANGED job
    PROVE  /\ ToSize' = ToSize /\ Sizing' = Sizing /\ Full' = Full /\ expectedAggFileSize' = expectedAggFileSize
           /\ (AsksRank0' <=> AsksRank0) /\ (Sized' <=> Sized)
           /\ \A place : Least(place)' = Least(place)
<1>1. (Dry' <=> Dry) /\ (Shared' <=> Shared)
  BY DEF Dry, Shared
<1>2. Opening' = Opening /\ Together' = Together /\ Sizing' = Sizing
  BY <1>1 DEF Opening, Together, Optional, Sizing
<1>3. TransferTogether' = TransferTogether /\ AfterCreate' = AfterCreate /\ AfterTransfer' = AfterTransfer
  BY <1>2 DEF TransferTogether, AfterCreate, AfterTransfer
<1>4. ToCreate' = ToCreate /\ ToWrite' = ToWrite
  BY <1>2, <1>3 DEF ToCreate, ToWrite
<1>5. ToClose' = ToClose /\ ToSize' = ToSize
  BY <1>2, <1>3, <1>4 DEF ToClose, ToSize
<1>6. Sized' <=> Sized
  BY SameJob DEF Sized, AddUp
<1>7. Full' = Full /\ expectedAggFileSize' = expectedAggFileSize
  BY DEF Full, expectedAggFileSize
<1> QED
  BY <1>1, <1>2, <1>5, <1>6, <1>7 DEF Least, Optional, AsksRank0

\* A rank that calls has called what it had, and that.
LEMMA CallsOnce ==
    ASSUME Inv, NEW r \in Ranks, NEW op \in Collectives, NEW value, Send(r, op, value)
    PROVE  /\ Count(r) \in Nat /\ Count(r)' = Count(r) + 1
           /\ calls'[r][Count(r) + 1] = [op |-> op, value |-> value]
           /\ \A k \in 1..Count(r) : calls'[r][k] = calls[r][k]
<1> DEFINE c == [op |-> op, value |-> value]
<1>1. PICK V : calls \in CallsIn(V)
  BY DEF Inv, TypeInv
<1>2. calls[r] \in Seq([op : Collectives, value : V]) /\ DOMAIN calls = Ranks
  BY <1>1 DEF CallsIn
<1>3. calls'[r] = Append(calls[r], c)
  BY <1>2 DEF Send
<1> HIDE DEF c
<1>4. \A s \in Seq([op : Collectives, value : V]) :
         /\ Len(s) \in Nat /\ Len(Append(s, c)) = Len(s) + 1 /\ Append(s, c)[Len(s) + 1] = c
         /\ \A k \in 1..Len(s) : Append(s, c)[k] = s[k]
  OBVIOUS
<1> QED
  BY <1>2, <1>3, <1>4 DEF Count, c

\* A call that is none of those with a size.
LEMMA OtherCall ==
    ASSUME Inv, UNCHANGED job, NEW r \in Ranks, NEW op \in Collectives, NEW value, Send(r, op, value), Tells(r), Sized,
           Count(r) # ToSize + Sizing, job.api = "CEPHFS" => Count(r) # ToSize,
           AsksRank0 /\ Count(r) = ToSize => op = "Bcast",
           at'[r] = "check_size" /\ AsksRank0 => ahead'[r] = << >>
    PROVE  Tells(r)'
<1>1. /\ Count(r) \in Nat /\ Count(r)' = Count(r) + 1
      /\ calls'[r][Count(r) + 1] = [op |-> op, value |-> value]
      /\ \A k \in 1..Count(r) : calls'[r][k] = calls[r][k]
  BY CallsOnce
<1>2. /\ ToSize' = ToSize /\ Sizing' = Sizing /\ Full' = Full /\ (AsksRank0' <=> AsksRank0)
      /\ job'.api = job.api
  BY SameCounts
<1>3. ToSize \in Nat /\ Sizing \in Nat
  BY DueOfSizes
<1>4. ASSUME Count(r)' > ToSize + Sizing PROVE FullIn(calls'[r][ToSize + Sizing + 1])
  <2>1. Count(r) > ToSize + Sizing /\ ToSize + Sizing + 1 \in 1..Count(r)
    BY <1>1, <1>3, <1>4
  <2> QED
    BY <1>1, <2>1 DEF Tells
<1>5. ASSUME Count(r)' > ToSize, job.api = "CEPHFS" PROVE FullIn(calls'[r][ToSize + 1])
  <2>1. Count(r) > ToSize /\ ToSize + 1 \in 1..Count(r)
    BY <1>1, <1>3, <1>5
  <2> QED
    BY <1>1, <1>5, <2>1 DEF Tells
<1>6. ASSUME Count(r)' > ToSize, AsksRank0 PROVE calls'[r][ToSize + 1].op = "Bcast"
  <2>1. CASE Count(r) = ToSize
    BY <1>1, <1>6, <2>1
  <2>2. CASE Count(r) # ToSize
    <3>1. Count(r) > ToSize /\ ToSize + 1 \in 1..Count(r)
      BY <1>1, <1>3, <1>6, <2>2
    <3> QED
      BY <1>1, <1>6, <3>1 DEF Tells
  <2> QED
    BY <2>1, <2>2
<1> QED
  BY <1>2, <1>4, <1>5, <1>6 DEF Tells, FullIn

\* The first of the calls ahead.
LEMMA CollectiveTells ==
    ASSUME AllInv, SizeInv, Sized, NEW r \in Ranks, Collective(r)
    PROVE  SizeOf(r)'
<1>1. /\ Inv /\ SizeOf(r) /\ UNCHANGED <<job, at, size>> /\ ahead[r] \in Seq(Collectives) /\ ahead[r] # << >>
      /\ DOMAIN ahead = Ranks /\ Call(r, Head(ahead[r])) /\ ahead' = [ahead EXCEPT ![r] = Tail(ahead[r])]
  BY DEF AllInv, SizeInv, Inv, TypeInv, Collective
<1>2. /\ Head(ahead[r]) \in Collectives /\ Len(ahead[r]) \in Nat \ {0}
      /\ Tail(ahead[r]) = << >> <=> Len(ahead[r]) = 1
  BY <1>1, FirstAndRest
<1> DEFINE op == Head(ahead[r])
<1>3. Send(r, op, 0)
  BY <1>1 DEF Call
<1>4. Count(r) \in Nat /\ Count(r)' = Count(r) + 1 /\ Count(r) + Len(ahead[r]) = Due[at[r]] /\ at[r] \in Reachable
  BY <1>1, <1>2, <1>3, CallsOnce DEF Inv, CallInv
<1>5. /\ ToSize' = ToSize /\ Sizing' = Sizing /\ Full' = Full /\ expectedAggFileSize' = expectedAggFileSize
      /\ (AsksRank0' <=> AsksRank0) /\ \A place : Least(place)' = Least(place)
  BY <1>1, SameCounts
<1>6. ToSize \in Nat /\ Sizing \in Nat /\ (job.api = "CEPHFS" => Sizing >= 1) /\ (AsksRank0 => Sizing = 1)
  BY DueOfSizes DEF Sized
<1>7. Count(r)' >= Least(at[r])'
  <2>1. Least(at[r]) \in Nat
    BY <1>6 DEF Least, Optional
  <2> QED
    BY <1>1, <1>4, <1>5, <2>1 DEF SizeOf
<1>8. Told(r)'
  BY <1>1, <1>5 DEF Told, SizeOf
<1>9. Count(r) < Due[at[r]] /\ Due[at[r]] \in Int
  BY <1>2, <1>4
<1>10. CASE at[r] \in Before
  <2>1. Count(r) < ToSize
    BY <1>4, <1>6, <1>9, <1>10, DueOfSizes
  <2>2. at[r] # "check_size"
    BY <1>10 DEF Before
  <2>3. Tells(r)'
    BY <1>1, <1>2, <1>3, <1>4, <1>6, <2>1, <2>2, OtherCall DEF SizeOf
  <2> QED
    BY <1>1, <1>7, <1>8, <2>3 DEF SizeOf
<1>11. CASE at[r] \in {"reduce_size", "check_size"}
  <2>1. Count(r) < ToSize + Sizing
    BY <1>4, <1>6, <1>9, <1>11, DueOfSizes
  <2>2. job.api = "CEPHFS" => Count(r) >= ToSize + 1
    BY <1>1, <1>11 DEF SizeOf, Least, Optional, Sizes, After, Last, Ended, DfsPlaces
  <2>3. ASSUME AsksRank0, Count(r) = ToSize PROVE op = "Bcast"
    <3>1. at[r] = "check_size"
      BY <1>4, <1>11, <2>3 DEF Reachable, AsksRank0
    <3> QED
      BY <1>1, <2>3, <3>1 DEF SizeOf, Tells
  <2>4. ASSUME at[r] = "check_size", AsksRank0 PROVE ahead'[r] = << >>
    <3>1. Due[at[r]] = ToSize + 1 /\ Count(r) >= ToSize
      <4>1. Due[at[r]] = ToSize + 1
        BY <1>6, <2>4, DueAt
      <4>2. Count(r) >= ToSize
        BY <1>1, <1>4, <1>6, <2>4 DEF SizeOf, Least, Optional, Sizes, After, Last, Ended, DfsPlaces
      <4> QED
        BY <4>1, <4>2
    <3>2. Len(ahead[r]) = 1
      BY <1>2, <1>4, <1>6, <3>1
    <3> QED
      BY <1>1, <1>2, <3>2
  <2>5. Tells(r)'
    BY <1>1, <1>2, <1>3, <1>4, <1>6, <2>1, <2>2, <2>3, <2>4, OtherCall DEF SizeOf
  <2> QED
    BY <1>1, <1>7, <1>8, <2>5 DEF SizeOf
<1>12. CASE at[r] \in After
  <2>1. Count(r) >= ToSize + Sizing + 1 /\ at[r] # "check_size"
    BY <1>1, <1>12 DEF SizeOf, Least, After, Last, Ended, DfsPlaces
  <2>2. Tells(r)'
    BY <1>1, <1>2, <1>3, <1>4, <1>6, <2>1, OtherCall DEF SizeOf
  <2> QED
    BY <1>1, <1>7, <1>8, <2>2 DEF SizeOf
<1> QED
  BY <1>1, <1>10, <1>11, <1>12, CountOfSizes DEF Sizes, After

\* Who calls nothing has told nothing more.
LEMMA GoTells ==
    ASSUME UNCHANGED <<job, calls>>, NEW r \in Ranks, Tells(r),
           at'[r] = "check_size" /\ AsksRank0 /\ ahead'[r] # << >> => Head(ahead'[r]) = "Bcast"
    PROVE  Tells(r)' /\ Count(r)' = Count(r)
<1>1. /\ ToSize' = ToSize /\ Sizing' = Sizing /\ Full' = Full /\ (AsksRank0' <=> AsksRank0)
  BY SameCounts
<1>2. Count(r)' = Count(r)
  BY DEF Count
<1> QED
  BY <1>1, <1>2 DEF Tells, FullIn

\* On the way to the size, and after it.
LEMMA OnwardTells ==
    ASSUME AllInv, SizeInv, Sized, NEW r \in Ranks, UNCHANGED job, Onward(r)
    PROVE  SizeOf(r)'
<1>1. /\ Inv /\ SizeOf(r) /\ UNCHANGED <<size, calls>> /\ at \in [Ranks -> Places]
      /\ \A place : Least(place)' = Least(place) /\ expectedAggFileSize' = expectedAggFileSize /\ Full' = Full
  BY SameCounts DEF AllInv, SizeInv, Inv, TypeInv, Onward
<1>2. Count(r) \in Nat
  BY <1>1, CountMeans
<1>3. CASE UNCHANGED <<at, ahead>>
  <2>1. Tells(r)' /\ Count(r)' = Count(r)
    BY <1>1, <1>3, GoTells DEF SizeOf, Tells
  <2> QED
    BY <1>1, <1>3, <2>1 DEF SizeOf, Told
<1>4. CASE at[r] \in Before \ {"size"} /\ \E to \in Before : Go(r, to)
  <2>1. at'[r] \in Before
    BY <1>1, <1>4 DEF Go
  <2>2. at'[r] \notin Sizes \cup After \cup {"open", "read", "close_read", "remove"}
    BY <2>1 DEF Before, Sizes, After, Last, Ended, DfsPlaces
  <2>3. Tells(r)' /\ Count(r)' = Count(r)
    BY <1>1, <2>2, GoTells DEF SizeOf, Sizes
  <2>4. Least(at'[r]) = 0
    BY <2>2 DEF Least
  <2>5. Told(r)'
    BY <1>1, <2>2 DEF Told
  <2> QED
    BY <1>1, <1>2, <2>3, <2>4, <2>5 DEF SizeOf
<1>5. CASE at[r] \in {"open", "read", "close_read"} /\ \E to \in {"read", "close_read", "remove"} : Go(r, to)
  <2>1. at'[r] \in {"read", "close_read", "remove"}
    BY <1>1, <1>5 DEF Go
  <2>2. Tells(r)' /\ Count(r)' = Count(r)
    BY <1>1, <2>1, GoTells DEF SizeOf
  <2>3. Least(at'[r]) = Least(at[r])
    BY <1>5, <2>1 DEF Least, After, Last
  <2>4. Told(r)'
    BY <1>1, <1>5, <2>1 DEF Told, SizeOf, Sizes
  <2> QED
    BY <1>1, <2>2, <2>3, <2>4 DEF SizeOf
<1>6. CASE at[r] \in Last /\ \E to \in Ended : Go(r, to)
  <2>1. at'[r] \in Ended
    BY <1>1, <1>6 DEF Go
  <2>2. at'[r] \notin Sizes \cup {"open", "read", "close_read", "remove"}
    BY <2>1 DEF Sizes, Ended, DfsPlaces
  <2>3. Tells(r)' /\ Count(r)' = Count(r)
    BY <1>1, <2>2, GoTells DEF SizeOf, Sizes
  <2>4. Least(at'[r]) = Least(at[r])
    BY <1>6, <2>1 DEF Least, After, Last
  <2>5. Told(r)'
    BY <1>1, <2>2 DEF Told
  <2> QED
    BY <1>1, <2>3, <2>4, <2>5 DEF SizeOf
<1> QED
  BY <1>3, <1>4, <1>5, <1>6 DEF Onward

\* A rank is told the size of its file.
LEMMA AskTells ==
    ASSUME AllInv, SizeInv, Sized, NEW r \in Ranks, GetFileSize(r)
    PROVE  SizeOf(r)'
<1>1. /\ Inv /\ SizeOf(r) /\ UNCHANGED job /\ At(r, "size") /\ at \in [Ranks -> Places] /\ DOMAIN size = Ranks
      /\ DOMAIN ahead = Ranks /\ ~Dry /\ ~LookupFails(r) /\ job.api \notin {"DUMMY", "S3"}
  BY DEF AllInv, SizeInv, Inv, TypeInv, GetFileSize, Sized, Active, LookupFails
<1>2. FileSize(FileOf(r)) = Full
  BY <1>1, FilesAreFull
<1>3. /\ Full' = Full /\ expectedAggFileSize' = expectedAggFileSize /\ (AsksRank0' <=> AsksRank0)
      /\ ToSize' = ToSize /\ Sizing' = Sizing
      /\ \A place : Least(place)' = Least(place)
  BY <1>1, SameCounts
<1>4. Count(r) = ToSize /\ ToSize \in Nat /\ Sizing \in Nat /\ (job.api = "CEPHFS" => Sizing >= 1)
  BY <1>1, AtMeans, DueAt, DueOfSizes
<1>5. size'[r] = Full
  BY <1>1, <1>2 DEF GetFileSize, MPIIO_GetFileSize, DFS_GetFileSize, CEPHFS_GetFileSize, StatSize
<1>6. CASE job.api # "CEPHFS"
  <2>1. \E ops : /\ GoAfter(r, ops, "check_size")
                 /\ AsksRank0 => ops = <<"Bcast">>
                 /\ ops \in {<< >>, <<"Bcast">>}
    BY <1>1, <1>6 DEF GetFileSize, MPIIO_GetFileSize, DFS_GetFileSize, OnTestComm, AsksRank0, Shared
  <2>2. /\ at'[r] = "check_size" /\ UNCHANGED calls
        /\ AsksRank0 => ahead'[r] = <<"Bcast">>
    BY <1>1, <2>1 DEF GoAfter, Go
  <2>3. Tells(r)' /\ Count(r)' = Count(r)
    BY <1>1, <2>2, GoTells DEF SizeOf
  <2>4. Least("check_size") = ToSize
    BY <1>4, <1>6 DEF Least, Optional, Sizes, After, Last, Ended, DfsPlaces
  <2>5. Told(r)'
    BY <1>3, <1>5, <2>2 DEF Told
  <2> QED
    BY <1>3, <1>4, <2>2, <2>3, <2>4, <2>5 DEF SizeOf
<1>7. CASE job.api = "CEPHFS"
  <2>1. Send(r, "Allreduce", Full) /\ at'[r] = "reduce_size"
    BY <1>1, <1>2, <1>7 DEF GetFileSize, CEPHFS_GetFileSize, Go
  <2>2. /\ Count(r)' = ToSize + 1 /\ calls'[r][ToSize + 1] = [op |-> "Allreduce", value |-> Full]
    BY <1>1, <1>4, <2>1, CallsOnce, OpsType
  <2>3. FullIn(calls'[r][ToSize + 1])
    BY <2>2 DEF FullIn
  <2>4. ~AsksRank0
    BY <1>7 DEF AsksRank0
  <2>5. ~(Count(r)' > ToSize + Sizing)
    BY <1>4, <1>7, <2>2
  <2>6. Tells(r)'
    BY <1>3, <2>3, <2>4, <2>5 DEF Tells, FullIn
  <2>7. Told(r)'
    BY <1>3, <1>5, <2>1 DEF Told
  <2>8. Least("reduce_size") = ToSize + 1
    BY <1>7 DEF Least, Optional, Sizes, After, Last, Ended, DfsPlaces
  <2> QED
    BY <1>3, <1>4, <2>1, <2>2, <2>6, <2>7, <2>8 DEF SizeOf
<1> QED
  BY <1>6, <1>7

\* Who goes on from the call in which the sizes are told has got those of all.
LEMMA AllTell ==
    ASSUME AllInv, SizeInv, Sized, NEW r \in Ranks, Ready(r), Count(r) > 0, NEW k, Count(r) = k, k \in Nat,
           \A s \in Ranks : Count(s) >= k => FullIn(calls[s][k])
    PROVE  Reduced(r) = expectedAggFileSize
<1>1. Inv
  BY DEF AllInv
<1>2. calls[r][Count(r)].op = "Allreduce" /\ "Allreduce" \in Synchronizing
  BY DEF FullIn, Synchronizing
<1>3. \A s \in Ranks : Count(s) >= Count(r)
  BY <1>2, ReadyMeans
<1>4. \A s \in Ranks : Sent(s, r) = Full
  BY <1>3 DEF FullIn, Sent
<1> QED
  BY <1>4, ReducedIs

\* CEPHFS compares what CheckFileSize will compare.
LEMMA ReduceTells ==
    ASSUME AllInv, SizeInv, Sized, NEW r \in Ranks, CEPHFS_ReduceSize(r)
    PROVE  SizeOf(r)'
<1>1. /\ Inv /\ SizeOf(r) /\ UNCHANGED job /\ At(r, "reduce_size") /\ at \in [Ranks -> Places]
      /\ DOMAIN size = Ranks /\ \A s \in Ranks : SizeOf(s)
  BY DEF AllInv, SizeInv, Inv, TypeInv, CEPHFS_ReduceSize
<1>2. /\ Full' = Full /\ expectedAggFileSize' = expectedAggFileSize
      /\ \A place : Least(place)' = Least(place)
  BY <1>1, SameCounts
<1>3. /\ Count(r) = ToSize + 1 /\ ToSize \in Nat /\ job.api = "CEPHFS" /\ Ready(r)
  BY <1>1, AtMeans, DueAt, DueOfSizes DEF Reachable
<1>4. ASSUME NEW s \in Ranks, Count(s) >= ToSize + 1 PROVE FullIn(calls[s][ToSize + 1])
  <2>1. Count(s) \in Nat
    BY <1>1, CountMeans
  <2>2. Count(s) > ToSize
    BY <1>3, <1>4, <2>1
  <2> QED
    BY <1>1, <1>3, <2>2 DEF SizeOf, Tells
<1>5. Reduced(r) = expectedAggFileSize
  <2>1. Count(r) > 0 /\ ToSize + 1 \in Nat
    BY <1>3
  <2> QED
    BY <1>3, <1>4, <2>1, AllTell
<1>6. size'[r] = Full
  <2>1. expectedAggFileSize = Full
    BY <1>3, FullType DEF Sized, AddUp, Shared
  <2> QED
    BY <1>1, <1>5, <2>1 DEF CEPHFS_ReduceSize
<1>7. at'[r] = "check_size" /\ UNCHANGED calls
  BY <1>1 DEF CEPHFS_ReduceSize, GoAfter, Go
<1>8. Tells(r)' /\ Count(r)' = Count(r)
  <2>1. ~AsksRank0
    BY <1>3 DEF AsksRank0
  <2> QED
    BY <1>1, <1>7, <2>1, GoTells DEF SizeOf
<1>9. Least("check_size") = ToSize + 1
  BY <1>3 DEF Least, Optional, Sizes, After, Last, Ended, DfsPlaces
<1>10. Told(r)'
  BY <1>2, <1>6, <1>7 DEF Told
<1> QED
  BY <1>2, <1>3, <1>7, <1>8, <1>9, <1>10 DEF SizeOf

\* A rank tells the others the size it knows, or that of rank 0, which has told it.
LEMMA CheckTells ==
    ASSUME AllInv, SizeInv, Sized, NEW r \in Ranks, CheckFileSize(r)
    PROVE  SizeOf(r)'
<1>1. /\ Inv /\ SizeOf(r) /\ UNCHANGED <<job, size>> /\ At(r, "check_size") /\ at \in [Ranks -> Places]
      /\ \A s \in Ranks : SizeOf(s)
  BY DEF AllInv, SizeInv, Inv, TypeInv, CheckFileSize
<1>2. /\ Full' = Full /\ expectedAggFileSize' = expectedAggFileSize /\ (AsksRank0' <=> AsksRank0)
      /\ ToSize' = ToSize /\ Sizing' = Sizing /\ job'.api = job.api
      /\ \A place : Least(place)' = Least(place)
  BY <1>1, SameCounts
<1>3. /\ Count(r) = ToSize + Sizing /\ ToSize \in Nat /\ Sizing \in Nat /\ Ready(r) /\ at[r] = "check_size"
      /\ job.api = "CEPHFS" => Sizing >= 1
      /\ AsksRank0 => Sizing = 1
  BY <1>1, AtMeans, DueAt, DueOfSizes DEF Sized
<1>4. size[r] = Full
  BY <1>1, <1>3 DEF SizeOf, Told, Sizes
<1>5. ASSUME AsksRank0 PROVE size[0] = Full
  <2>1. Count(r) = ToSize + 1 /\ Count(r) > ToSize /\ Count(r) > 0
    BY <1>3, <1>5
  <2>2. calls[r][Count(r)].op = "Bcast"
    BY <1>1, <1>5, <2>1 DEF SizeOf, Tells
  <2>3. Count(0) >= Count(r) /\ 0 \in Ranks
    BY <1>3, <2>1, <2>2, BcastMeans, FileOfRank
  <2>4. at[0] \in Sizes \cup After
    <3>1. Count(0) \in Nat
      BY <1>1, <2>3, CountMeans
    <3>2. Count(0) > ToSize
      BY <1>3, <2>1, <2>3, <3>1
    <3> QED
      BY <1>1, <2>3, <3>2, CountOfSizes
  <2>5. at[0] \notin Ended
    <3>1. ~Removed
      BY <1>3, NothingRemoved DEF Ended, DfsPlaces
    <3> QED
      BY <2>3, <3>1 DEF Removed
  <2>6. at[0] \in Sizes \cup {"open", "read", "close_read", "remove"}
    BY <2>4, <2>5 DEF Sizes, After, Last
  <2>7. Full = expectedAggFileSize
    BY <1>5, FullType DEF AsksRank0
  <2> QED
    BY <1>1, <2>3, <2>6, <2>7 DEF SizeOf, Told
<1>6. Send(r, "Allreduce", Full) /\ at'[r] = "checked"
  <2>1. ToldByRank0 <=> AsksRank0
    BY DEF ToldByRank0, AsksRank0, Shared
  <2>2. (IF ToldByRank0 THEN size[0] ELSE size[r]) = Full
    BY <1>4, <1>5, <2>1
  <2> QED
    BY <1>1, <2>2 DEF CheckFileSize, Go
<1>7. /\ Count(r)' = ToSize + Sizing + 1
      /\ calls'[r][ToSize + Sizing + 1] = [op |-> "Allreduce", value |-> Full]
      /\ \A k \in 1..(ToSize + Sizing) : calls'[r][k] = calls[r][k]
  BY <1>1, <1>3, <1>6, CallsOnce, OpsType
<1>8. FullIn(calls'[r][ToSize + Sizing + 1])
  BY <1>7 DEF FullIn
<1>9. ASSUME job.api = "CEPHFS" \/ AsksRank0 PROVE Count(r) > ToSize /\ ToSize + 1 \in 1..(ToSize + Sizing)
  BY <1>3, <1>9
<1>10. ASSUME job.api = "CEPHFS" PROVE FullIn(calls'[r][ToSize + 1])
  BY <1>1, <1>7, <1>9, <1>10 DEF SizeOf, Tells
<1>11. ASSUME AsksRank0 PROVE calls'[r][ToSize + 1].op = "Bcast"
  BY <1>1, <1>7, <1>9, <1>11 DEF SizeOf, Tells
<1>12. Tells(r)'
  BY <1>2, <1>6, <1>8, <1>10, <1>11 DEF Tells, FullIn
<1>13. Told(r)'
  BY <1>1, <1>2, <1>4, <1>6 DEF Told
<1>14. Least("checked") = ToSize + Sizing + 1
  BY DEF Least, After
<1>15. Count(r)' >= Least(at[r])'
  BY <1>2, <1>3, <1>6, <1>7, <1>14
<1> QED
  BY <1>12, <1>13, <1>15 DEF SizeOf

\* All ranks add up, or compare, what all have told.
LEMMA AggregateTells ==
    ASSUME AllInv, SizeInv, Sized, NEW r \in Ranks, AggregateSize(r)
    PROVE  SizeOf(r)'
<1>1. /\ Inv /\ SizeOf(r) /\ UNCHANGED job /\ At(r, "checked") /\ at \in [Ranks -> Places]
      /\ DOMAIN size = Ranks /\ \A s \in Ranks : SizeOf(s)
  BY DEF AllInv, SizeInv, Inv, TypeInv, AggregateSize
<1>2. /\ Full' = Full /\ expectedAggFileSize' = expectedAggFileSize
      /\ \A place : Least(place)' = Least(place)
  BY <1>1, SameCounts
<1>3. /\ Count(r) = ToSize + Sizing + 1 /\ ToSize \in Nat /\ Sizing \in Nat /\ Ready(r)
  BY <1>1, AtMeans, DueAt, DueOfSizes
<1>4. ASSUME NEW s \in Ranks, Count(s) >= ToSize + Sizing + 1 PROVE FullIn(calls[s][ToSize + Sizing + 1])
  <2>1. Count(s) \in Nat
    BY <1>1, CountMeans
  <2>2. Count(s) > ToSize + Sizing
    BY <1>3, <1>4, <2>1
  <2> QED
    BY <1>1, <2>2 DEF SizeOf, Tells
<1>5. Reduced(r) = expectedAggFileSize
  <2>1. Count(r) > 0 /\ ToSize + Sizing + 1 \in Nat
    BY <1>3
  <2> QED
    BY <1>3, <1>4, <2>1, AllTell
<1>6. size'[r] = expectedAggFileSize /\ at'[r] = "open" /\ UNCHANGED calls
  BY <1>1, <1>5 DEF AggregateSize, GoAfter, Go
<1>7. Tells(r)' /\ Count(r)' = Count(r)
  BY <1>1, <1>6, GoTells DEF SizeOf
<1>8. Least("open") = ToSize + Sizing + 1
  BY DEF Least, After
<1>9. Told(r)'
  BY <1>2, <1>6 DEF Told, Sizes
<1> QED
  BY <1>2, <1>3, <1>6, <1>7, <1>8, <1>9 DEF SizeOf

\* The invariant holds at first.
LEMMA SizeInit == Init => SizeInv
<1> SUFFICES ASSUME Init PROVE SizeInv
  OBVIOUS
<1>1. size = [r \in Ranks |-> size[r]] /\ calls = NoCalls
  BY DEF Init
<1>2. ASSUME NEW r \in Ranks PROVE at[r] = "initialize" /\ Count(r) = 0
  BY <1>1, <1>2 DEF Init, Count, NoCalls
<1>3. ToSize \in Nat /\ Sizing \in Nat
  BY DueOfSizes
<1>4. ASSUME NEW r \in Ranks PROVE SizeOf(r)
  <2>1. Least(at[r]) = 0 /\ Told(r)
    BY <1>2 DEF Least, Told, Sizes, After, Last, Ended, DfsPlaces
  <2>2. Tells(r)
    BY <1>2, <1>3 DEF Tells
  <2> QED
    BY <1>2, <2>1, <2>2 DEF SizeOf
<1>5. BoundInv
  <2> SUFFICES ASSUME NEW f \in DOMAIN files, Cleaned(f), NEW u \in DOMAIN files[f] PROVE u < Full
    BY DEF BoundInv
  <2>1. files[f] = OldFile /\ f \in Ranks
    BY FileOfRank DEF Init
  <2>2. Shared
    BY <1>2, <2>1 DEF Cleaned
  <2>3. Full = expectedAggFileSize /\ expectedAggFileSize \in Nat
    BY <2>2, FullType, UnitType
  <2>4. u \in 0..(expectedAggFileSize - 1)
    BY <2>1 DEF OldFile
  <2> QED
    BY <2>3, <2>4
<1> QED
  BY <1>1, <1>4, <1>5 DEF SizeInv

\* No step breaks it.
LEMMA SizeStep ==
    ASSUME AllInv, DataIsSafe, SizeInv, [Next]_vars
    PROVE  SizeInv'
<1>1. CASE UNCHANGED vars
  <2>1. UNCHANGED <<job, at, calls, ahead, files, size>>
    BY <1>1 DEF vars
  <2>2. /\ ToSize' = ToSize /\ Sizing' = Sizing /\ Full' = Full /\ expectedAggFileSize' = expectedAggFileSize
        /\ (AsksRank0' <=> AsksRank0) /\ (Sized' <=> Sized) /\ (Shared' <=> Shared)
        /\ \A place : Least(place)' = Least(place)
    BY <2>1, SameCounts, SameJob
  <2>3. BoundInv => BoundInv'
    BY <2>1, <2>2 DEF BoundInv, Cleaned
  <2>4. ASSUME NEW r \in Ranks, SizeOf(r) PROVE SizeOf(r)'
    BY <2>1, <2>2, <2>4 DEF SizeOf, Told, Tells, FullIn, Count
  <2>5. Ranks' = Ranks
    BY DEF Ranks
  <2> QED
    BY <2>1, <2>2, <2>3, <2>4, <2>5 DEF SizeInv
<1>2. ASSUME NEW r \in Ranks, RankNext(r) PROVE SizeInv'
  <2>1. Inv /\ UNCHANGED job /\ size = [s \in Ranks |-> size[s]] /\ Ranks' = Ranks
    BY <1>2, JobStays DEF AllInv, SizeInv, Ranks
  <2>2. /\ ToSize' = ToSize /\ Sizing' = Sizing /\ Full' = Full /\ expectedAggFileSize' = expectedAggFileSize
        /\ (AsksRank0' <=> AsksRank0) /\ (Sized' <=> Sized) /\ job'.api = job.api
        /\ \A place : Least(place)' = Least(place)
    BY <2>1, SameCounts
  <2>3. /\ size' = [s \in Ranks |-> size'[s]]
        /\ \A s \in Ranks \ {r} : /\ at'[s] = at[s] /\ ahead'[s] = ahead[s] /\ calls'[s] = calls[s]
                                  /\ size'[s] = size[s]
    BY <1>2, <2>1, RestStays
  <2>4. SUFFICES ASSUME Sized PROVE BoundInv' /\ \A s \in Ranks : SizeOf(s)'
    BY <2>1, <2>2, <2>3 DEF SizeInv
  <2>5. BoundInv'
    BY <1>2, <2>4, LengthKeeps DEF SizeInv
  <2>6. SizeOf(r)'
    BY <1>2, <2>1, <2>4, SizeKinds, CollectiveTells, OnwardTells, AskTells, ReduceTells, CheckTells, AggregateTells
  <2>7. ASSUME NEW s \in Ranks \ {r} PROVE SizeOf(s)'
    <3>1. SizeOf(s) /\ Count(s)' = Count(s)
      BY <2>3, <2>4, <2>7 DEF SizeInv, Count
    <3> QED
      BY <2>2, <2>3, <2>7, <3>1 DEF SizeOf, Told, Tells, FullIn
  <2> QED
    BY <2>5, <2>6, <2>7
<1> QED
  BY <1>1, <1>2 DEF Next, Terminating

\* When CheckFileSize is done, every rank has the size of all data, on any number
\* of ranks and for any length, whichever backend has been asked and whichever of
\* the ranks it has asked: nobody asks before all have written and closed
\* (WriteOrRead), the values added up or compared are those of the same call of
\* every rank, and MPIIO_GetFileSize and DFS_GetFileSize wait for that of rank 0.
THEOREM EveryRankKnowsTheSize ==
    ASSUME TruncatersWait, HandlesAreIntegers, StorageSuits, FilesAddUp, DaosAnswers
    PROVE  Spec => []SizeIsRight
<1>1. Inv => DataIsSafe /\ AddUp(job)
  BY DEF Inv, TypeInv, DataIsSafe, HandlesAreIntegers, StorageSuits, FilesAddUp
<1>2. Init => SizeInv
  BY SizeInit
<1>3. Inv /\ FileInv /\ (DataIsSafe => DataInv) /\ SizeInv /\ [Next]_vars => SizeInv'
  BY <1>1, SizeStep DEF AllInv
<1>4. Inv /\ SizeInv => SizeIsRight
  BY <1>1 DEF SizeInv, SizeIsRight, Sized, Active, SizeOf, Told
<1> QED
  BY <1>2, <1>3, <1>4, DataInvariant, PTL DEF Spec
=============================================================================
