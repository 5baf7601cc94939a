---------------------------- MODULE LayoutProofs ----------------------------
(***************************************************************************)
(* Proofs about the layouts of module Layout, for every number of ranks,    *)
(* segments, transfers and repetitions, in the jobs of SensibleJobs: what a *)
(* rank reads is what the rank it stands for has written at that offset,    *)
(* and a backend only stops the test where it has to.                       *)
(***************************************************************************)
EXTENDS Layout, MpiProofs, SequenceTheorems

----------------------------------------------------------------------------
(* Where transfer i of rank q is.  Everything here is about one job.        *)

SegmentSize(j) == (IF j.filePerProc THEN 1 ELSE N) * j.transfers
Start(j, q) == IF j.filePerProc THEN 0 ELSE q * j.transfers
Off(j, q, i) == (i \div j.transfers) * SegmentSize(j) + Start(j, q) + (i % j.transfers)
Tok(j, q, i) == <<q, Off(j, q, i)>>
Total(j) == j.segments * j.transfers

\* The cells that transfer i of rank q is written to.
Cells(j, q, i) ==
    IF j.api = "HDF5" THEN {<<i \div j.transfers, Start(j, q) + (i % j.transfers)>>}
    ELSE IF j.api = "NCMPI" THEN {<<(i \div j.transfers) * N + q, i % j.transfers>>}
    ELSE IF j.api = "STRIDED"
         THEN IF i < j.transfers
              THEN {<<0, Off(j, q, i) + s * SegmentSize(j)>> : s \in 0..(j.segments - 1)} ELSE {}
    ELSE {<<0, Off(j, q, i)>>}

\* The quotient and the remainder of a number that is given by them.
LEMMA DivOf ==
    ASSUME NEW d \in Nat \ {0}, NEW q \in Nat, NEW a \in 0..(d - 1)
    PROVE  (d * q + a) \div d = q /\ (d * q + a) % d = a
<1> DEFINE m == d * q + a
           x == m \div d
           y == m % d
<1>1. m \in Nat
  OBVIOUS
<1>2. x \in Nat /\ y \in 0..(d - 1) /\ m = d * x + y
  <2> HIDE DEF m
  <2> QED
    BY <1>1, DivMod
<1>3. d * x + y = d * q + a
  BY <1>2
<1> HIDE DEF m, x, y
<1>4. x = q /\ y = a
  BY <1>2, <1>3, DivModUnique
<1> QED
  BY <1>4 DEF m, x, y

\* A product is not less than its factors, and grows with them.
LEMMA TimesMonotone ==
    ASSUME NEW d \in Nat, NEW a \in Nat, NEW b \in Nat, a <= b
    PROVE  d * a \in Nat /\ d * a <= d * b
<1>1. PICK k \in Nat : b = a + k
  <2>1. b - a \in Nat
    OBVIOUS
  <2> QED
    BY <2>1
<1>2. d * b = d * a + d * k
  BY <1>1
<1>3. d * k \in Nat /\ d * a \in Nat
  OBVIOUS
<1> QED
  BY <1>2, <1>3

\* What a job is made of.
LEMMA JobParts ==
    ASSUME NEW j \in JobType
    PROVE  /\ j.segments \in Nat \ {0} /\ j.transfers \in Nat \ {0} /\ j.repetitions \in Nat \ {0}
           /\ j.rankOffset \in Ranks /\ j.api \in Apis
           /\ j.filePerProc \in BOOLEAN /\ j.collective \in BOOLEAN /\ j.readCheck \in BOOLEAN
           /\ j.deadline \in BOOLEAN /\ j.big \in BOOLEAN /\ j.intraTestBarriers \in BOOLEAN
BY DEF JobType

\* In a segment each rank that shares the file has its block.
LEMMA BlocksFit ==
    ASSUME NEW j \in JobType, NEW q \in Ranks, NEW b \in 0..(j.transfers - 1)
    PROVE  /\ SegmentSize(j) \in Nat \ {0} /\ Start(j, q) \in Nat
           /\ Start(j, q) + b \in 0..(SegmentSize(j) - 1)
           /\ b \in 0..(SegmentSize(j) - 1)
<1> DEFINE T1 == j.transfers
<1>1. T1 \in Nat \ {0} /\ N \in Nat \ {0} /\ q \in 0..(N - 1) /\ b \in 0..(T1 - 1)
  BY JobParts, MpiAssumption DEF Ranks
<1> HIDE DEF T1
<1>2. CASE j.filePerProc
  <2>1. SegmentSize(j) = T1 /\ Start(j, q) = 0
    BY <1>1, <1>2 DEF SegmentSize, Start, T1
  <2> QED
    BY <1>1, <2>1
<1>3. CASE ~j.filePerProc
  <2>1. SegmentSize(j) = N * T1 /\ Start(j, q) = q * T1
    BY <1>3 DEF SegmentSize, Start, T1
  <2>2. PICK k \in Nat : N = q + 1 + k
    <3>1. N - (q + 1) \in Nat /\ N = q + 1 + (N - (q + 1))
      BY <1>1
    <3> QED
      BY <3>1
  <2>3. N * T1 = q * T1 + T1 + k * T1
    BY <1>1, <2>2
  <2>4. k * T1 \in Nat /\ q * T1 \in Nat
    BY <1>1, <2>2
  <2> QED
    BY <1>1, <2>1, <2>3, <2>4
<1> QED
  BY <1>2, <1>3

\* A segment is some blocks.
LEMMA SegmentIsBlocks ==
    ASSUME NEW j \in JobType, NEW q \in Ranks
    PROVE  \E k \in Nat, m \in Nat : SegmentSize(j) = j.transfers * k /\ Start(j, q) = j.transfers * m
<1>1. j.transfers \in Nat \ {0} /\ N \in Nat \ {0} /\ q \in Nat
  BY JobParts, MpiAssumption DEF Ranks
<1>2. CASE j.filePerProc
  <2>1. SegmentSize(j) = j.transfers * 1 /\ Start(j, q) = j.transfers * 0
    BY <1>1, <1>2 DEF SegmentSize, Start
  <2> QED
    BY <2>1
<1>3. CASE ~j.filePerProc
  <2>1. SegmentSize(j) = j.transfers * N /\ Start(j, q) = j.transfers * q
    BY <1>1, <1>3 DEF SegmentSize, Start
  <2> QED
    BY <1>1, <2>1
<1> QED
  BY <1>2, <1>3

\* From an offset the segment, the place in the segment and the transfer are read off.
LEMMA OffsetTells ==
    ASSUME NEW j \in JobType, NEW q \in Ranks, NEW i \in Nat
    PROVE  /\ i \div j.transfers \in Nat /\ i % j.transfers \in 0..(j.transfers - 1)
           /\ Off(j, q, i) \in Nat
           /\ Off(j, q, i) = SegmentSize(j) * (i \div j.transfers) + (Start(j, q) + (i % j.transfers))
           /\ Off(j, q, i) \div SegmentSize(j) = i \div j.transfers
           /\ Off(j, q, i) % SegmentSize(j) = Start(j, q) + (i % j.transfers)
           /\ (Off(j, q, i) - Start(j, q)) % SegmentSize(j) = i % j.transfers
           /\ Off(j, q, i) - Start(j, q) = 0 <=> i = 0
           /\ Off(j, q, i) % j.transfers = i % j.transfers
<1> DEFINE T1 == j.transfers
           a == i \div T1
           b == i % T1
           L == SegmentSize(j)
           p == Start(j, q)
           o == Off(j, q, i)
<1>1. T1 \in Nat \ {0}
  BY JobParts
<1>2. a \in Nat /\ b \in 0..(T1 - 1) /\ i = T1 * a + b
  <2> HIDE DEF T1
  <2> QED
    BY <1>1, DivMod
<1>3. o = a * L + p + b
  BY DEF Off
<1>4. PICK k \in Nat, m \in Nat : L = T1 * k /\ p = T1 * m
  BY SegmentIsBlocks
<1> HIDE DEF T1, a, b, L, p, o
<1>5. L \in Nat \ {0} /\ p \in Nat /\ p + b \in 0..(L - 1) /\ b \in 0..(L - 1)
  BY <1>2, BlocksFit DEF T1, L, p
<1>6. o = L * a + (p + b) /\ o \in Nat
  <2>1. L * a = a * L /\ L * a \in Nat
    BY <1>2, <1>5
  <2> QED
    BY <1>2, <1>3, <1>5, <2>1
<1>7. o \div L = a /\ o % L = p + b
  BY <1>2, <1>5, <1>6, DivOf
<1>8. o - p = L * a + b
  <2>1. L * a \in Nat
    BY <1>2, <1>5
  <2> QED
    BY <1>2, <1>5, <1>6, <2>1
<1>9. (o - p) % L = b
  BY <1>2, <1>5, <1>8, DivOf
<1>10. o - p = 0 <=> i = 0
  <2>1. CASE a = 0
    BY <1>1, <1>2, <1>5, <1>8, <2>1
  <2>2. CASE a > 0
    <3>1. L * a \in Nat \ {0} /\ T1 * a \in Nat \ {0}
      BY <1>1, <1>2, <1>5, <2>2
    <3> QED
      BY <1>2, <1>8, <3>1
  <2> QED
    BY <1>2, <2>1, <2>2
<1>11. o % T1 = b
  <2>1. o = T1 * (k * a + m) + b
    <3>1. (T1 * k) * a + T1 * m = T1 * (k * a + m)
      BY <1>1, <1>2, <1>4
    <3>2. (T1 * k) * a \in Nat /\ T1 * m \in Nat
      BY <1>1, <1>2, <1>4
    <3> QED
      BY <1>2, <1>4, <1>6, <3>1, <3>2
  <2>2. k * a + m \in Nat
    BY <1>2, <1>4
  <2> QED
    BY <1>1, <1>2, <2>1, <2>2, DivOf
<1> QED
  BY <1>2, <1>6, <1>7, <1>9, <1>10, <1>11 DEF T1, a, b, L, p, o

\* The files that transfers are in.
File(j, q) == IF j.filePerProc THEN q ELSE 0

\* No two transfers of a file are at one place of one segment.
LEMMA PlacesApart ==
    ASSUME NEW j \in JobType, NEW q \in Ranks, NEW i \in Nat, NEW u \in Ranks, NEW k \in Nat,
           File(j, q) = File(j, u), i \div j.transfers = k \div j.transfers,
           Start(j, q) + (i % j.transfers) = Start(j, u) + (k % j.transfers)
    PROVE  q = u /\ i = k
<1> DEFINE T1 == j.transfers
           b == i % T1
           c == k % T1
<1>1. T1 \in Nat \ {0} /\ q \in Nat /\ u \in Nat
  BY JobParts, MpiAssumption DEF Ranks
<1>2. /\ b \in 0..(T1 - 1) /\ i = T1 * (i \div T1) + b
      /\ c \in 0..(T1 - 1) /\ k = T1 * (k \div T1) + c
  <2> HIDE DEF T1
  <2> QED
    BY <1>1, DivMod
<1>3. q = u /\ b = c
  <2>1. CASE j.filePerProc
    <3>1. q = u /\ Start(j, q) = 0 /\ Start(j, u) = 0
      BY <2>1 DEF File, Start
    <3> HIDE DEF T1
    <3>2. b \in Int /\ c \in Int
      BY <1>1, <1>2
    <3>3. 0 + b = 0 + c
      BY <3>1 DEF T1
    <3> HIDE DEF b, c
    <3> QED
      BY <3>1, <3>2, <3>3
  <2>2. CASE ~j.filePerProc
    <3>1. T1 * q + b = T1 * u + c
      <4>1. Start(j, q) = q * T1 /\ Start(j, u) = u * T1
        BY <2>2 DEF Start
      <4>2. q * T1 + b = u * T1 + c
        BY <4>1
      <4> HIDE DEF T1, b, c
      <4> QED
        BY <1>1, <4>2
    <3> HIDE DEF T1, b, c
    <3> QED
      BY <1>1, <1>2, <3>1, DivModUnique
  <2> QED
    BY <2>1, <2>2
<1>4. i \div T1 = k \div T1
  OBVIOUS
<1> HIDE DEF T1, b, c
<1> QED
  BY <1>2, <1>3, <1>4

\* No two transfers of a file share a cell.
LEMMA CellsApart ==
    ASSUME NEW j \in JobType, NEW q \in Ranks, NEW i \in 0..(Total(j) - 1),
           NEW u \in Ranks, NEW k \in 0..(Total(j) - 1),
           File(j, q) = File(j, u), q # u \/ i # k,
           j.api = "NCMPI" => ~j.filePerProc
    PROVE  Cells(j, q, i) \cap Cells(j, u, k) = {}
<1> DEFINE T1 == j.transfers
           L == SegmentSize(j)
<1>1. /\ T1 \in Nat \ {0} /\ i \in Nat /\ k \in Nat /\ q \in Ranks /\ u \in Ranks
      /\ N \in Nat \ {0} /\ q \in 0..(N - 1) /\ u \in 0..(N - 1)
  BY JobParts, MpiAssumption DEF Ranks, Total
<1>2. /\ i \div T1 \in Nat /\ k \div T1 \in Nat
      /\ i % T1 \in 0..(T1 - 1) /\ k % T1 \in 0..(T1 - 1)
      /\ Off(j, q, i) \in Nat /\ Off(j, u, k) \in Nat
      /\ Off(j, q, i) \div L = i \div T1 /\ Off(j, u, k) \div L = k \div T1
      /\ Off(j, q, i) % L = Start(j, q) + (i % T1)
      /\ Off(j, u, k) % L = Start(j, u) + (k % T1)
  BY <1>1, OffsetTells
<1>3. ~(i \div T1 = k \div T1 /\ Start(j, q) + (i % T1) = Start(j, u) + (k % T1))
  BY <1>1, PlacesApart
<1> HIDE DEF T1, L
<1>4. Off(j, q, i) # Off(j, u, k)
  BY <1>2, <1>3
<1>5. CASE j.api = "HDF5"
  <2>1. Cells(j, q, i) = {<<i \div T1, Start(j, q) + (i % T1)>>}
    BY <1>5 DEF Cells, T1
  <2>2. Cells(j, u, k) = {<<k \div T1, Start(j, u) + (k % T1)>>}
    BY <1>5 DEF Cells, T1
  <2> QED
    BY <1>3, <2>1, <2>2
<1>6. CASE j.api = "NCMPI"
  <2>1. Cells(j, q, i) = {<<(i \div T1) * N + q, i % T1>>}
    BY <1>6 DEF Cells, T1
  <2>2. Cells(j, u, k) = {<<(k \div T1) * N + u, k % T1>>}
    BY <1>6 DEF Cells, T1
  <2>3. ASSUME (i \div T1) * N + q = (k \div T1) * N + u, i % T1 = k % T1 PROVE FALSE
    <3>1. N * (i \div T1) + q = N * (k \div T1) + u
      BY <1>1, <1>2, <2>3
    <3>2. i \div T1 = k \div T1 /\ q = u
      BY <1>1, <1>2, <3>1, DivModUnique
    <3> QED
      BY <1>3, <2>3, <3>2
  <2> QED
    BY <2>1, <2>2, <2>3
<1>7. CASE j.api = "STRIDED"
  <2>1. CASE i < T1 /\ k < T1
    <3>1. /\ Cells(j, q, i) = {<<0, Off(j, q, i) + s * L>> : s \in 0..(j.segments - 1)}
          /\ Cells(j, u, k) = {<<0, Off(j, u, k) + s * L>> : s \in 0..(j.segments - 1)}
      BY <1>7, <2>1 DEF Cells, T1, L
    <3>2. i \div T1 = 0 /\ k \div T1 = 0
      BY <1>1, <2>1
    <3>3. /\ Off(j, q, i) \in 0..(L - 1) /\ Off(j, u, k) \in 0..(L - 1) /\ L \in Nat \ {0}
      <4>1. /\ L \in Nat \ {0} /\ Start(j, q) + (i % T1) \in 0..(L - 1)
            /\ Start(j, u) + (k % T1) \in 0..(L - 1)
        BY <1>1, <1>2, BlocksFit DEF T1, L
      <4>2. /\ Off(j, q, i) = L * (i \div T1) + (Start(j, q) + (i % T1))
            /\ Off(j, u, k) = L * (k \div T1) + (Start(j, u) + (k % T1))
        BY <1>1, OffsetTells DEF T1, L
      <4>3. /\ Off(j, q, i) = Start(j, q) + (i % T1)
            /\ Off(j, u, k) = Start(j, u) + (k % T1)
        BY <3>2, <4>1, <4>2
      <4> QED
        BY <4>1, <4>3
    <3>4. ASSUME NEW s \in 0..(j.segments - 1), NEW t \in 0..(j.segments - 1),
                 Off(j, q, i) + s * L = Off(j, u, k) + t * L
          PROVE  FALSE
      <4>1. s \in Nat /\ t \in Nat
        OBVIOUS
      <4>2. L * s + Off(j, q, i) = L * t + Off(j, u, k)
        BY <3>3, <3>4, <4>1
      <4>3. Off(j, q, i) = Off(j, u, k)
        <5>1. \A x, y \in Int : \A v, w \in 0..(L - 1) : L * x + v = L * y + w => v = w
          BY <3>3, DivModUnique
        <5> HIDE DEF L
        <5> DEFINE v == Off(j, q, i)
                   w == Off(j, u, k)
        <5>2. v \in 0..(L - 1) /\ w \in 0..(L - 1) /\ L * s + v = L * t + w /\ s \in Int /\ t \in Int
          BY <3>3, <4>1, <4>2
        <5> HIDE DEF v, w
        <5>3. v = w
          BY <5>1, <5>2
        <5> QED
          BY <5>3 DEF v, w
      <4> QED
        BY <1>4, <4>3
    <3> QED
      BY <3>1, <3>4
  <2>2. CASE ~(i < T1 /\ k < T1)
    BY <1>7, <2>2 DEF Cells, T1
  <2> QED
    BY <2>1, <2>2
<1>8. CASE j.api \notin {"HDF5", "NCMPI", "STRIDED"}
  <2>1. Cells(j, q, i) = {<<0, Off(j, q, i)>>} /\ Cells(j, u, k) = {<<0, Off(j, u, k)>>}
    BY <1>8 DEF Cells
  <2> QED
    BY <1>4, <2>1
<1> QED
  BY <1>5, <1>6, <1>7, <1>8
----------------------------------------------------------------------------
(* How many collectives a rank has to call until it is at some place of a   *)
(* repetition: the same number on every rank.                               *)

Optional(b) == IF b THEN 1 ELSE 0
Object(j) == j.api \in {"S3", "EMC"}
Uploads(j) == j.api = "S3" /\ ~j.filePerProc

ToWrite(j) == Optional(~j.filePerProc /\ j.api # "EMC") + Optional(~j.filePerProc /\ j.api = "VIEW")
              + Optional(j.intraTestBarriers)
ToRead(j) == IF Object(j) THEN Optional(j.intraTestBarriers) ELSE ToWrite(j)

\* Those of transfer i, and of all transfers before it.
XferCalls(j, access, i) ==
    IF j.filePerProc \/ Object(j) THEN 0
    ELSE IF j.api = "STRIDED" THEN IF i < j.transfers THEN 1 + Optional(j.collective) ELSE 0
    ELSE Optional(j.collective)
         + (IF j.api = "HDF5" THEN Optional(access = "WRITE" /\ i % j.transfers = 0)
            ELSE IF j.api = "NCMPI" /\ i = 0
                 THEN Optional(access = "WRITE") + Optional(~j.collective)
            ELSE 0)

AllXferCalls(j, access, i) ==
    IF j.filePerProc \/ Object(j) THEN 0
    ELSE IF j.api = "STRIDED"
         THEN (IF i < j.transfers THEN i ELSE j.transfers) * (1 + Optional(j.collective))
    ELSE (IF j.collective THEN i ELSE 0)
         + (IF j.api = "HDF5"
            THEN IF access = "WRITE" THEN (i + j.transfers - 1) \div j.transfers ELSE 0
            ELSE IF j.api = "NCMPI" /\ i > 0
                 THEN Optional(access = "WRITE") + Optional(~j.collective)
            ELSE 0)

Accesses == {"WRITE", "READ", "READCHECK"}

\* Transfers rounded up to segments.
LEMMA RoundedUp ==
    ASSUME NEW d \in Nat \ {0}, NEW i \in Nat
    PROVE  /\ (i + d - 1) \div d \in Nat
           /\ (0 + d - 1) \div d = 0
           /\ (i + 1 + d - 1) \div d = (i + d - 1) \div d + Optional(i % d = 0)
<1> DEFINE a == i \div d
           b == i % d
<1>1. a \in Nat /\ b \in 0..(d - 1) /\ i = d * a + b
  BY DivMod
<1> HIDE DEF a, b
<1>2. d * a \in Nat /\ d * (a + 1) = d * a + d
  BY <1>1
<1>3. (0 + d - 1) \div d = 0
  <2>1. 0 + d - 1 = d * 0 + (d - 1) /\ d - 1 \in 0..(d - 1)
    OBVIOUS
  <2> QED
    BY <2>1, DivOf
<1>4. i + 1 + d - 1 = d * (a + 1) + b
  BY <1>1, <1>2
<1>5. (i + 1 + d - 1) \div d = a + 1
  BY <1>1, <1>4, DivOf
<1>6. CASE b = 0
  <2>1. i + d - 1 = d * a + (d - 1) /\ d - 1 \in 0..(d - 1)
    BY <1>1, <1>2, <1>6
  <2>2. (i + d - 1) \div d = a
    BY <1>1, <2>1, DivOf
  <2> QED
    BY <1>1, <1>3, <1>5, <1>6, <2>2 DEF Optional, b
<1>7. CASE b # 0
  <2>1. i + d - 1 = d * (a + 1) + (b - 1) /\ b - 1 \in 0..(d - 1)
    BY <1>1, <1>2, <1>7
  <2>2. (i + d - 1) \div d = a + 1
    BY <1>1, <2>1, DivOf
  <2>3. i % d # 0
    BY <1>7 DEF b
  <2> QED
    BY <1>1, <1>3, <1>5, <2>2, <2>3 DEF Optional
<1> QED
  BY <1>6, <1>7

\* The calls of all transfers are those of each.
LEMMA XferCallsAdd ==
    ASSUME NEW j \in JobType, NEW access \in Accesses, NEW i \in Nat
    PROVE  /\ XferCalls(j, access, i) \in Nat /\ AllXferCalls(j, access, i) \in Nat
           /\ AllXferCalls(j, access, 0) = 0
           /\ AllXferCalls(j, access, i + 1) = AllXferCalls(j, access, i) + XferCalls(j, access, i)
<1>1. j.transfers \in Nat \ {0} /\ j.filePerProc \in BOOLEAN /\ j.collective \in BOOLEAN
  BY JobParts
<1>2. CASE j.filePerProc \/ Object(j)
  BY <1>2 DEF XferCalls, AllXferCalls
<1>3. CASE ~(j.filePerProc \/ Object(j)) /\ j.api = "STRIDED"
  <2> DEFINE c == 1 + Optional(j.collective)
             T1 == j.transfers
  <2>1. c \in Nat /\ T1 \in Nat \ {0}
    BY <1>1 DEF Optional
  <2>2. /\ \A k \in Nat : AllXferCalls(j, access, k) = (IF k < T1 THEN k ELSE T1) * c
        /\ XferCalls(j, access, i) = IF i < T1 THEN c ELSE 0
    BY <1>3 DEF XferCalls, AllXferCalls
  <2>3. /\ AllXferCalls(j, access, 0) = (IF 0 < T1 THEN 0 ELSE T1) * c
        /\ AllXferCalls(j, access, i) = (IF i < T1 THEN i ELSE T1) * c
        /\ AllXferCalls(j, access, i + 1) = (IF i + 1 < T1 THEN i + 1 ELSE T1) * c
    BY <2>2
  <2> HIDE DEF c, T1
  <2>4. i * c \in Nat /\ (i + 1) * c = i * c + c /\ T1 * c \in Nat /\ 0 * c = 0
    BY <2>1
  <2>5. CASE i + 1 < T1
    BY <2>1, <2>2, <2>3, <2>4, <2>5
  <2>6. CASE i + 1 = T1
    BY <2>1, <2>2, <2>3, <2>4, <2>6
  <2>7. CASE i >= T1
    BY <2>1, <2>2, <2>3, <2>4, <2>7
  <2> QED
    BY <2>1, <2>5, <2>6, <2>7
<1>4. CASE ~(j.filePerProc \/ Object(j)) /\ j.api = "HDF5"
  <2> DEFINE R(k) == (k + j.transfers - 1) \div j.transfers
             z == Optional(i % j.transfers = 0)
  <2>1. R(i) \in Nat /\ R(0) = 0 /\ R(i + 1) = R(i) + z /\ z \in {0, 1}
    <3>1. R(i) \in Nat /\ R(0) = 0 /\ R(i + 1) = R(i) + z
      BY <1>1, RoundedUp
    <3>2. z \in {0, 1}
      BY DEF Optional
    <3> QED
      BY <3>1, <3>2
  <2>2. /\ \A k \in Nat : AllXferCalls(j, access, k) = (IF j.collective THEN k ELSE 0)
                                                      + (IF access = "WRITE" THEN R(k) ELSE 0)
        /\ XferCalls(j, access, i) = Optional(j.collective)
                                     + (IF access = "WRITE" THEN z ELSE 0)
    BY <1>4 DEF XferCalls, AllXferCalls, Optional
  <2>3. \A k \in {0, i, i + 1} :
            AllXferCalls(j, access, k) = (IF j.collective THEN k ELSE 0)
                                         + (IF access = "WRITE" THEN R(k) ELSE 0)
    BY <2>2
  <2> HIDE DEF R, z
  <2> QED
    BY <1>1, <2>1, <2>2, <2>3 DEF Optional
<1>5. CASE ~(j.filePerProc \/ Object(j)) /\ j.api \notin {"STRIDED", "HDF5"}
  BY <1>1, <1>5 DEF XferCalls, AllXferCalls, Optional
<1> QED
  BY <1>2, <1>3, <1>4, <1>5

\* So they are never fewer for more transfers.
LEMMA XferCallsGrow ==
    ASSUME NEW j \in JobType, NEW access \in Accesses, NEW i \in Nat, NEW k \in Nat, i <= k
    PROVE  AllXferCalls(j, access, i) <= AllXferCalls(j, access, k)
<1> DEFINE P == {m \in Nat : AllXferCalls(j, access, i) <= AllXferCalls(j, access, i + m)}
<1>1. 0 \in P
  <2>1. AllXferCalls(j, access, i) \in Nat /\ i + 0 = i
    BY XferCallsAdd
  <2> QED
    BY <2>1
<1>2. ASSUME NEW m \in P \cap Nat PROVE m + 1 \in P
  <2>1. /\ AllXferCalls(j, access, i) \in Nat /\ AllXferCalls(j, access, i + m) \in Nat
        /\ XferCalls(j, access, i + m) \in Nat
        /\ AllXferCalls(j, access, (i + m) + 1)
           = AllXferCalls(j, access, i + m) + XferCalls(j, access, i + m)
    BY XferCallsAdd
  <2>2. AllXferCalls(j, access, i) <= AllXferCalls(j, access, i + m)
    BY <1>2
  <2>3. AllXferCalls(j, access, i) <= AllXferCalls(j, access, i + (m + 1))
    <3>1. (i + m) + 1 = i + (m + 1)
      OBVIOUS
    <3> QED
      BY <2>1, <2>2, <3>1
  <2> QED
    BY <2>3
<1> HIDE DEF P
<1>3. k - i \in P
  <2>1. Nat \subseteq P
    BY <1>1, <1>2, InductionOverNat
  <2> QED
    BY <2>1
<1>4. i + (k - i) = k
  OBVIOUS
<1> QED
  BY <1>3, <1>4 DEF P

Closing(j) == IF Uploads(j) THEN 4 ELSE Optional(~j.filePerProc) + 1
ClosingRead(j) == IF Object(j) THEN 1 ELSE Optional(~j.filePerProc) + 1
ReadAs(j) == IF j.readCheck THEN "READCHECK" ELSE "READ"
AtClose(j) == ToWrite(j) + AllXferCalls(j, "WRITE", Total(j))
AtOpen(j) == AtClose(j) + Closing(j)
AtCloseRead(j) == AtOpen(j) + ToRead(j) + AllXferCalls(j, ReadAs(j), Total(j))
AtRemove(j) == AtCloseRead(j) + ClosingRead(j)
PerRep(j) == AtRemove(j) + 1

\* Before repetition k, and in it before a rank goes on with transfer i at a place.
Begin(j, k) == Optional(Object(j)) + PerRep(j) * (k - 1)
Due(j, place, i) ==
    IF place = "s3_connect" THEN -1
    ELSE IF place = "write" THEN ToWrite(j) + AllXferCalls(j, "WRITE", i)
    ELSE IF place = "close" THEN AtClose(j)
    ELSE IF place = "count" THEN AtClose(j) + 1
    ELSE IF place = "complete" THEN AtClose(j) + 2
    ELSE IF place = "open" THEN AtOpen(j)
    ELSE IF place = "read" THEN AtOpen(j) + ToRead(j) + AllXferCalls(j, ReadAs(j), i)
    ELSE IF place = "close_read" THEN AtCloseRead(j)
    ELSE IF place = "remove" THEN AtRemove(j)
    ELSE 0

Places == {"s3_connect", "create", "write", "close", "count", "complete", "open", "read",
           "close_read", "remove", "done"}
Closed2 == {"open", "read", "close_read", "remove"}

\* A rank makes at least one transfer.
LEMMA TotalIs ==
    ASSUME NEW j \in JobType
    PROVE  Total(j) \in Nat \ {0}
<1>1. j.segments \in Nat \ {0} /\ j.transfers \in Nat \ {0}
  BY JobParts
<1> DEFINE s == j.segments
           t == j.transfers
<1>2. s \in Nat \ {0} /\ t \in Nat \ {0}
  BY <1>1
<1> HIDE DEF s, t
<1>3. s * t \in Nat \ {0}
  BY <1>2
<1> QED
  BY <1>3 DEF s, t, Total

\* The order of the places.
LEMMA PlacesInOrder ==
    ASSUME NEW j \in JobType
    PROVE  /\ ToWrite(j) \in Nat /\ AtClose(j) \in Nat /\ AtOpen(j) \in Nat
           /\ AtCloseRead(j) \in Nat /\ AtRemove(j) \in Nat /\ PerRep(j) \in Nat
           /\ ToRead(j) \in Nat
           /\ AtClose(j) + 1 <= AtOpen(j) /\ AtOpen(j) <= AtCloseRead(j)
           /\ AtCloseRead(j) + 1 <= AtRemove(j) /\ PerRep(j) = AtRemove(j) + 1
           /\ Uploads(j) => AtOpen(j) = AtClose(j) + 4
           /\ ~j.filePerProc /\ j.api # "EMC" => ToWrite(j) >= 1
           /\ \A i \in 0..Total(j) :
                 /\ ToWrite(j) <= Due(j, "write", i) /\ Due(j, "write", i) <= AtClose(j)
                 /\ AtOpen(j) <= Due(j, "read", i) /\ Due(j, "read", i) <= AtCloseRead(j)
                 /\ Due(j, "write", i) \in Nat /\ Due(j, "read", i) \in Nat
<1>1. ToWrite(j) \in Nat /\ (~j.filePerProc /\ j.api # "EMC" => ToWrite(j) >= 1) /\ ToRead(j) \in Nat
  BY DEF ToWrite, ToRead, Optional
<1>2. /\ Closing(j) \in Nat \ {0} /\ (Uploads(j) => Closing(j) = 4)
      /\ ClosingRead(j) \in Nat \ {0}
  BY DEF Closing, ClosingRead, Optional
<1>3. Total(j) \in Nat /\ ReadAs(j) \in Accesses /\ "WRITE" \in Accesses
  BY TotalIs DEF ReadAs, Accesses
<1>4. AllXferCalls(j, "WRITE", Total(j)) \in Nat /\ AllXferCalls(j, ReadAs(j), Total(j)) \in Nat
  BY <1>3, XferCallsAdd
<1>5. AtClose(j) \in Nat /\ AtOpen(j) \in Nat /\ AtClose(j) + 1 <= AtOpen(j)
      /\ (Uploads(j) => AtOpen(j) = AtClose(j) + 4)
  BY <1>1, <1>2, <1>4 DEF AtClose, AtOpen
<1>6. AtCloseRead(j) \in Nat /\ AtOpen(j) <= AtCloseRead(j)
  BY <1>1, <1>4, <1>5 DEF AtCloseRead
<1>7. AtRemove(j) \in Nat /\ AtCloseRead(j) + 1 <= AtRemove(j) /\ PerRep(j) = AtRemove(j) + 1
      /\ PerRep(j) \in Nat
  BY <1>2, <1>6 DEF AtRemove, PerRep
<1>8. ASSUME NEW i \in 0..Total(j)
      PROVE  /\ ToWrite(j) <= Due(j, "write", i) /\ Due(j, "write", i) <= AtClose(j)
             /\ AtOpen(j) <= Due(j, "read", i) /\ Due(j, "read", i) <= AtCloseRead(j)
             /\ Due(j, "write", i) \in Nat /\ Due(j, "read", i) \in Nat
  <2>1. i \in Nat /\ i <= Total(j)
    BY <1>3
  <2>2. /\ AllXferCalls(j, "WRITE", i) \in Nat /\ AllXferCalls(j, ReadAs(j), i) \in Nat
        /\ AllXferCalls(j, "WRITE", i) <= AllXferCalls(j, "WRITE", Total(j))
        /\ AllXferCalls(j, ReadAs(j), i) <= AllXferCalls(j, ReadAs(j), Total(j))
    BY <1>3, <2>1, XferCallsAdd, XferCallsGrow
  <2>3. /\ Due(j, "write", i) = ToWrite(j) + AllXferCalls(j, "WRITE", i)
        /\ Due(j, "read", i) = AtOpen(j) + ToRead(j) + AllXferCalls(j, ReadAs(j), i)
    BY DEF Due
  <2> QED
    BY <1>1, <1>4, <1>5, <2>2, <2>3 DEF AtClose, AtCloseRead
<1> QED
  BY <1>1, <1>5, <1>6, <1>7, <1>8

\* A repetition begins where the one before it has ended.
LEMMA RepetitionsFollow ==
    ASSUME NEW j \in JobType, NEW k \in Nat \ {0}
    PROVE  /\ Begin(j, k) \in Nat /\ Begin(j, k + 1) = Begin(j, k) + PerRep(j)
           /\ Object(j) => Begin(j, k) >= 1
           /\ Begin(j, 1) = Optional(Object(j))
           /\ \A m \in Nat : k < m => Begin(j, k) + PerRep(j) <= Begin(j, m)
<1> DEFINE p == PerRep(j)
           o == Optional(Object(j))
<1>1. p \in Nat /\ o \in {0, 1} /\ (Object(j) => o = 1)
  BY PlacesInOrder DEF Optional
<1>2. \A m \in Nat : Begin(j, m) = o + p * (m - 1)
  BY DEF Begin
<1> HIDE DEF p, o
<1>3. \A m \in Nat \ {0} : p * (m - 1) \in Nat /\ p * m = p * (m - 1) + p
  BY <1>1
<1>4. /\ Begin(j, k) = o + p * (k - 1) /\ Begin(j, k + 1) = o + p * (k + 1 - 1)
      /\ Begin(j, 1) = o + p * (1 - 1)
  BY <1>2
<1>5. Begin(j, k) \in Nat /\ Begin(j, k + 1) = Begin(j, k) + p /\ (Object(j) => Begin(j, k) >= 1)
  <2>1. k + 1 - 1 = k /\ p * (k - 1) \in Nat /\ p * k = p * (k - 1) + p
    BY <1>3
  <2> QED
    BY <1>1, <1>4, <2>1
<1>6. Begin(j, 1) = o
  <2>1. 1 - 1 = 0 /\ p * 0 = 0
    BY <1>1
  <2> QED
    BY <1>1, <1>4, <2>1
<1>7. ASSUME NEW m \in Nat, k < m PROVE Begin(j, k) + p <= Begin(j, m)
  <2>1. p * k <= p * (m - 1) /\ p * (m - 1) \in Nat
    <3>1. k \in Nat /\ m - 1 \in Nat /\ k <= m - 1
      BY <1>7
    <3> QED
      BY <1>1, <3>1, TimesMonotone
  <2>2. p * (k - 1) \in Nat /\ p * k = p * (k - 1) + p
    BY <1>3
  <2>3. Begin(j, m) = o + p * (m - 1)
    BY <1>2
  <2> QED
    BY <1>1, <1>4, <2>1, <2>2, <2>3
<1> QED
  BY <1>5, <1>6, <1>7 DEF p, o
----------------------------------------------------------------------------
(* The inductive invariant.                                                *)

\* The jobs the theorems are about: the others do not work.  HDF5 with -R finds
\* no data set.  NetCDF reads its own rows instead of those of the rank it stands
\* for; with -R its toggle of defining and asking goes wrong in the next
\* repetition.  With a strided datatype the ranks that stand for others do not
\* call the same collectives, and the test hangs; -R checks the segments that are
\* only pretended to be read, and in a file of one's own they are moved after
\* all, over those of the datatype.  EMC empties an object that another rank has
\* begun to write.
Sensible(j) ==
    \/ j.deadline
    \/ /\ j.api = "HDF5" => ~j.readCheck
       /\ j.api = "NCMPI" => /\ j.rankOffset = 0
                             /\ j.readCheck /\ ~j.collective => j.repetitions = 1
       /\ j.api = "STRIDED" => /\ j.rankOffset = 0
                               /\ j.readCheck \/ j.filePerProc => j.segments = 1
       /\ j.api = "EMC" /\ ~j.filePerProc => j.intraTestBarriers

SensibleJobs == \A j \in Jobs : Sensible(j)

Reads == ~job.deadline
Shared == ~job.filePerProc

Tokens == Ranks \X Nat
Values == Nat \cup Seq(Tokens)
Handles == [newlyOpened : BOOLEAN, firstReadCheck : BOOLEAN, startDataSet : BOOLEAN,
            suffix : Nat, defined : BOOLEAN, indep : BOOLEAN]

TypeInv ==
    /\ job \in Jobs
    /\ calls \in CallsIn(Values)
    /\ at \in [Ranks -> Places]
    /\ ahead \in [Ranks -> Seq(Collectives)]
    /\ rep \in [Ranks -> Nat \ {0}]
    /\ n \in [Ranks -> Nat]
    /\ h \in [Ranks -> Handles]
    /\ uploads = [f \in Ranks |-> uploads[f]]
    /\ etags \in [Ranks -> Seq(Tokens)]
    /\ wrong \in [Ranks -> BOOLEAN]

Started(r) == Begin(job, rep[r])

\* What goes with the places.
PlaceInv(r) ==
    /\ at[r] = "s3_connect" => Object(job) /\ rep[r] = 1
    /\ at[r] # "done" => rep[r] <= job.repetitions
    /\ at[r] \in {"s3_connect", "create"} => n[r] = 0
    /\ at[r] \in {"write", "read"} => n[r] < Total(job)
    /\ at[r] \in {"close", "count", "complete"} => (Reads => n[r] = Total(job))
    /\ at[r] \in {"count", "complete"} => Uploads(job)
    /\ at[r] \in {"open", "read", "close_read"} => Reads

\* What a rank has called and is about to call.
Pledged(r) == Count(r) + Len(ahead[r])
CountInv(r) == Reads => Pledged(r) = Started(r) + Due(job, at[r], n[r])

LastOp(r) == IF ahead[r] # << >> THEN ahead[r][Len(ahead[r])]
             ELSE IF Count(r) > 0 THEN calls[r][Count(r)].op ELSE "none"

\* The collectives that separate the phases.
LastInv(r) ==
    /\ at[r] \in {"open", "remove"} => LastOp(r) = "Barrier"
    /\ at[r] \in {"create", "done"} /\ (rep[r] > 1 \/ Object(job)) => LastOp(r) = "Barrier"
    /\ at[r] = "write" /\ n[r] = 0 /\ Shared /\ Reads =>
          LastOp(r) \in Synchronizing \cup (IF job.api = "S3" THEN {"Bcast"} ELSE {})
    /\ at[r] = "count" => ahead[r] = << >> /\ LastOp(r) = "Allreduce"
    /\ at[r] = "complete" => ahead[r] = << >> /\ LastOp(r) = "Gather"

\* What all ranks have called when one is in some place.
Met(place) == IF place \in {"read", "close_read", "remove"} THEN AtOpen(job)
              ELSE IF place \in {"create", "done"} THEN -1
              ELSE IF place = "complete" THEN AtClose(job) + 1 ELSE 0
MetInv(r) ==
    Reads /\ at[r] # "s3_connect" =>
        /\ \A s \in Ranks : Count(s) >= Started(r) + Met(at[r])
        /\ at[r] \notin {"create", "done"} /\ (at[r] = "write" => n[r] > 0) /\ Shared =>
              \A s \in Ranks : s = 0 \/ job.api # "S3" => Count(s) >= Started(r) + 1

\* The etags a rank has got for its parts.
Etags(r, k) == [i \in 1..k |-> Tok(job, r, i - 1)]
EtagInv(r) ==
    job.api = "S3" =>
        etags[r] = IF at[r] \in {"write", "close", "count", "complete"} THEN Etags(r, n[r]) ELSE << >>

\* What a rank has told the others about them.
TellInv(r) ==
    Reads /\ Uploads(job) =>
        /\ at[r] \in {"count", "complete", "open"} =>
              /\ Count(r) >= Started(r) + AtClose(job) + 1
              /\ calls[r][Started(r) + AtClose(job) + 1].value = Total(job)
        /\ at[r] \in {"complete", "open"} =>
              /\ Count(r) >= Started(r) + AtClose(job) + 2
              /\ calls[r][Started(r) + AtClose(job) + 2].value = Etags(r, Total(job))

HDF5Inv(r) ==
    at[r] \in {"write", "read"} =>
        /\ h[r].newlyOpened <=> n[r] = 0
        /\ n[r] > 0 => h[r].suffix = (n[r] - 1) \div T

NCMPIInv(r) ==
    /\ at[r] = "write" /\ n[r] = 0 => ~h[r].defined /\ ~h[r].indep
    /\ at[r] = "write" /\ n[r] > 0 => /\ ~h[r].startDataSet /\ h[r].indep = ~job.collective
                                      /\ h[r].defined
                                      /\ job.big => n[r] <= T
    /\ at[r] \in {"close", "open", "read", "close_read"} /\ Reads => (job.big => S = 1)
    /\ at[r] = "read" /\ n[r] = 0 => ~h[r].indep
    /\ at[r] = "read" /\ n[r] > 0 => /\ h[r].indep = ~job.collective
                                     /\ ~job.collective => ~h[r].startDataSet
    /\ Reads /\ job.readCheck /\ ~job.collective =>
          /\ at[r] \in {"create", "write", "close", "open"} => ~h[r].firstReadCheck
          /\ at[r] = "read" /\ n[r] = 0 => ~h[r].firstReadCheck

HandleInv(r) == (job.api = "HDF5" => HDF5Inv(r)) /\ (job.api = "NCMPI" => NCMPIInv(r))

\* The transfers whose data has to be there, and who may take it away.
Holds(q, i) == \A c \in Cells(job, q, i) :
                  Has(File(job, q), c) /\ files[File(job, q)][c] = Tok(job, q, i)
Keeper(q) == IF Uploads(job) THEN 0 ELSE q
Stored(q) == IF at[q] = "write" /\ job.api # "S3" THEN n[q]
             ELSE IF at[q] \in Closed2 \/ (at[q] = "close" /\ job.api # "S3") THEN Total(job)
             ELSE 0
Remover(q) == IF Shared THEN {0} ELSE {t \in Ranks : Pretend(t, "READ") = q}
DataInv == Reads => \A q, k \in Ranks :
    k = Keeper(q) /\ (\A t \in Remover(q) : rep[t] = rep[k]) =>
        \A i \in 0..(Stored(k) - 1) : Holds(q, i)

\* The parts the server has of an upload.
PartOf(r, i) == IF job.filePerProc THEN i ELSE IF S = 1 THEN r * T + i ELSE i * N + r
Parts(r) == IF at[r] \in {"write", "close", "count", "complete"} THEN n[r]
            ELSE IF at[r] \in Closed2 /\ Reads THEN Total(job) ELSE 0
PartInv(r) ==
    job.api = "S3" /\ (Shared => Reads /\ rep[r] = rep[0]) =>
        \A i \in 0..(Parts(r) - 1) : <<PartOf(r, i), Tok(job, r, i)>> \in uploads[File(job, r)]

\* An object of one's own has been appended to.
AppendInv(r) ==
    job.api = "EMC" /\ job.filePerProc /\ at[r] = "write" =>
        Exists(r) /\ DOMAIN files[r] = {<<0, c>> : c \in 0..(n[r] - 1)}

Local(r) == PlaceInv(r) /\ CountInv(r) /\ LastInv(r) /\ EtagInv(r) /\ TellInv(r) /\ HandleInv(r)

Good == /\ TypeInv
        /\ \A r \in Ranks : Local(r) /\ MetInv(r) /\ PartInv(r) /\ AppendInv(r)
        /\ DataInv

Inv == ReadBack /\ GivesUpForAReason /\ wrong \in [Ranks -> BOOLEAN] /\ (~stopped => Good)

----------------------------------------------------------------------------
(* Where the others are.                                                   *)

\* The job is one that the program accepts and that makes sense.
LEMMA JobIs ==
    ASSUME SensibleJobs, job \in Jobs
    PROVE  job \in JobType /\ ValidateTests(job) /\ S3_check_params(job) /\ Sensible(job)
BY LayoutAssumption DEF SensibleJobs

\* The calls that a rank has made or will make before it goes on.
LEMMA PledgedIsNat ==
    ASSUME TypeInv, NEW r \in Ranks
    PROVE  Count(r) \in Nat /\ Len(ahead[r]) \in Nat /\ Pledged(r) \in Nat /\ Count(r) <= Pledged(r)
<1>1. Count(r) \in Nat
  BY CountIsNat DEF TypeInv
<1>2. Len(ahead[r]) \in Nat
  <2>1. ahead[r] \in Seq(Collectives)
    BY DEF TypeInv
  <2> QED
    BY <2>1
<1> QED
  BY <1>1, <1>2 DEF Pledged

\* From what a rank has pledged to call follows where it is.
LEMMA Position ==
    ASSUME SensibleJobs, TypeInv, NEW s \in Ranks, PlaceInv(s), CountInv(s), Reads
    PROVE  /\ Started(s) \in Nat
           /\ Started(s) - 1 <= Pledged(s) /\ Pledged(s) <= Started(s) + AtRemove(job)
           /\ at[s] # "s3_connect" => Started(s) <= Pledged(s)
           /\ Pledged(s) >= Started(s) + AtClose(job) + 1 => at[s] \in {"count", "complete"} \cup Closed2
           /\ Uploads(job) /\ Pledged(s) >= Started(s) + AtClose(job) + 2
                 => at[s] \in {"complete"} \cup Closed2
           /\ Pledged(s) >= Started(s) + AtOpen(job) => at[s] \in Closed2
<1>1. job \in JobType /\ rep[s] \in Nat \ {0} /\ at[s] \in Places /\ n[s] \in Nat
  BY JobIs DEF TypeInv
<1>2. Started(s) \in Nat
  BY <1>1, RepetitionsFollow DEF Started
<1>3. Pledged(s) = Started(s) + Due(job, at[s], n[s])
  BY DEF CountInv
<1>4. /\ AtClose(job) \in Nat /\ AtOpen(job) \in Nat /\ AtCloseRead(job) \in Nat /\ AtRemove(job) \in Nat
      /\ AtClose(job) + 1 <= AtOpen(job) /\ AtOpen(job) <= AtCloseRead(job)
      /\ AtCloseRead(job) + 1 <= AtRemove(job)
      /\ Uploads(job) => AtOpen(job) = AtClose(job) + 4
  BY <1>1, PlacesInOrder
<1>5. /\ at[s] \in {"count", "complete"} => Uploads(job)
      /\ at[s] \in {"write", "read"} => n[s] < Total(job)
  BY DEF PlaceInv
<1>6. ASSUME NEW i \in 0..Total(job)
      PROVE  /\ Due(job, "write", i) \in Nat /\ Due(job, "write", i) <= AtClose(job)
             /\ Due(job, "read", i) \in Nat /\ AtOpen(job) <= Due(job, "read", i)
             /\ Due(job, "read", i) <= AtCloseRead(job)
  BY <1>1, PlacesInOrder
<1>7. at[s] \in {"write", "read"} => n[s] \in 0..Total(job)
  <2>1. Total(job) \in Nat
    BY <1>1, TotalIs
  <2> QED
    BY <1>1, <1>5, <2>1
<1> DEFINE p == Pledged(s)
           b == Started(s)
           Low == ~(p >= b + AtClose(job) + 1) /\ ~(p >= b + AtClose(job) + 2) /\ ~(p >= b + AtOpen(job))
<1>8. b \in Nat
  BY <1>2
<1>9. CASE at[s] = "write"
  <2> DEFINE d == Due(job, "write", n[s])
  <2>1. d \in Nat /\ d <= AtClose(job) /\ p = b + d
    BY <1>3, <1>6, <1>7, <1>9
  <2> HIDE DEF d, p, b
  <2>2. b - 1 <= p /\ b <= p /\ p <= b + AtRemove(job) /\ Low
    BY <1>4, <1>8, <2>1
  <2> QED
    BY <1>2, <2>2 DEF p, b
<1>10. CASE at[s] = "read"
  <2> DEFINE d == Due(job, "read", n[s])
  <2>1. d \in Nat /\ AtOpen(job) <= d /\ d <= AtCloseRead(job) /\ p = b + d
    BY <1>3, <1>6, <1>7, <1>10
  <2> HIDE DEF d, p, b
  <2>2. b - 1 <= p /\ b <= p /\ p <= b + AtRemove(job)
    BY <1>4, <1>8, <2>1
  <2>3. at[s] \in Closed2
    BY <1>10 DEF Closed2
  <2> QED
    BY <1>2, <2>2, <2>3 DEF p, b
<1>11. CASE at[s] \in {"s3_connect", "create", "done"}
  <2>1. p = b + (IF at[s] = "s3_connect" THEN -1 ELSE 0)
    BY <1>3, <1>11 DEF Due
  <2> HIDE DEF p, b
  <2>2. b - 1 <= p /\ p <= b + AtRemove(job) /\ (at[s] # "s3_connect" => b <= p) /\ Low
    BY <1>4, <1>8, <2>1
  <2> QED
    BY <1>2, <2>2 DEF p, b
<1>12. CASE at[s] \in {"close", "count", "complete"}
  <2>1. p = b + (IF at[s] = "close" THEN AtClose(job)
                 ELSE IF at[s] = "count" THEN AtClose(job) + 1 ELSE AtClose(job) + 2)
    BY <1>3, <1>12 DEF Due
  <2> HIDE DEF p, b
  <2>2. CASE at[s] = "close"
    <3>1. b - 1 <= p /\ b <= p /\ p <= b + AtRemove(job) /\ Low
      BY <1>4, <1>8, <2>1, <2>2
    <3> QED
      BY <1>2, <3>1 DEF p, b
  <2>3. CASE at[s] = "count"
    <3>1. p = b + AtClose(job) + 1 /\ AtOpen(job) = AtClose(job) + 4
      BY <1>4, <1>5, <1>8, <2>1, <2>3
    <3>2. /\ b - 1 <= p /\ b <= p /\ p <= b + AtRemove(job)
          /\ ~(p >= b + AtClose(job) + 2) /\ ~(p >= b + AtOpen(job))
      BY <1>4, <1>8, <3>1
    <3> QED
      BY <1>2, <2>3, <3>2 DEF p, b
  <2>4. CASE at[s] = "complete"
    <3>1. p = b + AtClose(job) + 2 /\ AtOpen(job) = AtClose(job) + 4
      BY <1>4, <1>5, <1>8, <2>1, <2>4
    <3>2. b - 1 <= p /\ b <= p /\ p <= b + AtRemove(job) /\ ~(p >= b + AtOpen(job))
      BY <1>4, <1>8, <3>1
    <3> QED
      BY <1>2, <2>4, <3>2 DEF p, b
  <2> QED
    BY <1>12, <2>2, <2>3, <2>4
<1>13. CASE at[s] \in {"open", "close_read", "remove"}
  <2>1. p = b + (IF at[s] = "open" THEN AtOpen(job)
                 ELSE IF at[s] = "close_read" THEN AtCloseRead(job) ELSE AtRemove(job))
    BY <1>3, <1>13 DEF Due
  <2> HIDE DEF p, b
  <2>2. b - 1 <= p /\ b <= p /\ p <= b + AtRemove(job)
    BY <1>4, <1>8, <2>1
  <2>3. at[s] \in Closed2
    BY <1>13 DEF Closed2
  <2> QED
    BY <1>2, <2>2, <2>3 DEF p, b
<1> QED
  BY <1>1, <1>9, <1>10, <1>11, <1>12, <1>13 DEF Places

\* A rank that has called what begins a repetition is not in an earlier one.
LEMMA NotBehind ==
    ASSUME SensibleJobs, TypeInv, NEW s \in Ranks, PlaceInv(s), CountInv(s), Reads,
           NEW k \in Nat \ {0}, Count(s) >= Begin(job, k)
    PROVE  rep[s] >= k
<1>1. job \in JobType /\ rep[s] \in Nat \ {0}
  BY JobIs DEF TypeInv
<1>2. Pledged(s) <= Started(s) + AtRemove(job) /\ Count(s) <= Pledged(s)
      /\ Count(s) \in Nat /\ Pledged(s) \in Nat /\ Started(s) \in Nat
  BY Position, PledgedIsNat
<1>3. PerRep(job) = AtRemove(job) + 1 /\ AtRemove(job) \in Nat
  BY <1>1, PlacesInOrder
<1>4. rep[s] < k => Started(s) + PerRep(job) <= Begin(job, k)
  BY <1>1, RepetitionsFollow DEF Started
<1>5. Begin(job, k) \in Nat
  BY <1>1, RepetitionsFollow
<1> QED
  BY <1>1, <1>2, <1>3, <1>4, <1>5

\* When a rank is in a repetition, all others are about to leave the one before it.
LEMMA NotFarBehind ==
    ASSUME SensibleJobs, TypeInv, NEW r \in Ranks, NEW s \in Ranks, PlaceInv(s), MetInv(s), Reads,
           rep[r] < rep[s]
    PROVE  Count(r) >= Started(r) + AtRemove(job)
<1>1. job \in JobType /\ rep[s] \in Nat \ {0} /\ rep[r] \in Nat \ {0}
  BY JobIs DEF TypeInv
<1>2. /\ AtClose(job) \in Nat /\ AtOpen(job) \in Nat /\ AtRemove(job) \in Nat
      /\ PerRep(job) = AtRemove(job) + 1
  BY <1>1, PlacesInOrder
<1>3. at[s] # "s3_connect"
  BY <1>1 DEF PlaceInv
<1>4. Count(r) >= Started(s) + Met(at[s])
  BY <1>3 DEF MetInv
<1>5. Met(at[s]) \in Int /\ Met(at[s]) >= -1
  BY <1>2 DEF Met
<1>6. Started(r) + PerRep(job) <= Started(s) /\ Started(r) \in Nat /\ Started(s) \in Nat
  BY <1>1, RepetitionsFollow DEF Started
<1>7. Count(r) \in Nat
  BY PledgedIsNat
<1> QED
  BY <1>2, <1>4, <1>5, <1>6, <1>7

\* Who goes on after an operation that all have to call.
LEMMA AllMet ==
    ASSUME TypeInv, NEW r \in Ranks, ahead[r] = << >>, Ready(r)
    PROVE  /\ LastOp(r) \in Synchronizing => \A s \in Ranks : Count(s) >= Count(r)
           /\ LastOp(r) = "Bcast" => Count(0) >= Count(r)
           /\ LastOp(r) = "Gather" /\ r = 0 => \A s \in Ranks : Count(s) >= Count(r)
           /\ Pledged(r) = Count(r)
<1>1. Count(r) \in Nat
  BY PledgedIsNat
<1>2. Pledged(r) = Count(r)
  BY <1>1 DEF Pledged
<1>3. CASE Count(r) = 0
  <2>1. LastOp(r) = "none"
    BY <1>3 DEF LastOp
  <2> QED
    BY <1>2, <2>1 DEF Synchronizing
<1>4. CASE Count(r) > 0
  <2>1. LastOp(r) = calls[r][Count(r)].op
    BY <1>4 DEF LastOp
  <2>2. LastOp(r) \in Synchronizing => \A s \in Ranks : Count(s) >= Count(r)
    BY <1>4, <2>1, ReadyMeans
  <2>3. LastOp(r) = "Bcast" => Count(0) >= Count(r)
    BY <1>4, <2>1, BcastMeans
  <2>4. LastOp(r) = "Gather" /\ r = 0 => \A s \in Ranks : Count(s) >= Count(r)
    BY <1>4, <2>1 DEF Ready, ReadyIn, Synchronizing
  <2> QED
    BY <1>2, <2>2, <2>3, <2>4
<1> QED
  BY <1>1, <1>3, <1>4
----------------------------------------------------------------------------
(* What a step of a rank leaves alone.                                     *)

OthersStay(r) ==
    /\ job' = job
    /\ \A s \in Ranks \ {r} :
          /\ at'[s] = at[s] /\ calls'[s] = calls[s] /\ ahead'[s] = ahead[s]
          /\ rep'[s] = rep[s] /\ n'[s] = n[s] /\ h'[s] = h[s] /\ etags'[s] = etags[s]

CountsGrow == \A s \in Ranks : Count(s)' \in Nat /\ Count(s)' >= Count(s)

\* The invariants that only speak of what a rank has itself.
LEMMA LocalStays ==
    ASSUME NEW r \in Ranks, OthersStay(r), NEW s \in Ranks \ {r}, Local(s)
    PROVE  Local(s)'
<1>1. /\ job' = job /\ at'[s] = at[s] /\ calls'[s] = calls[s] /\ ahead'[s] = ahead[s]
      /\ rep'[s] = rep[s] /\ n'[s] = n[s] /\ h'[s] = h[s] /\ etags'[s] = etags[s]
  BY DEF OthersStay
<1>2. PlaceInv(s)'
  BY <1>1 DEF Local, PlaceInv, Reads
<1>3. CountInv(s)'
  BY <1>1 DEF Local, CountInv, Reads, Pledged, Count, Started
<1>4. LastInv(s)'
  BY <1>1 DEF Local, LastInv, LastOp, Count, Shared, Reads
<1>5. EtagInv(s)'
  <2>1. Etags(s, n[s])' = Etags(s, n[s])
    BY <1>1 DEF Etags
  <2> QED
    BY <1>1, <2>1 DEF Local, EtagInv
<1>6. TellInv(s)'
  <2>1. Etags(s, Total(job))' = Etags(s, Total(job))
    BY <1>1 DEF Etags
  <2> QED
    BY <1>1, <2>1 DEF Local, TellInv, Reads, Count, Started
<1>7. HandleInv(s)'
  BY <1>1 DEF Local, HandleInv, HDF5Inv, NCMPIInv, Reads, T, S
<1> QED
  BY <1>2, <1>3, <1>4, <1>5, <1>6, <1>7 DEF Local

\* And the one that only grows.
LEMMA MetStays ==
    ASSUME SensibleJobs, TypeInv, NEW s \in Ranks, MetInv(s), CountsGrow, job' = job,
           rep'[s] = rep[s], at'[s] = at[s], n'[s] = n[s]
    PROVE  MetInv(s)'
<1>1. job \in JobType /\ rep[s] \in Nat \ {0}
  BY JobIs DEF TypeInv
<1>2. Started(s) \in Nat /\ Started(s)' = Started(s)
  BY <1>1, RepetitionsFollow DEF Started
<1>3. Met(at[s])' = Met(at[s]) /\ Met(at[s]) \in Int
  <2>1. AtOpen(job) \in Int /\ AtClose(job) \in Int
    BY <1>1, PlacesInOrder
  <2> QED
    BY <2>1 DEF Met
<1>4. \A t \in Ranks : Count(t) \in Nat
  BY PledgedIsNat
<1>5. Reads' = Reads /\ Shared' = Shared
  BY DEF Reads, Shared
<1>6. CASE Reads /\ at[s] # "s3_connect"
  <2>1. \A t \in Ranks : Count(t) >= Started(s) + Met(at[s])
    BY <1>6 DEF MetInv
  <2>2. \A t \in Ranks : Count(t)' >= Started(s) + Met(at[s])
    BY <1>2, <1>3, <1>4, <2>1 DEF CountsGrow
  <2>3. ASSUME at[s] \notin {"create", "done"}, at[s] = "write" => n[s] > 0, Shared,
               NEW t \in Ranks, t = 0 \/ job.api # "S3"
        PROVE  Count(t)' >= Started(s) + 1
    <3>1. Count(t) >= Started(s) + 1
      BY <1>6, <2>3 DEF MetInv
    <3> QED
      BY <1>2, <1>4, <3>1 DEF CountsGrow
  <2> QED
    BY <1>2, <1>3, <1>5, <1>6, <2>2, <2>3 DEF MetInv
<1>7. CASE ~(Reads /\ at[s] # "s3_connect")
  BY <1>5, <1>7 DEF MetInv
<1> QED
  BY <1>6, <1>7

\* A step that makes no transfer and does not touch the files.
LEMMA DataStays ==
    ASSUME SensibleJobs, TypeInv, DataInv, job' = job, UNCHANGED files, UNCHANGED rep,
           \A q \in Ranks : Stored(q) \in Int /\ Stored(q)' \in Int /\ Stored(q)' <= Stored(q)
    PROVE  DataInv'
<1>1. Reads' = Reads /\ \A q \in Ranks : Keeper(q)' = Keeper(q) /\ Remover(q)' = Remover(q)
  BY DEF Reads, Keeper, Remover, Shared, Pretend
<1>2. \A q, i : Holds(q, i)' = Holds(q, i)
  BY DEF Holds, Has, Exists
<1>3. ASSUME Reads, NEW q \in Ranks, NEW k \in Ranks, k = Keeper(q),
             \A t \in Remover(q) : rep[t] = rep[k], NEW i \in 0..(Stored(k)' - 1)
      PROVE  Holds(q, i)
  <2> DEFINE a == Stored(k)
             b == Stored(k)'
  <2>1. i \in 0..(a - 1)
    <3>1. a \in Int /\ b \in Int /\ b <= a /\ i \in 0..(b - 1)
      OBVIOUS
    <3> HIDE DEF a, b
    <3> QED
      BY <3>1
  <2> QED
    BY <1>3, <2>1 DEF DataInv
<1> QED
  BY <1>1, <1>2, <1>3 DEF DataInv

\* The same for the parts of an upload.
LEMMA PartsStay ==
    ASSUME NEW s \in Ranks, PartInv(s), job' = job, UNCHANGED rep,
           \A f \in Ranks : uploads[f] \subseteq uploads'[f],
           Parts(s) \in Int, Parts(s)' \in Int, Parts(s)' <= Parts(s)
    PROVE  PartInv(s)'
<1>1. Reads' = Reads /\ Shared' = Shared /\ File(job, s) \in Ranks
  BY MpiAssumption DEF Reads, Shared, File, Ranks
<1>2. \A i : PartOf(s, i)' = PartOf(s, i)
  BY DEF PartOf, S, T
<1>3. ASSUME job.api = "S3", Shared => Reads /\ rep[s] = rep[0], NEW i \in 0..(Parts(s)' - 1)
      PROVE  <<PartOf(s, i), Tok(job, s, i)>> \in uploads'[File(job, s)]
  <2>1. i \in 0..(Parts(s) - 1)
    OBVIOUS
  <2>2. <<PartOf(s, i), Tok(job, s, i)>> \in uploads[File(job, s)]
    BY <1>3, <2>1 DEF PartInv
  <2> QED
    BY <1>1, <2>2
<1> QED
  BY <1>1, <1>2, <1>3 DEF PartInv

\* How many transfers and parts of a rank are stored.
LEMMA StoredIsNat ==
    ASSUME SensibleJobs, TypeInv, NEW q \in Ranks
    PROVE  Stored(q) \in Nat /\ Parts(q) \in Nat
<1>1. job \in JobType /\ n[q] \in Nat
  BY JobIs DEF TypeInv
<1>2. Total(job) \in Nat
  BY <1>1, TotalIs
<1> QED
  BY <1>1, <1>2 DEF Stored, Parts

----------------------------------------------------------------------------
(* A rank goes on to a place after some collectives.                       *)

Moves(r, place, ops) ==
    /\ job' = job
    /\ at' = [at EXCEPT ![r] = place]
    /\ ahead' = [ahead EXCEPT ![r] = ops]
    /\ UNCHANGED calls

\* A step to another place adds the collectives ahead to what is pledged, and no call.
LEMMA MovesCounts ==
    ASSUME TypeInv, NEW r \in Ranks, ahead[r] = << >>, NEW place \in Places,
           NEW ops \in Seq(Collectives), Moves(r, place, ops)
    PROVE  /\ at' \in [Ranks -> Places] /\ ahead' \in [Ranks -> Seq(Collectives)]
           /\ calls' \in CallsIn(Values) /\ CountsGrow
           /\ at'[r] = place /\ ahead'[r] = ops
           /\ \A s \in Ranks : Count(s)' = Count(s)
           /\ \A s \in Ranks \ {r} : at'[s] = at[s] /\ ahead'[s] = ahead[s] /\ calls'[s] = calls[s]
           /\ Pledged(r)' = Pledged(r) + Len(ops)
           /\ LastOp(r)' = IF ops # << >> THEN ops[Len(ops)] ELSE LastOp(r)
<1>1. /\ at \in [Ranks -> Places] /\ ahead \in [Ranks -> Seq(Collectives)] /\ calls \in CallsIn(Values)
  BY DEF TypeInv
<1>2. /\ at' \in [Ranks -> Places] /\ ahead' \in [Ranks -> Seq(Collectives)]
      /\ at'[r] = place /\ ahead'[r] = ops
      /\ \A s \in Ranks \ {r} : at'[s] = at[s] /\ ahead'[s] = ahead[s]
  BY <1>1 DEF Moves
<1>3. calls' = calls
  BY DEF Moves
<1>4. \A s \in Ranks : Count(s)' = Count(s) /\ Count(s) \in Nat
  BY <1>3, PledgedIsNat DEF Count
<1>5. Pledged(r)' = Pledged(r) + Len(ops)
  <2>1. Pledged(r) = Count(r) + 0 /\ Pledged(r)' = Count(r)' + Len(ops) /\ Len(ops) \in Nat
    BY <1>2 DEF Pledged
  <2> QED
    BY <1>4, <2>1
<1>6. LastOp(r)' = IF ops # << >> THEN ops[Len(ops)] ELSE LastOp(r)
  BY <1>2, <1>3, <1>4 DEF LastOp
<1> QED
  BY <1>1, <1>2, <1>3, <1>4, <1>5, <1>6 DEF CountsGrow

\* The calls of a move have to add up.
LEMMA MovesAdd ==
    ASSUME TypeInv, NEW r \in Ranks, ahead[r] = << >>, NEW place \in Places, CountInv(r),
           NEW ops \in Seq(Collectives), Moves(r, place, ops), n'[r] \in Nat,
           Started(r) \in Int, Due(job, at[r], n[r]) \in Int,
           Reads => Started(r)' + Due(job, place, n'[r]) = Started(r) + Due(job, at[r], n[r]) + Len(ops)
    PROVE  CountInv(r)'
<1>1. Reads' = Reads /\ job' = job /\ at'[r] = place /\ Pledged(r)' = Pledged(r) + Len(ops)
  BY MovesCounts DEF Moves, Reads
<1>2. CASE Reads
  <2>1. Pledged(r) = Started(r) + Due(job, at[r], n[r])
    BY <1>2 DEF CountInv
  <2>2. Pledged(r)' = Started(r)' + Due(job, place, n'[r])
    BY <1>1, <1>2, <2>1
  <2> QED
    BY <1>1, <2>2 DEF CountInv
<1>3. CASE ~Reads
  BY <1>1, <1>3 DEF CountInv
<1> QED
  BY <1>2, <1>3

\* What a step has to keep.
LEMMA Assemble ==
    ASSUME SensibleJobs, Good, NEW r \in Ranks, OthersStay(r), CountsGrow,
           TypeInv', Local(r)', MetInv(r)', DataInv',
           \A s \in Ranks : PartInv(s)' /\ AppendInv(s)'
    PROVE  Good'
<1>1. ASSUME NEW s \in Ranks \ {r} PROVE Local(s)' /\ MetInv(s)'
  <2>1. Local(s) /\ MetInv(s) /\ TypeInv
    BY DEF Good
  <2>2. job' = job /\ rep'[s] = rep[s] /\ at'[s] = at[s] /\ n'[s] = n[s]
    BY DEF OthersStay
  <2>3. Local(s)'
    BY <2>1, LocalStays
  <2>4. MetInv(s)'
    BY <2>1, <2>2, MetStays
  <2> QED
    BY <2>3, <2>4
<1> QED
  BY <1>1 DEF Good

\* A step that neither makes a transfer nor touches files or uploads.
LEMMA QuietStep ==
    ASSUME SensibleJobs, Good, NEW r \in Ranks, OthersStay(r), CountsGrow,
           TypeInv', Local(r)', MetInv(r)', UNCHANGED <<files, rep, uploads>>,
           Stored(r)' <= Stored(r), Parts(r)' <= Parts(r),
           at'[r] = "write" => at[r] = "write" /\ n'[r] = n[r]
    PROVE  Good'
<1>1. TypeInv /\ DataInv /\ job' = job
  BY DEF Good, OthersStay
<1>2. ASSUME NEW q \in Ranks
      PROVE  /\ Stored(q) \in Int /\ Stored(q)' \in Int /\ Stored(q)' <= Stored(q)
             /\ Parts(q) \in Int /\ Parts(q)' \in Int /\ Parts(q)' <= Parts(q)
  <2>1. Stored(q) \in Nat /\ Parts(q) \in Nat
    BY <1>1, StoredIsNat
  <2>2. CASE q # r
    <3>1. at'[q] = at[q] /\ n'[q] = n[q]
      BY <2>2 DEF OthersStay
    <3>2. Stored(q)' = Stored(q) /\ Parts(q)' = Parts(q)
      BY <1>1, <3>1 DEF Stored, Parts, Reads
    <3> QED
      BY <2>1, <3>2
  <2>3. CASE q = r
    <3>1. job' \in JobType /\ n'[r] \in Nat /\ Total(job') \in Nat
      BY <1>1, JobIs, TotalIs DEF TypeInv
    <3>2. Stored(r)' \in Nat /\ Parts(r)' \in Nat
      BY <3>1 DEF Stored, Parts
    <3> QED
      BY <2>1, <2>3, <3>2
  <2> QED
    BY <2>2, <2>3
<1>3. DataInv'
  <2>1. \A q \in Ranks : Stored(q) \in Int /\ Stored(q)' \in Int /\ Stored(q)' <= Stored(q)
    BY <1>2
  <2> QED
    BY <1>1, <2>1, DataStays
<1>4. ASSUME NEW s \in Ranks PROVE PartInv(s)'
  <2>1. PartInv(s) /\ (\A f \in Ranks : uploads[f] \subseteq uploads'[f])
    BY DEF Good
  <2>2. Parts(s) \in Int /\ Parts(s)' \in Int /\ Parts(s)' <= Parts(s)
    BY <1>2
  <2> QED
    BY <1>1, <2>1, <2>2, PartsStay
<1>5. ASSUME NEW s \in Ranks PROVE AppendInv(s)'
  <2>1. AppendInv(s)
    BY DEF Good
  <2>2. at'[s] = "write" => at[s] = "write" /\ n'[s] = n[s]
    BY DEF OthersStay
  <2> QED
    BY <1>1, <2>1, <2>2 DEF AppendInv, Exists
<1> QED
  BY <1>3, <1>4, <1>5, Assemble

\* What is left of a sequence without its first element, and its last one.
LEMMA TailOfSeq ==
    ASSUME NEW C, NEW q \in Seq(C), q # << >>
    PROVE  /\ Head(q) \in C /\ Tail(q) \in Seq(C) /\ Len(q) = Len(Tail(q)) + 1
           /\ Len(Tail(q)) \in Nat
           /\ Tail(q) # << >> => Tail(q)[Len(Tail(q))] = q[Len(q)]
           /\ Tail(q) = << >> => Head(q) = q[Len(q)]
<1>1. Len(q) \in Nat \ {0}
  BY EmptySeq
<1>2. /\ Head(q) \in C /\ Tail(q) \in Seq(C) /\ Len(Tail(q)) = Len(q) - 1
      /\ \A i \in 1..Len(Tail(q)) : Tail(q)[i] = q[i + 1]
  BY HeadTailProperties
<1>3. Head(q) = q[1]
  OBVIOUS
<1>4. Tail(q) = << >> => Len(q) = 1
  <2>1. Len(<< >>) = 0
    BY EmptySeq
  <2>2. Tail(q) = << >> => Len(Tail(q)) = 0
    BY <2>1
  <2> QED
    BY <1>1, <1>2, <2>2
<1>5. Tail(q) # << >> => Tail(q)[Len(Tail(q))] = q[Len(q)]
  <2>1. Tail(q) # << >> => Len(Tail(q)) \in Nat \ {0}
    BY <1>2, EmptySeq
  <2>2. Len(Tail(q)) + 1 = Len(q)
    BY <1>1, <1>2
  <2> QED
    BY <1>2, <2>1, <2>2
<1> QED
  BY <1>1, <1>2, <1>3, <1>4, <1>5

\* A rank calls a collective it has pledged to call.
LEMMA CollectiveStep ==
    ASSUME SensibleJobs, Good, NEW r \in Ranks, Collective(r)
    PROVE  Good'
<1>1. /\ ahead[r] # << >> /\ Send(r, Head(ahead[r]), 0)
      /\ ahead' = [ahead EXCEPT ![r] = Tail(ahead[r])]
      /\ UNCHANGED <<job, at, rep, n, files, h, uploads, etags, wrong>>
  BY DEF Collective, Call, loop, parts
<1>2. TypeInv /\ Local(r) /\ MetInv(r)
  BY DEF Good
<1> DEFINE op == Head(ahead[r])
           q == ahead[r]
<1>3. /\ q \in Seq(Collectives) /\ op \in Collectives /\ Tail(q) \in Seq(Collectives)
      /\ Len(q) = Len(Tail(q)) + 1 /\ Len(Tail(q)) \in Nat
      /\ Tail(q) # << >> => Tail(q)[Len(Tail(q))] = q[Len(q)]
      /\ Tail(q) = << >> => op = q[Len(q)]
  <2>1. q \in Seq(Collectives) /\ q # << >> /\ op = Head(q)
    BY <1>1, <1>2 DEF TypeInv
  <2> HIDE DEF q, op
  <2> QED
    BY <2>1, TailOfSeq
<1>4. /\ calls \in CallsIn(Values) /\ 0 \in Values /\ Count(r) \in Nat
      /\ \A s \in Ranks : Count(s) \in Nat
  BY <1>2, PledgedIsNat DEF TypeInv, Values
<1>5. /\ calls' \in CallsIn(Values) /\ Count(r)' = Count(r) + 1
      /\ calls'[r][Count(r) + 1] = [op |-> op, value |-> 0]
      /\ \A k \in 1..Count(r) : calls'[r][k] = calls[r][k]
      /\ \A s \in Ranks \ {r} : calls'[s] = calls[s] /\ Count(s)' = Count(s)
  <2> HIDE DEF op
  <2> QED
    BY <1>1, <1>3, <1>4, SendStep DEF op
<1>6. ahead' \in [Ranks -> Seq(Collectives)] /\ ahead'[r] = Tail(q)
      /\ \A s \in Ranks \ {r} : ahead'[s] = ahead[s]
  BY <1>1, <1>2, <1>3 DEF TypeInv
<1>7. TypeInv'
  BY <1>1, <1>2, <1>5, <1>6 DEF TypeInv
<1>8. CountsGrow
  BY <1>4, <1>5 DEF CountsGrow
<1>9. OthersStay(r)
  BY <1>1, <1>5, <1>6 DEF OthersStay
<1>10. Pledged(r)' = Pledged(r)
  <2>1. Pledged(r) = Count(r) + Len(q) /\ Pledged(r)' = Count(r)' + Len(Tail(q))
    BY <1>6 DEF Pledged
  <2> HIDE DEF q, op
  <2> QED
    BY <1>3, <1>4, <1>5, <2>1
<1>11. LastOp(r)' = LastOp(r)
  <2>1. LastOp(r) = q[Len(q)]
    BY <1>1 DEF LastOp
  <2>2. CASE Tail(q) = << >>
    <3>1. LastOp(r)' = calls'[r][Count(r) + 1].op
      BY <1>4, <1>5, <1>6, <2>2 DEF LastOp
    <3>2. calls'[r][Count(r) + 1].op = op
      BY <1>5
    <3> QED
      BY <1>3, <2>1, <2>2, <3>1, <3>2
  <2>3. CASE Tail(q) # << >>
    BY <1>3, <1>6, <2>1, <2>3 DEF LastOp
  <2> QED
    BY <2>2, <2>3
<1>12. Local(r)'
  <2>1. PlaceInv(r)' /\ HandleInv(r)'
    BY <1>1, <1>2 DEF Local, PlaceInv, HandleInv, HDF5Inv, NCMPIInv, Reads, S, T
  <2>2. CountInv(r)'
    BY <1>1, <1>2, <1>10 DEF Local, CountInv, Reads, Started
  <2>3. LastInv(r)'
    BY <1>1, <1>2, <1>11 DEF Local, LastInv, Shared, Reads
  <2>4. EtagInv(r)'
    BY <1>1, <1>2 DEF Local, EtagInv, Etags
  <2>5. TellInv(r)'
    <3> SUFFICES ASSUME Reads, Uploads(job) PROVE TellInv(r)'
      BY <1>1 DEF TellInv, Reads
    <3>1. at[r] \notin {"count", "complete"}
      BY <1>1, <1>2 DEF Local, LastInv
    <3>2. CASE at[r] = "open"
      <4> DEFINE k == Started(r) + AtClose(job) + 1
                 m == Started(r) + AtClose(job) + 2
      <4>1. /\ Count(r) >= k /\ calls[r][k].value = Total(job)
            /\ Count(r) >= m /\ calls[r][m].value = Etags(r, Total(job))
        BY <1>2, <3>2 DEF Local, TellInv
      <4>2. Started(r) \in Nat /\ AtClose(job) \in Nat
        BY <1>2, JobIs, RepetitionsFollow, PlacesInOrder DEF Started, TypeInv
      <4>3. k \in 1..Count(r) /\ m \in 1..Count(r)
        BY <1>4, <4>1, <4>2
      <4>4. Started(r)' = Started(r) /\ Etags(r, Total(job))' = Etags(r, Total(job))
        BY <1>1 DEF Started, Etags
      <4>5. /\ Count(r)' >= k /\ calls'[r][k].value = Total(job)
            /\ Count(r)' >= m /\ calls'[r][m].value = Etags(r, Total(job))
        <5>1. calls'[r][k] = calls[r][k] /\ calls'[r][m] = calls[r][m]
          BY <1>5, <4>3
        <5>2. Count(r)' >= k /\ Count(r)' >= m
          <6>1. k \in Int /\ m \in Int
            BY <4>2
          <6> HIDE DEF k, m
          <6> QED
            BY <1>4, <1>5, <4>1, <6>1
        <5> QED
          BY <4>1, <5>1, <5>2
      <4> QED
        BY <1>1, <4>4, <4>5 DEF TellInv
    <3>3. CASE at[r] \notin {"count", "complete", "open"}
      BY <1>1, <3>3 DEF TellInv
    <3> QED
      BY <3>1, <3>2, <3>3
  <2> QED
    BY <2>1, <2>2, <2>3, <2>4, <2>5 DEF Local
<1>13. MetInv(r)'
  BY <1>1, <1>2, <1>8, MetStays
<1>14. Stored(r)' = Stored(r) /\ Parts(r)' = Parts(r) /\ Stored(r) \in Nat /\ Parts(r) \in Nat
  BY <1>1, <1>2, StoredIsNat DEF Stored, Parts, Reads
<1>15. Stored(r)' <= Stored(r) /\ Parts(r)' <= Parts(r)
  BY <1>14
<1> QED
  BY <1>1, <1>7, <1>8, <1>9, <1>12, <1>13, <1>15, QuietStep

----------------------------------------------------------------------------
(* The collectives of opening and closing.                                 *)

\* Two sequences after each other, and the last element.
LEMMA Joined ==
    ASSUME NEW C, NEW a \in Seq(C), NEW b \in Seq(C)
    PROVE  /\ a \o b \in Seq(C) /\ Len(a \o b) = Len(a) + Len(b)
           /\ Len(a) \in Nat /\ Len(b) \in Nat
           /\ b # << >> => a \o b # << >> /\ (a \o b)[Len(a \o b)] = b[Len(b)]
           /\ b = << >> => a \o b = a
<1>1. Len(a) \in Nat /\ Len(b) \in Nat /\ (b # << >> => Len(b) \in Nat \ {0}) /\ Len(<< >>) = 0
  BY EmptySeq, LenProperties
<1>2. /\ a \o b \in Seq(C) /\ Len(a \o b) = Len(a) + Len(b)
      /\ \A i \in 1..(Len(a) + Len(b)) : (a \o b)[i] = IF i <= Len(a) THEN a[i] ELSE b[i - Len(a)]
  BY ConcatProperties
<1>3. ASSUME b # << >> PROVE a \o b # << >> /\ (a \o b)[Len(a \o b)] = b[Len(b)]
  <2> DEFINE k == Len(a)
             m == Len(b)
             c == a \o b
  <2>1. k \in Nat /\ m \in Nat \ {0} /\ Len(c) = k + m
        /\ \A i \in 1..(k + m) : c[i] = IF i <= k THEN a[i] ELSE b[i - k]
    BY <1>1, <1>2, <1>3
  <2> HIDE DEF k, m, c
  <2>2. k + m \in 1..(k + m) /\ ~(k + m <= k) /\ (k + m) - k = m /\ k + m # 0
    BY <2>1
  <2>3. c[k + m] = b[(k + m) - k]
    BY <2>1, <2>2
  <2>4. c[Len(c)] = b[m] /\ c # << >>
    BY <1>1, <2>1, <2>2, <2>3
  <2> QED
    BY <2>4 DEF k, m, c
<1>4. b = << >> => a \o b = a
  BY ConcatEmptySeq
<1> QED
  BY <1>1, <1>2, <1>3, <1>4

\* A single collective.
LEMMA OneOp ==
    ASSUME NEW op \in Collectives
    PROVE  <<op>> \in Seq(Collectives) /\ Len(<<op>>) = 1 /\ <<op>>[1] = op /\ <<op>> # << >>
OBVIOUS

\* Something and a barrier.
LEMMA AndBarrier ==
    ASSUME NEW ops \in Seq(Collectives)
    PROVE  /\ ops \o <<"Barrier">> \in Seq(Collectives)
           /\ Len(ops \o <<"Barrier">>) = Len(ops) + 1 /\ Len(ops) \in Nat
           /\ ops \o <<"Barrier">> # << >>
           /\ (ops \o <<"Barrier">>)[Len(ops \o <<"Barrier">>)] = "Barrier"
<1>1. "Barrier" \in Collectives
  BY DEF Collectives, Synchronizing
<1>2. /\ <<"Barrier">> \in Seq(Collectives) /\ Len(<<"Barrier">>) = 1 /\ <<"Barrier">>[1] = "Barrier"
      /\ <<"Barrier">> # << >>
  BY <1>1, OneOp
<1> QED
  BY <1>2, Joined

\* Barriers that may be there.
LEMMA AndBarriers ==
    ASSUME NEW ops \in Seq(Collectives), job \in JobType
    PROVE  /\ ops \o Barriers \in Seq(Collectives)
           /\ Len(ops \o Barriers) = Len(ops) + Optional(job.intraTestBarriers) /\ Len(ops) \in Nat
           /\ job.intraTestBarriers =>
                 /\ ops \o Barriers # << >>
                 /\ (ops \o Barriers)[Len(ops \o Barriers)] = "Barrier"
           /\ ~job.intraTestBarriers => ops \o Barriers = ops
<1>1. CASE job.intraTestBarriers
  <2>1. Barriers = <<"Barrier">> /\ Optional(job.intraTestBarriers) = 1
    BY <1>1 DEF Barriers, Optional
  <2> QED
    BY <1>1, <2>1, AndBarrier
<1>2. CASE ~job.intraTestBarriers
  <2>1. Barriers = << >> /\ Optional(job.intraTestBarriers) = 0
    BY <1>2 DEF Barriers, Optional
  <2>2. ops \o << >> = ops /\ Len(ops) \in Nat
    BY ConcatEmptySeq, LenProperties
  <2>3. Len(ops) = Len(ops) + 0
    BY <2>2
  <2> QED
    BY <1>2, <2>1, <2>2, <2>3
<1> QED
  BY <1>1, <1>2

\* Collectives of a file are called when it is not one's own.
LEMMA IfShared ==
    ASSUME NEW ops \in Seq(Collectives), job \in JobType
    PROVE  /\ OnTestComm(ops) \in Seq(Collectives)
           /\ ~job.filePerProc => OnTestComm(ops) = ops
           /\ job.filePerProc => OnTestComm(ops) = << >> /\ Len(OnTestComm(ops)) = 0
<1>1. << >> \in Seq(Collectives) /\ Len(<< >>) = 0
  BY EmptySeq
<1> QED
  BY <1>1 DEF OnTestComm
----------------------------------------------------------------------------
(* The steps that make no transfer.                                        *)

\* What is known before a step of a rank.
LEMMA Before ==
    ASSUME SensibleJobs, Good, NEW r \in Ranks
    PROVE  /\ job \in JobType /\ ValidateTests(job) /\ S3_check_params(job) /\ Sensible(job)
           /\ TypeInv /\ PlaceInv(r) /\ CountInv(r) /\ LastInv(r) /\ EtagInv(r) /\ TellInv(r)
           /\ HandleInv(r) /\ MetInv(r)
           /\ rep[r] \in Nat \ {0} /\ n[r] \in Nat /\ Started(r) \in Nat
           /\ Count(r) \in Nat /\ Pledged(r) \in Nat
           /\ Stored(r) \in Nat /\ Parts(r) \in Nat /\ Total(job) \in Nat
           /\ at[r] \in Places /\ Due(job, at[r], n[r]) \in Int
<1>1. TypeInv /\ Local(r) /\ MetInv(r)
  BY DEF Good
<1>2. job \in JobType /\ ValidateTests(job) /\ S3_check_params(job) /\ Sensible(job)
  BY <1>1, JobIs DEF TypeInv
<1>3. rep[r] \in Nat \ {0} /\ n[r] \in Nat /\ at[r] \in Places
  BY <1>1 DEF TypeInv
<1>4. Started(r) \in Nat
  BY <1>2, <1>3, RepetitionsFollow DEF Started
<1>5. Count(r) \in Nat /\ Pledged(r) \in Nat
  BY <1>1, PledgedIsNat
<1>6. Stored(r) \in Nat /\ Parts(r) \in Nat /\ Total(job) \in Nat
  BY <1>1, <1>2, StoredIsNat, TotalIs
<1>7. Due(job, at[r], n[r]) \in Int
  <2>1. /\ AtClose(job) \in Int /\ AtOpen(job) \in Int /\ AtCloseRead(job) \in Int
        /\ AtRemove(job) \in Int /\ ToWrite(job) \in Int /\ ToRead(job) \in Int
    BY <1>2, PlacesInOrder
  <2>2. "WRITE" \in Accesses /\ ReadAs(job) \in Accesses
    BY DEF ReadAs, Accesses
  <2>3. AllXferCalls(job, "WRITE", n[r]) \in Int /\ AllXferCalls(job, ReadAs(job), n[r]) \in Int
    BY <1>2, <1>3, <2>2, XferCallsAdd
  <2> QED
    BY <2>1, <2>3 DEF Due
<1> QED
  BY <1>1, <1>2, <1>3, <1>4, <1>5, <1>6, <1>7 DEF Local

\* A rank has asked rank 0 for the bucket.
LEMMA ConnectStep ==
    ASSUME SensibleJobs, Good, NEW r \in Ranks, s3_connect(r)
    PROVE  Good'
<1> DEFINE ops == <<"Barrier">>
<1>1. /\ at[r] = "s3_connect" /\ ahead[r] = << >> /\ Moves(r, "create", ops)
      /\ UNCHANGED <<job, rep, n, files, h, uploads, etags, wrong>>
  BY DEF s3_connect, At, GoAfter, Go, Moves, loop, parts
<1>2. ops \in Seq(Collectives) /\ Len(ops) = 1 /\ ops[Len(ops)] = "Barrier" /\ ops # << >>
  <2>1. "Barrier" \in Collectives
    BY DEF Collectives, Synchronizing
  <2> QED
    BY <2>1, OneOp
<1> HIDE DEF ops
<1>3. /\ job \in JobType /\ TypeInv /\ PlaceInv(r) /\ CountInv(r) /\ EtagInv(r) /\ HandleInv(r)
      /\ Started(r) \in Nat /\ Due(job, at[r], n[r]) \in Int /\ n[r] \in Nat
      /\ Stored(r) \in Nat /\ Parts(r) \in Nat
  BY Before
<1>4. "create" \in Places
  BY DEF Places
<1>5. /\ at' \in [Ranks -> Places] /\ ahead' \in [Ranks -> Seq(Collectives)]
      /\ calls' \in CallsIn(Values) /\ CountsGrow /\ at'[r] = "create"
      /\ \A s \in Ranks \ {r} : at'[s] = at[s] /\ ahead'[s] = ahead[s] /\ calls'[s] = calls[s]
      /\ LastOp(r)' = "Barrier"
  BY <1>1, <1>2, <1>3, <1>4, MovesCounts
<1>6. TypeInv'
  BY <1>1, <1>3, <1>5 DEF TypeInv
<1>7. OthersStay(r)
  BY <1>1, <1>5 DEF OthersStay
<1>8. Started(r)' = Started(r) /\ n'[r] = n[r]
  BY <1>1 DEF Started
<1>9. Local(r)'
  <2>1. PlaceInv(r)'
    BY <1>1, <1>3, <1>5 DEF PlaceInv, Reads
  <2>2. CountInv(r)'
    <3>1. Due(job, at[r], n[r]) = -1 /\ Due(job, "create", n'[r]) = 0
      BY <1>1 DEF Due
    <3>2. Started(r)' + Due(job, "create", n'[r]) = Started(r) + Due(job, at[r], n[r]) + Len(ops)
      BY <1>2, <1>3, <1>8, <3>1
    <3>3. n'[r] \in Nat /\ Started(r) \in Int
      BY <1>3, <1>8
    <3> QED
      BY <1>1, <1>2, <1>3, <1>4, <3>2, <3>3, MovesAdd
  <2>3. LastInv(r)'
    BY <1>5 DEF LastInv
  <2>4. EtagInv(r)'
    BY <1>1, <1>3, <1>5 DEF EtagInv
  <2>5. TellInv(r)'
    BY <1>5 DEF TellInv
  <2>6. HandleInv(r)'
    <3>1. job.api \notin {"HDF5", "NCMPI"}
      BY <1>1, <1>3 DEF PlaceInv, Object
    <3> QED
      BY <1>1, <3>1 DEF HandleInv
  <2> QED
    BY <2>1, <2>2, <2>3, <2>4, <2>5, <2>6 DEF Local
<1>10. MetInv(r)'
  <2>1. Started(r)' >= 1
    <3>1. Object(job)
      BY <1>1, <1>3 DEF PlaceInv
    <3>2. rep[r] \in Nat \ {0}
      BY <1>3 DEF TypeInv
    <3> QED
      BY <1>3, <1>8, <3>1, <3>2, RepetitionsFollow DEF Started
  <2>2. Met(at[r])' = -1
    BY <1>5 DEF Met
  <2>3. Started(r) = 1
    <3>1. Object(job) /\ rep[r] = 1
      BY <1>1, <1>3 DEF PlaceInv
    <3>2. 1 \in Nat \ {0}
      OBVIOUS
    <3> QED
      BY <1>3, <3>1, <3>2, RepetitionsFollow DEF Started, Optional
  <2>4. \A s \in Ranks : Count(s)' >= Started(r)' + Met(at[r])'
    BY <1>5, <1>8, <2>2, <2>3 DEF CountsGrow
  <2> QED
    BY <1>5, <2>4 DEF MetInv
<1>11. Stored(r)' <= Stored(r) /\ Parts(r)' <= Parts(r)
  <2>1. Stored(r)' = 0 /\ Parts(r)' = 0
    BY <1>5 DEF Stored, Parts, Closed2
  <2> QED
    BY <1>3, <2>1
<1>12. at'[r] # "write"
  BY <1>5
<1> QED
  BY <1>1, <1>5, <1>6, <1>7, <1>9, <1>10, <1>11, <1>12, QuietStep

\* What a move keeps without more ado.
LEMMA MoveBasics ==
    ASSUME SensibleJobs, Good, NEW r \in Ranks, ahead[r] = << >>, NEW place \in Places,
           NEW ops \in Seq(Collectives), Moves(r, place, ops),
           rep' = [rep EXCEPT ![r] = rep'[r]], rep'[r] \in Nat \ {0},
           n' = [n EXCEPT ![r] = n'[r]], n'[r] \in Nat,
           h' = [h EXCEPT ![r] = h'[r]], h'[r] \in Handles,
           etags' = [etags EXCEPT ![r] = etags'[r]], etags'[r] \in Seq(Tokens),
           uploads' = [f \in Ranks |-> uploads'[f]], wrong' \in [Ranks -> BOOLEAN],
           Reads => Started(r)' + Due(job, place, n'[r]) = Started(r) + Due(job, at[r], n[r]) + Len(ops)
    PROVE  /\ TypeInv' /\ OthersStay(r) /\ CountsGrow /\ CountInv(r)'
           /\ at'[r] = place /\ ahead'[r] = ops /\ \A s \in Ranks : Count(s)' = Count(s)
           /\ LastOp(r)' = IF ops # << >> THEN ops[Len(ops)] ELSE LastOp(r)
<1>1. /\ TypeInv /\ CountInv(r) /\ Started(r) \in Nat /\ Due(job, at[r], n[r]) \in Int
  BY Before
<1>2. /\ at' \in [Ranks -> Places] /\ ahead' \in [Ranks -> Seq(Collectives)]
      /\ calls' \in CallsIn(Values) /\ CountsGrow
      /\ at'[r] = place /\ ahead'[r] = ops
      /\ \A s \in Ranks : Count(s)' = Count(s)
      /\ \A s \in Ranks \ {r} : at'[s] = at[s] /\ ahead'[s] = ahead[s] /\ calls'[s] = calls[s]
      /\ LastOp(r)' = IF ops # << >> THEN ops[Len(ops)] ELSE LastOp(r)
  BY <1>1, MovesCounts
<1>3. job' = job
  BY DEF Moves
<1>4. /\ rep' \in [Ranks -> Nat \ {0}] /\ n' \in [Ranks -> Nat] /\ h' \in [Ranks -> Handles]
      /\ etags' \in [Ranks -> Seq(Tokens)]
      /\ \A s \in Ranks \ {r} : rep'[s] = rep[s] /\ n'[s] = n[s] /\ h'[s] = h[s] /\ etags'[s] = etags[s]
  <2>1. /\ rep \in [Ranks -> Nat \ {0}] /\ n \in [Ranks -> Nat] /\ h \in [Ranks -> Handles]
        /\ etags \in [Ranks -> Seq(Tokens)]
    BY <1>1 DEF TypeInv
  <2>2. rep' \in [Ranks -> Nat \ {0}] /\ \A s \in Ranks \ {r} : rep'[s] = rep[s]
    BY <2>1
  <2>3. n' \in [Ranks -> Nat] /\ \A s \in Ranks \ {r} : n'[s] = n[s]
    BY <2>1
  <2>4. h' \in [Ranks -> Handles] /\ \A s \in Ranks \ {r} : h'[s] = h[s]
    BY <2>1
  <2>5. etags' \in [Ranks -> Seq(Tokens)] /\ \A s \in Ranks \ {r} : etags'[s] = etags[s]
    BY <2>1
  <2> QED
    BY <2>2, <2>3, <2>4, <2>5
<1>5. TypeInv'
  BY <1>1, <1>2, <1>3, <1>4 DEF TypeInv
<1>6. OthersStay(r)
  BY <1>2, <1>3, <1>4 DEF OthersStay
<1>7. CountInv(r)'
  <2>1. Started(r) \in Int
    BY <1>1
  <2> QED
    BY <1>1, <2>1, MovesAdd
<1> QED
  BY <1>2, <1>5, <1>6, <1>7

\* What is not changed is changed by nothing.
LEMMA NothingChanges ==
    ASSUME TypeInv, NEW r \in Ranks
    PROVE  /\ UNCHANGED rep => rep' = [rep EXCEPT ![r] = rep'[r]] /\ rep'[r] \in Nat \ {0}
           /\ UNCHANGED n => n' = [n EXCEPT ![r] = n'[r]] /\ n'[r] \in Nat
           /\ UNCHANGED h => h' = [h EXCEPT ![r] = h'[r]] /\ h'[r] \in Handles
           /\ UNCHANGED etags => etags' = [etags EXCEPT ![r] = etags'[r]] /\ etags'[r] \in Seq(Tokens)
           /\ UNCHANGED uploads => uploads' = [f \in Ranks |-> uploads'[f]]
           /\ UNCHANGED wrong => wrong' \in [Ranks -> BOOLEAN]
<1>1. UNCHANGED rep => rep' = [rep EXCEPT ![r] = rep'[r]] /\ rep'[r] \in Nat \ {0}
  BY DEF TypeInv
<1>2. UNCHANGED n => n' = [n EXCEPT ![r] = n'[r]] /\ n'[r] \in Nat
  BY DEF TypeInv
<1>3. UNCHANGED h => h' = [h EXCEPT ![r] = h'[r]] /\ h'[r] \in Handles
  BY DEF TypeInv
<1>4. UNCHANGED etags => etags' = [etags EXCEPT ![r] = etags'[r]] /\ etags'[r] \in Seq(Tokens)
  BY DEF TypeInv
<1>5. UNCHANGED uploads => uploads' = [f \in Ranks |-> uploads'[f]]
  <2>1. uploads = [f \in Ranks |-> uploads[f]]
    BY DEF TypeInv
  <2> QED
    BY <2>1
<1>6. UNCHANGED wrong => wrong' \in [Ranks -> BOOLEAN]
  BY DEF TypeInv
<1> QED
  BY <1>1, <1>2, <1>3, <1>4, <1>5, <1>6

\* A rank closes a file it has read.
LEMMA CloseReadStep ==
    ASSUME SensibleJobs, Good, NEW r \in Ranks, CloseRead(r)
    PROVE  Good'
<1> DEFINE pre == IF job.api \in {"S3", "EMC"} THEN << >> ELSE H5Fclose
           ops == pre \o <<"Barrier">>
<1>1. /\ at[r] = "close_read" /\ ahead[r] = << >> /\ Moves(r, "remove", ops)
      /\ UNCHANGED <<job, rep, n, files, h, uploads, etags, wrong>>
  BY DEF CloseRead, At, GoAfter, Go, Moves, loop, parts
<1>2. /\ job \in JobType /\ TypeInv /\ PlaceInv(r) /\ EtagInv(r) /\ HandleInv(r) /\ MetInv(r)
      /\ Started(r) \in Nat /\ n[r] \in Nat
      /\ Stored(r) \in Nat /\ Parts(r) \in Nat
  BY Before
<1>3. pre \in Seq(Collectives) /\ Len(pre) = ClosingRead(job) - 1
  <2>1. <<"Close">> \in Seq(Collectives) /\ Len(<<"Close">>) = 1 /\ << >> \in Seq(Collectives) /\ Len(<< >>) = 0
    BY OneOp, EmptySeq DEF Collectives, Synchronizing
  <2>2. CASE Object(job)
    BY <2>1, <2>2 DEF ClosingRead, Object
  <2>3. CASE ~Object(job)
    <3>1. pre = OnTestComm(<<"Close">>) /\ ClosingRead(job) = Optional(~job.filePerProc) + 1
      BY <2>3 DEF Object, ClosingRead, H5Fclose
    <3>2. /\ OnTestComm(<<"Close">>) \in Seq(Collectives)
          /\ ~job.filePerProc => OnTestComm(<<"Close">>) = <<"Close">>
          /\ job.filePerProc => Len(OnTestComm(<<"Close">>)) = 0
      BY <1>2, <2>1, IfShared
    <3> HIDE DEF pre
    <3>3. CASE job.filePerProc
      <4>1. ClosingRead(job) = 1 /\ Len(pre) = 0 /\ pre \in Seq(Collectives)
        BY <3>1, <3>2, <3>3 DEF Optional
      <4> QED
        BY <4>1
    <3>4. CASE ~job.filePerProc
      <4>1. ClosingRead(job) = 2
        BY <3>1, <3>4 DEF Optional
      <4>2. pre = <<"Close">>
        BY <3>1, <3>2, <3>4
      <4> QED
        BY <2>1, <4>1, <4>2
    <3> QED
      BY <3>3, <3>4
  <2> QED
    BY <2>2, <2>3
<1>4. /\ ops \in Seq(Collectives) /\ Len(ops) = ClosingRead(job) /\ ops # << >>
      /\ ops[Len(ops)] = "Barrier"
  <2>1. ClosingRead(job) \in Nat
    BY DEF ClosingRead, Optional
  <2> HIDE DEF pre
  <2> QED
    BY <1>3, <2>1, AndBarrier
<1> HIDE DEF ops, pre
<1>5. Reads => Started(r)' + Due(job, "remove", n'[r]) = Started(r) + Due(job, at[r], n[r]) + Len(ops)
  <2>1. Started(r)' = Started(r) /\ Due(job, at[r], n[r]) = AtCloseRead(job)
        /\ Due(job, "remove", n'[r]) = AtRemove(job)
    BY <1>1 DEF Started, Due
  <2>2. AtCloseRead(job) \in Nat /\ ClosingRead(job) \in Nat
    BY <1>2, PlacesInOrder DEF ClosingRead, Optional
  <2> QED
    BY <1>2, <1>4, <2>1, <2>2 DEF AtRemove
<1>6. "remove" \in Places
  BY DEF Places
<1>7. /\ TypeInv' /\ OthersStay(r) /\ CountsGrow /\ CountInv(r)'
      /\ at'[r] = "remove" /\ LastOp(r)' = "Barrier"
  BY <1>1, <1>2, <1>4, <1>5, <1>6, NothingChanges, MoveBasics
<1>8. Local(r)'
  <2>1. PlaceInv(r)'
    BY <1>1, <1>2, <1>7 DEF PlaceInv
  <2>2. LastInv(r)' /\ TellInv(r)'
    BY <1>7 DEF LastInv, TellInv
  <2>3. EtagInv(r)'
    BY <1>1, <1>2, <1>7 DEF EtagInv
  <2>4. HandleInv(r)'
    BY <1>7 DEF HandleInv, HDF5Inv, NCMPIInv
  <2> QED
    BY <1>7, <2>1, <2>2, <2>3, <2>4 DEF Local
<1>9. MetInv(r)'
  <2>1. Started(r)' = Started(r) /\ Met(at[r])' = Met(at[r]) /\ Reads' = Reads /\ Shared' = Shared
    BY <1>1, <1>7 DEF Started, Met, Reads, Shared
  <2>2. \A s \in Ranks : Count(s)' = Count(s)
    BY <1>1 DEF Moves, Count
  <2> QED
    BY <1>1, <1>2, <1>7, <2>1, <2>2 DEF MetInv
<1>10. Stored(r)' <= Stored(r) /\ Parts(r)' <= Parts(r)
  <2>1. Stored(r)' = Stored(r) /\ Parts(r)' = Parts(r)
    BY <1>1, <1>7 DEF Stored, Parts, Closed2, Reads
  <2> QED
    BY <1>2, <2>1
<1>11. at'[r] # "write"
  BY <1>7
<1> QED
  BY <1>1, <1>7, <1>8, <1>9, <1>10, <1>11, QuietStep

\* The collectives of closing.
LEMMA CloseCalls ==
    ASSUME NEW op \in Collectives, job \in JobType
    PROVE  LET ops == OnTestComm(<<op>>) \o <<"Barrier">>
           IN /\ ops \in Seq(Collectives) /\ Len(ops) = Optional(~job.filePerProc) + 1
              /\ ops # << >> /\ ops[Len(ops)] = "Barrier"
<1> DEFINE pre == OnTestComm(<<op>>)
<1>1. <<op>> \in Seq(Collectives) /\ Len(<<op>>) = 1
  BY OneOp
<1>2. pre \in Seq(Collectives) /\ (~job.filePerProc => pre = <<op>>) /\ (job.filePerProc => Len(pre) = 0)
  BY <1>1, IfShared
<1> HIDE DEF pre
<1>3. Len(pre) = Optional(~job.filePerProc)
  BY <1>1, <1>2 DEF Optional
<1>4. /\ pre \o <<"Barrier">> \in Seq(Collectives)
      /\ Len(pre \o <<"Barrier">>) = Len(pre) + 1
      /\ pre \o <<"Barrier">> # << >>
      /\ (pre \o <<"Barrier">>)[Len(pre \o <<"Barrier">>)] = "Barrier"
  BY <1>2, AndBarrier
<1> QED
  BY <1>3, <1>4 DEF pre

\* A rank closes the file it has written; not an object of S3.
LEMMA CloseStep ==
    ASSUME SensibleJobs, Good, NEW r \in Ranks, close(r), job.api # "S3"
    PROVE  Good'
<1> DEFINE op == IF job.api = "EMC" THEN "Barrier" ELSE "Close"
           ops == OnTestComm(<<op>>) \o <<"Barrier">>
           place == Closed(r)
<1>1. /\ at[r] = "close" /\ ahead[r] = << >> /\ Moves(r, place, ops)
      /\ UNCHANGED <<job, rep, n, files, h, uploads, etags, wrong>>
  <2>1. /\ at[r] = "close" /\ ahead[r] = << >> /\ GoAfter(r, ops, place)
        /\ UNCHANGED <<job, rep, n, files, h, uploads, etags, wrong>>
    BY DEF close, At, H5Fclose, EMC_Close, loop, parts
  <2> QED
    BY <2>1 DEF GoAfter, Go, Moves
<1>2. /\ job \in JobType /\ TypeInv /\ PlaceInv(r) /\ HandleInv(r) /\ MetInv(r)
      /\ Started(r) \in Nat /\ n[r] \in Nat
      /\ Stored(r) \in Nat /\ Parts(r) \in Nat /\ Total(job) \in Nat
  BY Before
<1>3. /\ ops \in Seq(Collectives) /\ Len(ops) = Optional(~job.filePerProc) + 1 /\ ops # << >>
      /\ ops[Len(ops)] = "Barrier"
  <2>1. op \in Collectives
    BY DEF Collectives, Synchronizing
  <2> HIDE DEF op
  <2> QED
    BY <1>2, <2>1, CloseCalls
<1>4. place = IF Reads THEN "open" ELSE "remove"
  BY DEF Closed, Reads
<1> HIDE DEF ops, op, place
<1>5. Reads => Started(r)' + Due(job, place, n'[r]) = Started(r) + Due(job, at[r], n[r]) + Len(ops)
  <2> SUFFICES ASSUME Reads
               PROVE  Started(r)' + Due(job, place, n'[r]) = Started(r) + Due(job, at[r], n[r]) + Len(ops)
    OBVIOUS
  <2>1. place = "open"
    BY <1>4
  <2>2. Started(r)' = Started(r) /\ Due(job, at[r], n[r]) = AtClose(job)
        /\ Due(job, place, n'[r]) = AtOpen(job)
    BY <1>1, <2>1 DEF Started, Due
  <2>3. AtClose(job) \in Nat /\ Len(ops) = Closing(job) /\ Closing(job) \in Nat
    BY <1>2, <1>3, PlacesInOrder DEF Closing, Uploads, Optional
  <2> QED
    BY <1>2, <2>2, <2>3 DEF AtOpen
<1>6. place \in Places
  BY <1>4 DEF Places
<1>7. /\ TypeInv' /\ OthersStay(r) /\ CountsGrow /\ CountInv(r)'
      /\ at'[r] = place /\ LastOp(r)' = "Barrier" /\ \A s \in Ranks : Count(s)' = Count(s)
  BY <1>1, <1>2, <1>3, <1>5, <1>6, NothingChanges, MoveBasics
<1>8. Reads' = Reads /\ Shared' = Shared /\ Started(r)' = Started(r)
  BY <1>1 DEF Reads, Shared, Started
<1>9. Local(r)'
  <2>1. PlaceInv(r)'
    BY <1>1, <1>2, <1>4, <1>7, <1>8 DEF PlaceInv
  <2>2. LastInv(r)' /\ TellInv(r)' /\ EtagInv(r)'
    <3>1. job'.api # "S3" /\ ~Uploads(job)'
      BY <1>1 DEF Uploads
    <3> QED
      BY <1>4, <1>7, <3>1 DEF LastInv, TellInv, EtagInv
  <2>3. HandleInv(r)'
    <3>1. HDF5Inv(r)'
      BY <1>4, <1>7 DEF HDF5Inv
    <3>2. ASSUME job.api = "NCMPI" PROVE NCMPIInv(r)'
      <4>1. NCMPIInv(r)
        BY <1>2, <3>2 DEF HandleInv
      <4>2. CASE Reads
        <5>1. at[r] = "close" /\ at'[r] = "open" /\ h' = h /\ job' = job /\ n' = n
          BY <1>1, <1>4, <1>7, <4>2
        <5> QED
          BY <1>8, <4>1, <4>2, <5>1 DEF NCMPIInv, S, T
      <4>3. CASE ~Reads
        BY <1>4, <1>7, <1>8, <4>3 DEF NCMPIInv
      <4> QED
        BY <4>2, <4>3
    <3> QED
      BY <1>1, <3>1, <3>2 DEF HandleInv
  <2> QED
    BY <1>7, <2>1, <2>2, <2>3 DEF Local
<1>10. MetInv(r)'
  <2> SUFFICES ASSUME Reads PROVE MetInv(r)'
    BY <1>8 DEF MetInv
  <2>1. at'[r] = "open" /\ Met(at[r])' = 0 /\ Met(at[r]) = 0
    BY <1>1, <1>4, <1>7 DEF Met
  <2> QED
    BY <1>1, <1>2, <1>7, <1>8, <2>1 DEF MetInv
<1>11. Stored(r)' <= Stored(r) /\ Parts(r)' <= Parts(r)
  <2>1. Stored(r)' = Stored(r)
    BY <1>1, <1>4, <1>7 DEF Stored, Closed2
  <2>2. Parts(r) = n[r] /\ Parts(r)' = IF Reads THEN Total(job) ELSE 0
    BY <1>1, <1>4, <1>7, <1>8 DEF Parts, Closed2
  <2>3. Reads => n[r] = Total(job)
    BY <1>1, <1>2 DEF PlaceInv
  <2> QED
    BY <1>2, <2>1, <2>2, <2>3
<1>12. at'[r] # "write"
  BY <1>4, <1>7
<1> QED
  BY <1>1, <1>7, <1>9, <1>10, <1>11, <1>12, QuietStep

\* A rank calls a collective with a value.
LEMMA SendBasics ==
    ASSUME SensibleJobs, Good, NEW r \in Ranks, ahead[r] = << >>, NEW place \in Places,
           NEW op \in Collectives, NEW value \in Values, Send(r, op, value),
           Go(r, place), UNCHANGED <<job, ahead, rep, n, files, h, uploads, etags, wrong>>
    PROVE  /\ TypeInv' /\ OthersStay(r) /\ CountsGrow /\ at'[r] = place /\ ahead'[r] = << >>
           /\ Count(r)' = Count(r) + 1 /\ calls'[r][Count(r) + 1] = [op |-> op, value |-> value]
           /\ \A k \in 1..Count(r) : calls'[r][k] = calls[r][k]
           /\ LastOp(r)' = op /\ Pledged(r)' = Pledged(r) + 1
<1>1. TypeInv /\ Count(r) \in Nat /\ calls \in CallsIn(Values)
  BY Before DEF TypeInv
<1>2. /\ calls' \in CallsIn(Values) /\ Count(r)' = Count(r) + 1
      /\ calls'[r][Count(r) + 1] = [op |-> op, value |-> value]
      /\ \A k \in 1..Count(r) : calls'[r][k] = calls[r][k]
      /\ \A s \in Ranks \ {r} : calls'[s] = calls[s] /\ Count(s)' = Count(s)
  BY <1>1, SendStep
<1>3. at' \in [Ranks -> Places] /\ at'[r] = place /\ \A s \in Ranks \ {r} : at'[s] = at[s]
  BY <1>1 DEF TypeInv, Go
<1>4. ahead'[r] = << >>
  OBVIOUS
<1>5. TypeInv'
  BY <1>1, <1>2, <1>3 DEF TypeInv
<1>6. OthersStay(r)
  BY <1>2, <1>3 DEF OthersStay
<1>7. CountsGrow
  <2>1. \A s \in Ranks : Count(s) \in Nat
    BY <1>1, PledgedIsNat
  <2> QED
    BY <1>2, <2>1 DEF CountsGrow
<1>8. LastOp(r)' = op
  <2>1. LastOp(r)' = calls'[r][Count(r) + 1].op
    BY <1>1, <1>2, <1>4 DEF LastOp
  <2> QED
    BY <1>2, <2>1
<1>9. Pledged(r)' = Pledged(r) + 1
  <2>1. Pledged(r) = Count(r) + Len(<< >>) /\ Pledged(r)' = Count(r)' + Len(<< >>)
    BY <1>4 DEF Pledged
  <2>2. Len(<< >>) = 0
    BY EmptySeq
  <2> QED
    BY <1>1, <1>2, <2>1, <2>2
<1> QED
  BY <1>2, <1>3, <1>4, <1>5, <1>6, <1>7, <1>8, <1>9

\* The etags are as many as the transfers.
LEMMA EtagsAre ==
    ASSUME job \in JobType, NEW r \in Ranks, NEW k \in Nat
    PROVE  /\ Etags(r, k) \in Seq(Tokens) /\ Len(Etags(r, k)) = k
           /\ \A i \in 1..k : Etags(r, k)[i] = Tok(job, r, i - 1)
           /\ \A i \in Nat : Tok(job, r, i) \in Tokens
<1>1. \A i \in Nat : Tok(job, r, i) \in Tokens
  BY OffsetTells DEF Tok, Tokens
<1> DEFINE e == Etags(r, k)
<1>2. e = [i \in 1..k |-> Tok(job, r, i - 1)]
  BY DEF Etags
<1>3. \A i \in 1..k : i - 1 \in Nat
  OBVIOUS
<1>4. e \in [1..k -> Tokens]
  BY <1>1, <1>2, <1>3
<1> HIDE DEF e
<1>5. e \in Seq(Tokens) /\ Len(e) = k
  BY <1>4
<1>6. \A i \in 1..k : e[i] = Tok(job, r, i - 1)
  BY <1>2
<1> QED
  BY <1>1, <1>5, <1>6 DEF e

\* A rank tells how many parts it has.
LEMMA CountStep ==
    ASSUME SensibleJobs, Good, NEW r \in Ranks, close(r), job.api = "S3", Shared
    PROVE  Good'
<1> DEFINE v == Len(etags[r])
<1>1. /\ at[r] = "close" /\ ahead[r] = << >> /\ Send(r, "Allreduce", v) /\ Go(r, "count")
      /\ UNCHANGED <<job, ahead, rep, n, files, h, uploads, etags, wrong>>
  BY DEF close, At, S3_Close, loop, parts, Shared
<1>2. /\ job \in JobType /\ TypeInv /\ PlaceInv(r) /\ CountInv(r) /\ EtagInv(r) /\ MetInv(r)
      /\ Started(r) \in Nat /\ n[r] \in Nat /\ Count(r) \in Nat
      /\ Stored(r) \in Nat /\ Parts(r) \in Nat /\ Total(job) \in Nat
  BY Before
<1>3. v = n[r]
  <2>1. etags[r] = Etags(r, n[r])
    BY <1>1, <1>2 DEF EtagInv
  <2> QED
    BY <1>2, <2>1, EtagsAre
<1>4. v \in Values /\ "Allreduce" \in Collectives /\ "count" \in Places
  BY <1>2, <1>3 DEF Values, Collectives, Synchronizing, Places
<1> HIDE DEF v
<1>5. /\ TypeInv' /\ OthersStay(r) /\ CountsGrow /\ at'[r] = "count" /\ ahead'[r] = << >>
      /\ Count(r)' = Count(r) + 1 /\ calls'[r][Count(r) + 1] = [op |-> "Allreduce", value |-> v]
      /\ LastOp(r)' = "Allreduce" /\ Pledged(r)' = Pledged(r) + 1
  BY <1>1, <1>4, SendBasics
<1>6. Reads' = Reads /\ Shared' = Shared /\ Started(r)' = Started(r) /\ Uploads(job)
  BY <1>1 DEF Reads, Shared, Started, Uploads
<1>7. AtClose(job) \in Nat
  BY <1>2, PlacesInOrder
<1>8. Pledged(r) = Count(r)
  BY <1>1, <1>2, EmptySeq DEF Pledged
<1>9. Reads => Pledged(r) = Started(r) + AtClose(job)
  BY <1>1, <1>2 DEF CountInv, Due
<1>10. Local(r)'
  <2>1. PlaceInv(r)'
    BY <1>1, <1>2, <1>5, <1>6 DEF PlaceInv
  <2>2. CountInv(r)'
    <3>1. Due(job, "count", n[r]) = AtClose(job) + 1
      BY DEF Due
    <3>2. Reads => Pledged(r)' = Started(r) + Due(job, "count", n[r])
      BY <1>2, <1>5, <1>7, <1>9, <3>1
    <3> QED
      BY <1>1, <1>5, <1>6, <3>2 DEF CountInv
  <2>3. LastInv(r)'
    BY <1>5 DEF LastInv
  <2>4. EtagInv(r)'
    <3>1. Etags(r, n[r])' = Etags(r, n[r])
      BY <1>1 DEF Etags
    <3> QED
      BY <1>1, <1>2, <1>5, <3>1 DEF EtagInv
  <2>5. TellInv(r)'
    <3> SUFFICES ASSUME Reads PROVE TellInv(r)'
      BY <1>6 DEF TellInv
    <3> DEFINE k == Started(r) + AtClose(job) + 1
    <3>1. k = Count(r) + 1
      BY <1>2, <1>7, <1>8, <1>9
    <3>2. n[r] = Total(job)
      BY <1>1, <1>2 DEF PlaceInv
    <3>3. calls'[r][k].value = Total(job) /\ Count(r)' >= k
      BY <1>2, <1>3, <1>5, <3>1, <3>2
    <3> QED
      BY <1>1, <1>5, <1>6, <3>3 DEF TellInv
  <2>6. HandleInv(r)'
    BY <1>1, <1>6 DEF HandleInv, Uploads
  <2> QED
    BY <2>1, <2>2, <2>3, <2>4, <2>5, <2>6 DEF Local
<1>11. MetInv(r)'
  <2> SUFFICES ASSUME Reads PROVE MetInv(r)'
    BY <1>6 DEF MetInv
  <2>1. at'[r] = "count" /\ Met(at[r])' = 0 /\ Met(at[r]) = 0
    BY <1>1, <1>5 DEF Met
  <2>2. \A s \in Ranks : Count(s) \in Nat /\ Count(s)' \in Nat /\ Count(s)' >= Count(s)
    BY <1>2, <1>5, PledgedIsNat DEF CountsGrow
  <2>3. \A s \in Ranks : Count(s)' >= Started(r) + 0
    <3>1. \A s \in Ranks : Count(s) >= Started(r) + 0
      BY <1>1, <1>2, <2>1 DEF MetInv
    <3> QED
      BY <1>2, <2>2, <3>1
  <2>4. ASSUME NEW s \in Ranks, s = 0 PROVE Count(s)' >= Started(r) + 1
    <3>1. Count(s) >= Started(r) + 1
      BY <1>1, <1>2, <2>4 DEF MetInv
    <3> QED
      BY <1>2, <2>2, <3>1
  <2> QED
    BY <1>1, <1>5, <1>6, <2>1, <2>3, <2>4 DEF MetInv
<1>12. Stored(r)' <= Stored(r) /\ Parts(r)' <= Parts(r)
  <2>1. Stored(r)' = 0
    BY <1>1, <1>5 DEF Stored, Closed2
  <2>2. Parts(r)' = Parts(r)
    BY <1>1, <1>5 DEF Parts
  <2> QED
    BY <1>2, <2>1, <2>2
<1>13. at'[r] # "write"
  BY <1>5
<1> QED
  BY <1>1, <1>5, <1>10, <1>11, <1>12, <1>13, QuietStep

\* A rank gives its etags.
LEMMA GatherStep ==
    ASSUME SensibleJobs, Good, NEW r \in Ranks, Gather(r), ~stopped'
    PROVE  Good'
<1> DEFINE v == etags[r]
<1>1. /\ at[r] = "count" /\ ahead[r] = << >> /\ Ready(r) /\ Send(r, "Gather", v) /\ Go(r, "complete")
      /\ UNCHANGED <<job, ahead, rep, n, files, h, uploads, etags, wrong>>
  BY DEF Gather, At, ERR, loop, parts
<1>2. /\ job \in JobType /\ TypeInv /\ PlaceInv(r) /\ CountInv(r) /\ EtagInv(r) /\ MetInv(r)
      /\ LastInv(r) /\ TellInv(r)
      /\ Started(r) \in Nat /\ n[r] \in Nat /\ Count(r) \in Nat
      /\ Stored(r) \in Nat /\ Parts(r) \in Nat /\ Total(job) \in Nat
  BY Before
<1>3. v \in Values /\ "Gather" \in Collectives /\ "complete" \in Places
  BY <1>2 DEF Values, Collectives, Places, TypeInv
<1> HIDE DEF v
<1>4. /\ TypeInv' /\ OthersStay(r) /\ CountsGrow /\ at'[r] = "complete" /\ ahead'[r] = << >>
      /\ Count(r)' = Count(r) + 1 /\ calls'[r][Count(r) + 1] = [op |-> "Gather", value |-> v]
      /\ \A k \in 1..Count(r) : calls'[r][k] = calls[r][k]
      /\ LastOp(r)' = "Gather" /\ Pledged(r)' = Pledged(r) + 1
  BY <1>1, <1>3, SendBasics
<1>5. Reads' = Reads /\ Shared' = Shared /\ Started(r)' = Started(r) /\ Uploads(job)
  BY <1>1, <1>2 DEF Reads, Shared, Started, PlaceInv
<1>6. AtClose(job) \in Nat
  BY <1>2, PlacesInOrder
<1>7. Pledged(r) = Count(r)
  BY <1>1, <1>2, EmptySeq DEF Pledged
<1>8. Reads => Pledged(r) = Started(r) + AtClose(job) + 1
  <2>1. Due(job, at[r], n[r]) = AtClose(job) + 1
    BY <1>1 DEF Due
  <2> QED
    BY <1>2, <1>6, <2>1 DEF CountInv
<1>9. Local(r)'
  <2>1. PlaceInv(r)'
    BY <1>1, <1>2, <1>4, <1>5 DEF PlaceInv
  <2>2. CountInv(r)'
    <3>1. Due(job, "complete", n[r]) = AtClose(job) + 2
      BY DEF Due
    <3>2. Reads => Pledged(r)' = Started(r) + Due(job, "complete", n[r])
      BY <1>2, <1>4, <1>6, <1>8, <3>1
    <3> QED
      BY <1>1, <1>4, <1>5, <3>2 DEF CountInv
  <2>3. LastInv(r)'
    BY <1>4 DEF LastInv
  <2>4. EtagInv(r)'
    <3>1. Etags(r, n[r])' = Etags(r, n[r])
      BY <1>1 DEF Etags
    <3> QED
      BY <1>1, <1>2, <1>4, <3>1 DEF EtagInv
  <2>5. TellInv(r)'
    <3> SUFFICES ASSUME Reads PROVE TellInv(r)'
      BY <1>5 DEF TellInv
    <3> DEFINE k == Started(r) + AtClose(job) + 1
               m == Started(r) + AtClose(job) + 2
    <3>1. k = Count(r) /\ m = Count(r) + 1 /\ k \in 1..Count(r)
      BY <1>2, <1>6, <1>7, <1>8
    <3>2. n[r] = Total(job)
      BY <1>1, <1>2 DEF PlaceInv
    <3>3. calls[r][k].value = Total(job)
      BY <1>1, <1>2, <1>5 DEF TellInv
    <3>4. calls'[r][k].value = Total(job) /\ Count(r)' >= k
      BY <1>2, <1>4, <3>1, <3>3
    <3>5. v = Etags(r, Total(job))
      BY <1>1, <1>2, <1>5, <3>2 DEF EtagInv, Uploads, v
    <3>6. calls'[r][m].value = Etags(r, Total(job)) /\ Count(r)' >= m
      BY <1>2, <1>4, <3>1, <3>5
    <3>7. Etags(r, Total(job))' = Etags(r, Total(job))
      BY <1>1 DEF Etags
    <3> QED
      BY <1>1, <1>4, <1>5, <3>4, <3>6, <3>7 DEF TellInv
  <2>6. HandleInv(r)'
    BY <1>1, <1>5 DEF HandleInv, Uploads
  <2> QED
    BY <2>1, <2>2, <2>3, <2>4, <2>5, <2>6 DEF Local
<1>10. MetInv(r)'
  <2> SUFFICES ASSUME Reads PROVE MetInv(r)'
    BY <1>5 DEF MetInv
  <2>1. at'[r] = "complete" /\ Met(at[r])' = AtClose(job) + 1
    BY <1>1, <1>4 DEF Met
  <2>2. \A s \in Ranks : Count(s) \in Nat /\ Count(s)' \in Nat /\ Count(s)' >= Count(s)
    BY <1>2, <1>4, PledgedIsNat DEF CountsGrow
  <2>3. \A s \in Ranks : Count(s)' >= Started(r) + (AtClose(job) + 1)
    <3>1. LastOp(r) \in Synchronizing
      BY <1>1, <1>2 DEF LastInv, Synchronizing
    <3>2. \A s \in Ranks : Count(s) >= Count(r)
      BY <1>1, <1>2, <3>1, AllMet
    <3> QED
      BY <1>2, <1>6, <1>7, <1>8, <2>2, <3>2
  <2>4. \A s \in Ranks : Count(s)' >= Started(r) + 1
    BY <1>2, <1>6, <2>2, <2>3
  <2> QED
    BY <1>5, <2>1, <2>3, <2>4 DEF MetInv
<1>11. Stored(r)' <= Stored(r) /\ Parts(r)' <= Parts(r)
  <2>1. Stored(r)' = 0
    BY <1>1, <1>4 DEF Stored, Closed2
  <2>2. Parts(r)' = Parts(r)
    BY <1>1, <1>4 DEF Parts
  <2> QED
    BY <1>2, <2>1, <2>2
<1>12. at'[r] # "write"
  BY <1>4
<1> QED
  BY <1>1, <1>4, <1>9, <1>10, <1>11, <1>12, QuietStep

\* The collectives of creating and opening.
LEMMA OpenSeq ==
    ASSUME NEW q \in Seq(Collectives), q # << >>, job \in JobType
    PROVE  LET ops == OnTestComm(q) \o Barriers
           IN /\ ops \in Seq(Collectives)
              /\ Len(ops) = (IF job.filePerProc THEN 0 ELSE Len(q)) + Optional(job.intraTestBarriers)
              /\ ~job.filePerProc => ops # << >> /\ ops[Len(ops)] \in {q[Len(q)], "Barrier"}
<1> DEFINE pre == OnTestComm(q)
           ops == pre \o Barriers
<1>1. /\ pre \in Seq(Collectives) /\ (~job.filePerProc => pre = q)
      /\ (job.filePerProc => Len(pre) = 0)
  BY IfShared
<1> HIDE DEF pre
<1>2. /\ ops \in Seq(Collectives) /\ Len(ops) = Len(pre) + Optional(job.intraTestBarriers)
      /\ job.intraTestBarriers => ops # << >> /\ ops[Len(ops)] = "Barrier"
      /\ ~job.intraTestBarriers => ops = pre
  BY <1>1, AndBarriers
<1> HIDE DEF ops
<1>3. Len(ops) = (IF job.filePerProc THEN 0 ELSE Len(q)) + Optional(job.intraTestBarriers)
  BY <1>1, <1>2
<1>4. ~job.filePerProc => ops # << >> /\ ops[Len(ops)] \in {q[Len(q)], "Barrier"}
  BY <1>1, <1>2
<1> QED
  BY <1>2, <1>3, <1>4 DEF ops, pre

\* What opening does in the libraries.
Opens(r, place) ==
    \/ job.api = "HDF5" /\ HDF5_Open(r, place)
    \/ job.api = "NCMPI" /\ NCMPI_Open(r, place)
    \/ job.api \in {"VIEW", "STRIDED"} /\ MPIIO_Open(r, place)

\* What each library does to the handle when it opens the file, and what it calls.
LEMMA OpensMeans ==
    ASSUME SensibleJobs, Good, NEW r \in Ranks, NEW place \in {"write", "read"}, Opens(r, place)
    PROVE  /\ h' = [h EXCEPT ![r] = h'[r]] /\ h'[r] \in Handles
           /\ job.api = "HDF5" => h'[r].newlyOpened
           /\ job.api = "NCMPI" => /\ h'[r].defined <=> place = "read"
                                   /\ ~h'[r].indep /\ h'[r].firstReadCheck = h[r].firstReadCheck
           /\ ~Object(job) /\ job.api # "EMC"
           /\ \E ops \in Seq(Collectives) :
                 /\ GoAfter(r, ops, place) /\ Len(ops) = ToWrite(job)
                 /\ Shared => ops # << >> /\ ops[Len(ops)] \in Synchronizing
<1>1. /\ job \in JobType /\ ValidateTests(job) /\ TypeInv
  BY Before
<1>2. h \in [Ranks -> Handles] /\ h[r] \in Handles
  BY <1>1 DEF TypeInv
<1>3. /\ <<"Open">> \in Seq(Collectives) /\ Len(<<"Open">>) = 1 /\ <<"Open">>[1] = "Open" /\ <<"Open">> # << >>
      /\ <<"Open", "SetView">> \in Seq(Collectives) /\ Len(<<"Open", "SetView">>) = 2
      /\ <<"Open", "SetView">>[2] = "SetView" /\ <<"Open", "SetView">> # << >>
  <2>1. "Open" \in Collectives /\ "SetView" \in Collectives
    BY DEF Collectives, Synchronizing
  <2> QED
    BY <2>1
<1>4. job.api # "VIEW" /\ job.api # "EMC" => ToWrite(job) = Optional(~job.filePerProc) + Optional(job.intraTestBarriers)
  BY DEF ToWrite, Optional
<1>5. job.api = "VIEW" => ToWrite(job) = Optional(~job.filePerProc) + Optional(~job.filePerProc)
                                         + Optional(job.intraTestBarriers)
  BY DEF ToWrite, Optional
<1>6. ASSUME NEW q \in {<<"Open">>, <<"Open", "SetView">>}
      PROVE  LET ops == OnTestComm(q) \o Barriers
             IN /\ ops \in Seq(Collectives)
                /\ Len(ops) = (IF job.filePerProc THEN 0 ELSE Len(q)) + Optional(job.intraTestBarriers)
                /\ Shared => ops # << >> /\ ops[Len(ops)] \in Synchronizing
  <2> DEFINE ops == OnTestComm(q) \o Barriers
  <2>1. q \in Seq(Collectives) /\ q # << >> /\ q[Len(q)] \in {"Open", "SetView"}
    BY <1>3
  <2>2. /\ ops \in Seq(Collectives)
        /\ Len(ops) = (IF job.filePerProc THEN 0 ELSE Len(q)) + Optional(job.intraTestBarriers)
        /\ ~job.filePerProc => ops # << >> /\ ops[Len(ops)] \in {q[Len(q)], "Barrier"}
    BY <1>1, <2>1, OpenSeq
  <2> HIDE DEF ops
  <2>3. Shared => ops # << >> /\ ops[Len(ops)] \in Synchronizing
    BY <2>1, <2>2 DEF Shared, Synchronizing
  <2> QED
    BY <2>2, <2>3 DEF ops
<1>7. Optional(job.intraTestBarriers) \in Nat
  BY DEF Optional
<1>8. CASE job.api = "HDF5" /\ HDF5_Open(r, place)
  <2> DEFINE ops == OnTestComm(<<"Open">>) \o Barriers
  <2>1. PICK garbage \in BOOLEAN :
          h' = [h EXCEPT ![r] = [NoHandle EXCEPT !.newlyOpened = TRUE,
                                                 !.suffix = h[r].suffix,
                                                 !.firstReadCheck = garbage]]
    BY <1>8 DEF HDF5_Open
  <2> DEFINE new == [NoHandle EXCEPT !.newlyOpened = TRUE, !.suffix = h[r].suffix,
                                     !.firstReadCheck = garbage]
  <2>2. new \in Handles /\ new.newlyOpened
    BY <1>2 DEF Handles, NoHandle
  <2> HIDE DEF new
  <2>3. h' = [h EXCEPT ![r] = new] /\ h'[r] = new
    BY <1>2, <2>1 DEF new
  <2>4. GoAfter(r, ops, place)
    BY <1>8 DEF HDF5_Open
  <2>5. /\ ops \in Seq(Collectives)
        /\ Len(ops) = (IF job.filePerProc THEN 0 ELSE 1) + Optional(job.intraTestBarriers)
        /\ Shared => ops # << >> /\ ops[Len(ops)] \in Synchronizing
    BY <1>3, <1>6
  <2> HIDE DEF ops
  <2>6. Len(ops) = ToWrite(job)
    BY <1>4, <1>7, <1>8, <2>5 DEF Optional
  <2>7. ~Object(job) /\ job.api # "EMC" /\ job.api # "NCMPI"
    BY <1>8 DEF Object
  <2>8. \E o \in Seq(Collectives) :
           /\ GoAfter(r, o, place) /\ Len(o) = ToWrite(job)
           /\ Shared => o # << >> /\ o[Len(o)] \in Synchronizing
    BY <2>4, <2>5, <2>6
  <2> QED
    BY <2>2, <2>3, <2>7, <2>8
<1>9. CASE job.api = "NCMPI" /\ NCMPI_Open(r, place)
  <2> DEFINE ops == OnTestComm(<<"Open">>) \o Barriers
             new == [h[r] EXCEPT !.defined = (place = "read"), !.indep = FALSE]
  <2>1. h' = [h EXCEPT ![r] = new]
    BY <1>2, <1>9 DEF NCMPI_Open
  <2>2. new \in Handles /\ (new.defined <=> place = "read") /\ ~new.indep
        /\ new.firstReadCheck = h[r].firstReadCheck
    BY <1>2 DEF Handles
  <2> HIDE DEF new
  <2>3. h'[r] = new
    BY <1>2, <2>1
  <2>4. GoAfter(r, ops, place) /\ ~job.filePerProc
    BY <1>1, <1>9 DEF NCMPI_Open, OnTestComm, ValidateTests
  <2>5. /\ ops \in Seq(Collectives)
        /\ Len(ops) = (IF job.filePerProc THEN 0 ELSE 1) + Optional(job.intraTestBarriers)
        /\ Shared => ops # << >> /\ ops[Len(ops)] \in Synchronizing
    BY <1>3, <1>6
  <2> HIDE DEF ops
  <2>6. Len(ops) = ToWrite(job)
    BY <1>4, <1>7, <1>9, <2>5 DEF Optional
  <2>7. ~Object(job) /\ job.api # "EMC" /\ job.api # "HDF5"
    BY <1>9 DEF Object
  <2>8. \E o \in Seq(Collectives) :
           /\ GoAfter(r, o, place) /\ Len(o) = ToWrite(job)
           /\ Shared => o # << >> /\ o[Len(o)] \in Synchronizing
    BY <2>4, <2>5, <2>6
  <2> QED
    BY <2>1, <2>2, <2>3, <2>7, <2>8
<1>10. CASE job.api \in {"VIEW", "STRIDED"} /\ MPIIO_Open(r, place)
  <2> DEFINE q == IF job.api = "VIEW" THEN <<"Open", "SetView">> ELSE <<"Open">>
             ops == OnTestComm(q) \o Barriers
  <2>1. GoAfter(r, ops, place) /\ h' = h
    BY <1>10 DEF MPIIO_Open
  <2>2. h' = [h EXCEPT ![r] = h'[r]] /\ h'[r] \in Handles
    BY <1>2, <2>1
  <2>3. q \in {<<"Open">>, <<"Open", "SetView">>} /\ Len(q) = IF job.api = "VIEW" THEN 2 ELSE 1
    BY <1>3
  <2> HIDE DEF q
  <2>4. /\ ops \in Seq(Collectives)
        /\ Len(ops) = (IF job.filePerProc THEN 0 ELSE Len(q)) + Optional(job.intraTestBarriers)
        /\ Shared => ops # << >> /\ ops[Len(ops)] \in Synchronizing
    BY <1>6, <2>3
  <2> HIDE DEF ops
  <2>5. Len(ops) = ToWrite(job)
    <3>1. CASE job.api = "VIEW"
      BY <1>5, <1>7, <2>3, <2>4, <3>1 DEF Optional
    <3>2. CASE job.api = "STRIDED"
      BY <1>4, <1>7, <2>3, <2>4, <3>2 DEF Optional
    <3> QED
      BY <1>10, <3>1, <3>2
  <2>6. ~Object(job) /\ job.api # "EMC" /\ job.api # "HDF5" /\ job.api # "NCMPI"
    BY <1>10 DEF Object
  <2>7. \E o \in Seq(Collectives) :
           /\ GoAfter(r, o, place) /\ Len(o) = ToWrite(job)
           /\ Shared => o # << >> /\ o[Len(o)] \in Synchronizing
    BY <2>1, <2>4, <2>5
  <2> QED
    BY <2>2, <2>6, <2>7
<1> QED
  BY <1>8, <1>9, <1>10 DEF Opens

\* A rank opens a file to read it.
LEMMA OpenStep ==
    ASSUME SensibleJobs, Good, NEW r \in Ranks, open(r)
    PROVE  Good'
<1>1. /\ at[r] = "open" /\ ahead[r] = << >> /\ Ready(r)
      /\ n' = [n EXCEPT ![r] = 0]
      /\ UNCHANGED <<job, rep, files, uploads, etags, wrong>>
      /\ Opens(r, "read") \/ (Object(job) /\ S3_Open(r))
  BY DEF open, At, loop, parts, Opens, Object
<1>2. /\ job \in JobType /\ TypeInv /\ PlaceInv(r) /\ CountInv(r) /\ EtagInv(r) /\ MetInv(r)
      /\ LastInv(r) /\ HandleInv(r)
      /\ Started(r) \in Nat /\ n[r] \in Nat /\ Count(r) \in Nat
      /\ Stored(r) \in Nat /\ Parts(r) \in Nat /\ Total(job) \in Nat
  BY Before
<1>3. /\ h' = [h EXCEPT ![r] = h'[r]] /\ h'[r] \in Handles
      /\ job.api = "HDF5" => h'[r].newlyOpened
      /\ job.api = "NCMPI" => ~h'[r].indep /\ h'[r].firstReadCheck = h[r].firstReadCheck
      /\ \E ops \in Seq(Collectives) : GoAfter(r, ops, "read") /\ Len(ops) = ToRead(job)
  <2>1. CASE Opens(r, "read")
    <3>1. /\ h' = [h EXCEPT ![r] = h'[r]] /\ h'[r] \in Handles
          /\ job.api = "HDF5" => h'[r].newlyOpened
          /\ job.api = "NCMPI" => ~h'[r].indep /\ h'[r].firstReadCheck = h[r].firstReadCheck
          /\ ~Object(job)
          /\ \E ops \in Seq(Collectives) : GoAfter(r, ops, "read") /\ Len(ops) = ToWrite(job)
      BY <2>1, OpensMeans
    <3>2. ToRead(job) = ToWrite(job)
      BY <3>1 DEF ToRead
    <3> QED
      BY <3>1, <3>2
  <2>2. CASE Object(job) /\ S3_Open(r)
    <3>1. GoAfter(r, Barriers, "read") /\ h' = h
      BY <2>2 DEF S3_Open
    <3>2. ToRead(job) = Optional(job.intraTestBarriers)
      BY <2>2 DEF ToRead
    <3>3. Barriers \in Seq(Collectives) /\ Len(Barriers) = Optional(job.intraTestBarriers)
      <4>1. "Barrier" \in Collectives
        BY DEF Collectives, Synchronizing
      <4>2. <<"Barrier">> \in Seq(Collectives) /\ Len(<<"Barrier">>) = 1
        BY <4>1, OneOp
      <4> QED
        BY <4>2, EmptySeq DEF Barriers, Optional
    <3>4. job.api # "HDF5" /\ job.api # "NCMPI"
      BY <2>2 DEF Object
    <3> QED
      BY <1>2, <3>1, <3>2, <3>3, <3>4, NothingChanges
  <2> QED
    BY <1>1, <2>1, <2>2
<1>4. PICK ops \in Seq(Collectives) : GoAfter(r, ops, "read") /\ Len(ops) = ToRead(job)
  BY <1>3
<1>5. Moves(r, "read", ops) /\ n'[r] = 0 /\ n' = [n EXCEPT ![r] = n'[r]]
  BY <1>1, <1>2, <1>4 DEF GoAfter, Go, Moves, TypeInv
<1>6. Reads /\ Reads' = Reads /\ Shared' = Shared /\ Started(r)' = Started(r)
  BY <1>1, <1>2 DEF Reads, Shared, Started, PlaceInv
<1>7. AtOpen(job) \in Nat /\ AtOpen(job) >= 1
  <2>1. AtClose(job) \in Nat /\ AtOpen(job) \in Nat /\ AtClose(job) + 1 <= AtOpen(job)
    BY <1>2, PlacesInOrder
  <2> QED
    BY <2>1
<1>8. Reads => Started(r)' + Due(job, "read", n'[r]) = Started(r) + Due(job, at[r], n[r]) + Len(ops)
  <2>1. Due(job, at[r], n[r]) = AtOpen(job)
    BY <1>1 DEF Due
  <2>2. ReadAs(job) \in Accesses
    BY DEF ReadAs, Accesses
  <2>3. AllXferCalls(job, ReadAs(job), 0) = 0 /\ ToRead(job) \in Nat
    BY <1>2, <2>2, XferCallsAdd, PlacesInOrder
  <2>4. Due(job, "read", n'[r]) = AtOpen(job) + ToRead(job)
    BY <1>5, <1>7, <2>3 DEF Due
  <2> QED
    BY <1>2, <1>4, <1>6, <1>7, <2>1, <2>3, <2>4
<1>9. "read" \in Places /\ n'[r] \in Nat
  BY <1>5 DEF Places
<1>10. /\ TypeInv' /\ OthersStay(r) /\ CountsGrow /\ CountInv(r)'
       /\ at'[r] = "read" /\ \A s \in Ranks : Count(s)' = Count(s)
  BY <1>1, <1>2, <1>3, <1>5, <1>8, <1>9, NothingChanges, MoveBasics
<1>11. Local(r)'
  <2>1. PlaceInv(r)'
    <3>1. Total(job) > 0
      BY <1>2, TotalIs
    <3> QED
      BY <1>1, <1>2, <1>5, <1>6, <1>10, <3>1 DEF PlaceInv
  <2>2. LastInv(r)'
    BY <1>10 DEF LastInv
  <2>3. EtagInv(r)'
    BY <1>1, <1>2, <1>10 DEF EtagInv
  <2>4. TellInv(r)'
    BY <1>10 DEF TellInv
  <2>5. HandleInv(r)'
    <3>1. job.api = "HDF5" => HDF5Inv(r)'
      BY <1>3, <1>5, <1>10 DEF HDF5Inv
    <3>2. ASSUME job.api = "NCMPI" PROVE NCMPIInv(r)'
      <4>1. NCMPIInv(r)
        BY <1>2, <3>2 DEF HandleInv
      <4>2. job' = job /\ ~h'[r].indep /\ h'[r].firstReadCheck = h[r].firstReadCheck
        BY <1>1, <1>3, <3>2
      <4> QED
        BY <1>1, <1>5, <1>6, <1>10, <4>1, <4>2 DEF NCMPIInv, S
    <3> QED
      BY <1>1, <3>1, <3>2 DEF HandleInv
  <2> QED
    BY <1>10, <2>1, <2>2, <2>3, <2>4, <2>5 DEF Local
<1>12. MetInv(r)'
  <2>1. LastOp(r) \in Synchronizing
    BY <1>1, <1>2 DEF LastInv, Synchronizing
  <2>2. (\A s \in Ranks : Count(s) >= Count(r)) /\ Pledged(r) = Count(r)
    BY <1>1, <1>2, <2>1, AllMet
  <2>3. Pledged(r) = Started(r) + AtOpen(job)
    BY <1>1, <1>2, <1>6 DEF CountInv, Due
  <2>4. Met(at[r])' = AtOpen(job)
    BY <1>1, <1>10 DEF Met
  <2>5. \A s \in Ranks : Count(s)' >= Started(r) + AtOpen(job) /\ Count(s)' \in Nat
    BY <1>10, <2>2, <2>3 DEF CountsGrow
  <2>6. \A s \in Ranks : Count(s)' >= Started(r) + 1
    BY <1>2, <1>7, <2>5
  <2> QED
    BY <1>6, <2>4, <2>5, <2>6 DEF MetInv
<1>13. Stored(r)' <= Stored(r) /\ Parts(r)' <= Parts(r)
  <2>1. Stored(r)' = Stored(r) /\ Parts(r)' = Parts(r)
    BY <1>1, <1>6, <1>10 DEF Stored, Parts, Closed2
  <2> QED
    BY <1>2, <2>1
<1>14. at'[r] # "write"
  BY <1>10
<1> QED
  BY <1>1, <1>10, <1>11, <1>12, <1>13, <1>14, QuietStep
----------------------------------------------------------------------------
(* Creating: the file is emptied.                                          *)

\* All have left the repetition before.
LEMMA AllLeft ==
    ASSUME SensibleJobs, Good, NEW r \in Ranks, at[r] = "create", ahead[r] = << >>, Ready(r), Reads
    PROVE  Count(r) = Started(r) /\ \A s \in Ranks : Count(s) >= Started(r)
<1>1. /\ job \in JobType /\ TypeInv /\ CountInv(r) /\ LastInv(r) /\ Started(r) \in Nat
      /\ rep[r] \in Nat \ {0} /\ Pledged(r) \in Nat
  BY Before
<1>2. Pledged(r) = Count(r)
  BY <1>1, AllMet
<1>3. Pledged(r) = Started(r)
  <2>1. Due(job, at[r], n[r]) = 0
    BY DEF Due
  <2> QED
    BY <1>1, <2>1 DEF CountInv
<1>4. CASE rep[r] > 1 \/ Object(job)
  <2>1. LastOp(r) \in Synchronizing
    BY <1>1, <1>4 DEF LastInv, Synchronizing
  <2> QED
    BY <1>1, <1>2, <1>3, <2>1, AllMet
<1>5. CASE ~(rep[r] > 1 \/ Object(job))
  <2>1. rep[r] = 1 /\ 1 \in Nat \ {0}
    BY <1>1, <1>5
  <2>2. Started(r) = 0
    BY <1>1, <1>5, <2>1, RepetitionsFollow DEF Started, Optional
  <2>3. \A s \in Ranks : Count(s) \in Nat
    BY <1>1, PledgedIsNat
  <2> QED
    BY <1>2, <1>3, <2>2, <2>3
<1> QED
  BY <1>4, <1>5

\* What creating does to files, uploads and handles.
LEMMA CreateMeans ==
    ASSUME SensibleJobs, Good, NEW r \in Ranks, create(r)
    PROVE  /\ at[r] = "create" /\ ahead[r] = << >> /\ Ready(r)
           /\ UNCHANGED <<job, rep, n, etags, wrong>>
           /\ \/ files' = With(FileOf(r), Nothing) /\ (Uploads(job) => r = 0)
              \/ Uploads(job) /\ r # 0 /\ files' = files
           /\ \/ uploads' = uploads
              \/ /\ job.api = "S3" /\ (Shared => r = 0)
                 /\ uploads' = [uploads EXCEPT ![FileOf(r)] = {}]
           /\ h' = [h EXCEPT ![r] = h'[r]] /\ h'[r] \in Handles
           /\ job.api = "HDF5" => h'[r].newlyOpened
           /\ job.api = "NCMPI" => /\ ~h'[r].defined /\ ~h'[r].indep
                                   /\ h'[r].firstReadCheck = h[r].firstReadCheck
           /\ \E ops \in Seq(Collectives) :
                 /\ GoAfter(r, ops, "write") /\ Len(ops) = ToWrite(job)
                 /\ Shared /\ Reads => /\ ops # << >>
                                       /\ ops[Len(ops)] \in Synchronizing
                                             \cup (IF job.api = "S3" THEN {"Bcast"} ELSE {})
<1>1. /\ at[r] = "create" /\ ahead[r] = << >> /\ Ready(r)
      /\ UNCHANGED <<job, rep, n, etags, wrong>>
      /\ \/ Opens(r, "write") /\ Empty(r) /\ UNCHANGED uploads
         \/ job.api = "S3" /\ S3_Create(r)
         \/ job.api = "EMC" /\ EMC_Create(r)
  BY DEF create, At, loop, Opens, HDF5_Create, NCMPI_Create, MPIIO_Create
<1>2. job \in JobType /\ TypeInv /\ Sensible(job)
  BY Before
<1>3. Optional(job.intraTestBarriers) \in Nat
  BY DEF Optional
<1>4. CASE Opens(r, "write") /\ Empty(r) /\ UNCHANGED uploads
  <2>1. files' = With(FileOf(r), Nothing) /\ ~Uploads(job)
    BY <1>4 DEF Empty, Opens, Uploads
  <2>2. /\ h' = [h EXCEPT ![r] = h'[r]] /\ h'[r] \in Handles
        /\ job.api = "HDF5" => h'[r].newlyOpened
        /\ job.api = "NCMPI" => /\ ~h'[r].defined /\ ~h'[r].indep
                                /\ h'[r].firstReadCheck = h[r].firstReadCheck
    BY <1>4, OpensMeans
  <2>3. \E ops \in Seq(Collectives) :
           /\ GoAfter(r, ops, "write") /\ Len(ops) = ToWrite(job)
           /\ Shared => ops # << >> /\ ops[Len(ops)] \in Synchronizing
    BY <1>4, OpensMeans
  <2>4. \E ops \in Seq(Collectives) :
                 /\ GoAfter(r, ops, "write") /\ Len(ops) = ToWrite(job)
                 /\ Shared /\ Reads => /\ ops # << >>
                                       /\ ops[Len(ops)] \in Synchronizing
                                             \cup (IF job.api = "S3" THEN {"Bcast"} ELSE {})
    BY <2>3
  <2> QED
    BY <1>1, <1>4, <2>1, <2>2, <2>4
<1>5. CASE job.api = "S3" /\ S3_Create(r)
  <2> DEFINE q == <<"Bcast">>
             ops == OnTestComm(q) \o Barriers
  <2>1. GoAfter(r, ops, "write") /\ h' = h
    BY <1>5 DEF S3_Create
  <2>2. q \in Seq(Collectives) /\ Len(q) = 1 /\ q[1] = "Bcast" /\ q # << >>
    BY OneOp DEF Collectives
  <2> HIDE DEF q
  <2>3. /\ ops \in Seq(Collectives)
        /\ Len(ops) = (IF job.filePerProc THEN 0 ELSE Len(q)) + Optional(job.intraTestBarriers)
        /\ ~job.filePerProc => ops # << >> /\ ops[Len(ops)] \in {q[Len(q)], "Barrier"}
    BY <1>2, <2>2, OpenSeq
  <2> HIDE DEF ops
  <2>4. ToWrite(job) = Optional(~job.filePerProc) + Optional(job.intraTestBarriers)
    BY <1>5 DEF ToWrite, Optional
  <2>5. Len(ops) = ToWrite(job)
    BY <1>3, <2>2, <2>3, <2>4 DEF Optional
  <2>6. Shared => /\ ops # << >>
                  /\ ops[Len(ops)] \in Synchronizing \cup (IF job.api = "S3" THEN {"Bcast"} ELSE {})
    BY <1>5, <2>2, <2>3 DEF Shared, Synchronizing
  <2>7. \E o \in Seq(Collectives) :
                 /\ GoAfter(r, o, "write") /\ Len(o) = ToWrite(job)
                 /\ Shared /\ Reads => /\ o # << >>
                                       /\ o[Len(o)] \in Synchronizing
                                             \cup (IF job.api = "S3" THEN {"Bcast"} ELSE {})
    BY <2>1, <2>3, <2>5, <2>6
  <2>8. h' = [h EXCEPT ![r] = h'[r]] /\ h'[r] \in Handles
    BY <1>2, <2>1, NothingChanges
  <2>9. job.api # "HDF5" /\ job.api # "NCMPI"
    BY <1>5
  <2>10. /\ \/ files' = With(FileOf(r), Nothing) /\ (Uploads(job) => r = 0)
            \/ Uploads(job) /\ r # 0 /\ files' = files
         /\ uploads' = uploads \/ ((Shared => r = 0) /\ uploads' = [uploads EXCEPT ![FileOf(r)] = {}])
    BY <1>5 DEF S3_Create, Empty, Uploads, Shared
  <2> QED
    BY <1>1, <1>5, <2>7, <2>8, <2>9, <2>10
<1>6. CASE job.api = "EMC" /\ EMC_Create(r)
  <2>1. GoAfter(r, Barriers, "write") /\ h' = h /\ uploads' = uploads /\ files' = With(FileOf(r), Nothing)
    BY <1>6 DEF EMC_Create, Empty
  <2>2. "Barrier" \in Collectives /\ "Barrier" \in Synchronizing
    BY DEF Collectives, Synchronizing
  <2>3. <<"Barrier">> \in Seq(Collectives) /\ Len(<<"Barrier">>) = 1 /\ <<"Barrier">> # << >>
        /\ <<"Barrier">>[1] = "Barrier"
    BY <2>2, OneOp
  <2>4. Barriers \in Seq(Collectives) /\ Len(Barriers) = Optional(job.intraTestBarriers)
    BY <2>3, EmptySeq DEF Barriers, Optional
  <2>5. ToWrite(job) = Optional(job.intraTestBarriers)
    BY <1>6 DEF ToWrite, Optional
  <2>6. ASSUME Shared, Reads
        PROVE  /\ Barriers # << >>
               /\ Barriers[Len(Barriers)] \in Synchronizing \cup (IF job.api = "S3" THEN {"Bcast"} ELSE {})
    <3>1. job.intraTestBarriers
      BY <1>2, <1>6, <2>6 DEF Sensible, Shared, Reads
    <3>2. Barriers = <<"Barrier">>
      BY <3>1 DEF Barriers
    <3> QED
      BY <2>2, <2>3, <3>2
  <2>7. \E o \in Seq(Collectives) :
                 /\ GoAfter(r, o, "write") /\ Len(o) = ToWrite(job)
                 /\ Shared /\ Reads => /\ o # << >>
                                       /\ o[Len(o)] \in Synchronizing
                                             \cup (IF job.api = "S3" THEN {"Bcast"} ELSE {})
    BY <2>1, <2>4, <2>5, <2>6
  <2>8. h' = [h EXCEPT ![r] = h'[r]] /\ h'[r] \in Handles
    BY <1>2, <2>1, NothingChanges
  <2>9. job.api # "HDF5" /\ job.api # "NCMPI" /\ ~Uploads(job)
    BY <1>6 DEF Uploads
  <2> QED
    BY <1>1, <2>1, <2>7, <2>8, <2>9
<1> QED
  BY <1>1, <1>4, <1>5, <1>6

\* A rank whose data is there has seen that all have created the file.
LEMMA StoredMeans ==
    ASSUME SensibleJobs, Good, NEW q \in Ranks, Shared, Reads, NEW t \in Ranks,
           \/ Stored(q) > 0 /\ job.api # "S3"
           \/ Parts(q) > 0 /\ t = 0
    PROVE  Count(t) >= Started(q) + 1
<1>1. MetInv(q) /\ at[q] \in Places
  BY Before
<1>2. /\ at[q] \notin {"s3_connect", "create", "done"} /\ (at[q] = "write" => n[q] > 0)
  BY DEF Stored, Parts, Closed2
<1> QED
  BY <1>1, <1>2 DEF MetInv

\* A rank creates its file.
LEMMA CreateStep ==
    ASSUME SensibleJobs, Good, NEW r \in Ranks, create(r)
    PROVE  Good'
<1>1. /\ at[r] = "create" /\ ahead[r] = << >> /\ Ready(r)
      /\ UNCHANGED <<job, rep, n, etags, wrong>>
  BY CreateMeans
<1>2. \/ files' = With(FileOf(r), Nothing) /\ (Uploads(job) => r = 0)
      \/ Uploads(job) /\ r # 0 /\ files' = files
  BY CreateMeans
<1>3. \/ uploads' = uploads
      \/ /\ job.api = "S3" /\ (Shared => r = 0)
         /\ uploads' = [uploads EXCEPT ![FileOf(r)] = {}]
  BY CreateMeans
<1>4. /\ h' = [h EXCEPT ![r] = h'[r]] /\ h'[r] \in Handles
      /\ job.api = "HDF5" => h'[r].newlyOpened
      /\ job.api = "NCMPI" => /\ ~h'[r].defined /\ ~h'[r].indep
                              /\ h'[r].firstReadCheck = h[r].firstReadCheck
  BY CreateMeans
<1>5. PICK ops \in Seq(Collectives) :
         /\ GoAfter(r, ops, "write") /\ Len(ops) = ToWrite(job)
         /\ Shared /\ Reads => /\ ops # << >>
                               /\ ops[Len(ops)] \in Synchronizing
                                     \cup (IF job.api = "S3" THEN {"Bcast"} ELSE {})
  BY CreateMeans
<1>6. /\ job \in JobType /\ TypeInv /\ PlaceInv(r) /\ CountInv(r) /\ EtagInv(r) /\ MetInv(r)
      /\ LastInv(r) /\ HandleInv(r)
      /\ Started(r) \in Nat /\ n[r] \in Nat /\ Count(r) \in Nat /\ Total(job) \in Nat
  BY Before
<1>7. n[r] = 0 /\ n'[r] = 0
  BY <1>1, <1>6 DEF PlaceInv
<1>8. Moves(r, "write", ops)
  BY <1>1, <1>5 DEF GoAfter, Go, Moves
<1>9. Reads' = Reads /\ Shared' = Shared /\ Started(r)' = Started(r) /\ job' = job
  BY <1>1 DEF Reads, Shared, Started
<1>10. FileOf(r) = File(job, r) /\ File(job, r) \in Ranks
  BY MpiAssumption DEF FileOf, File, Ranks
<1>11. uploads' = [f \in Ranks |-> uploads'[f]]
  <2>1. uploads = [f \in Ranks |-> uploads[f]]
    BY <1>6 DEF TypeInv
  <2>2. CASE uploads' = uploads
    BY <2>1, <2>2
  <2>3. CASE uploads' = [uploads EXCEPT ![FileOf(r)] = {}]
    BY <2>1, <2>3
  <2> QED
    BY <1>3, <2>2, <2>3
<1>12. Reads => Started(r)' + Due(job, "write", n'[r]) = Started(r) + Due(job, at[r], n[r]) + Len(ops)
  <2>1. Due(job, at[r], n[r]) = 0
    BY <1>1 DEF Due
  <2>2. "WRITE" \in Accesses
    BY DEF Accesses
  <2>3. AllXferCalls(job, "WRITE", 0) = 0 /\ ToWrite(job) \in Nat
    BY <1>6, <2>2, XferCallsAdd, PlacesInOrder
  <2>4. Due(job, "write", n'[r]) = ToWrite(job)
    BY <1>7, <2>3 DEF Due
  <2> QED
    BY <1>5, <1>6, <1>9, <2>1, <2>3, <2>4
<1>13. "write" \in Places
  BY DEF Places
<1>14. /\ TypeInv' /\ OthersStay(r) /\ CountsGrow /\ CountInv(r)'
       /\ at'[r] = "write" /\ \A s \in Ranks : Count(s)' = Count(s)
       /\ LastOp(r)' = IF ops # << >> THEN ops[Len(ops)] ELSE LastOp(r)
  BY <1>1, <1>4, <1>6, <1>8, <1>11, <1>12, <1>13, NothingChanges, MoveBasics
<1>15. Local(r)'
  <2>1. PlaceInv(r)'
    <3>1. Total(job) > 0
      BY <1>6, TotalIs
    <3> QED
      BY <1>1, <1>6, <1>7, <1>14, <3>1 DEF PlaceInv
  <2>2. LastInv(r)'
    BY <1>1, <1>5, <1>9, <1>14 DEF LastInv
  <2>3. EtagInv(r)'
    <3>1. ASSUME job.api = "S3" PROVE etags'[r] = Etags(r, n[r])'
      <4>1. etags'[r] = << >>
        BY <1>1, <1>6, <3>1 DEF EtagInv
      <4>2. Len(Etags(r, 0)) = 0 /\ Etags(r, 0) \in Seq(Tokens)
        BY <1>6, EtagsAre
      <4>3. Etags(r, 0) = << >>
        BY <4>2, EmptySeq
      <4>4. Etags(r, n[r])' = Etags(r, 0)
        BY <1>1, <1>7 DEF Etags
      <4> QED
        BY <4>1, <4>3, <4>4
    <3> QED
      BY <1>9, <1>14, <3>1 DEF EtagInv
  <2>4. TellInv(r)'
    BY <1>14 DEF TellInv
  <2>5. HandleInv(r)'
    <3>1. job.api = "HDF5" => HDF5Inv(r)'
      BY <1>4, <1>7, <1>14 DEF HDF5Inv
    <3>2. ASSUME job.api = "NCMPI" PROVE NCMPIInv(r)'
      <4>1. NCMPIInv(r)
        BY <1>6, <3>2 DEF HandleInv
      <4>2. /\ ~h'[r].defined /\ ~h'[r].indep
            /\ h'[r].firstReadCheck = h[r].firstReadCheck
        BY <1>4, <3>2
      <4> QED
        BY <1>1, <1>7, <1>9, <1>14, <4>1, <4>2 DEF NCMPIInv
    <3> QED
      BY <1>1, <3>1, <3>2 DEF HandleInv
  <2> QED
    BY <1>14, <2>1, <2>2, <2>3, <2>4, <2>5 DEF Local
<1>16. MetInv(r)'
  <2> SUFFICES ASSUME Reads PROVE MetInv(r)'
    BY <1>9 DEF MetInv
  <2>1. Met(at[r])' = 0
    BY <1>14 DEF Met
  <2>2. \A s \in Ranks : Count(s) >= Started(r)
    BY <1>1, AllLeft
  <2>3. \A s \in Ranks : Count(s)' >= Started(r)' + Met(at[r])'
    BY <1>6, <1>9, <1>14, <2>1, <2>2
  <2> QED
    BY <1>7, <1>14, <2>3 DEF MetInv
<1>17. ASSUME NEW s \in Ranks \ {r}
       PROVE  Stored(s)' = Stored(s) /\ Parts(s)' = Parts(s) /\ at'[s] = at[s] /\ n'[s] = n[s]
  <2>1. at'[s] = at[s] /\ n'[s] = n[s]
    BY <1>14 DEF OthersStay
  <2> QED
    BY <1>9, <2>1 DEF Stored, Parts
<1>18. Stored(r)' = 0 /\ Parts(r)' = 0
  BY <1>7, <1>14 DEF Stored, Parts, Closed2
<1>19. ASSUME NEW f \in Ranks, f # FileOf(r)
       PROVE  /\ Exists(f)' = Exists(f) /\ (Exists(f) => files'[f] = files[f])
              /\ uploads'[f] = uploads[f]
  <2>1. Exists(f)' = Exists(f) /\ (Exists(f) => files'[f] = files[f])
    BY <1>2, <1>19 DEF With, Exists
  <2>2. uploads'[f] = uploads[f]
    <3>1. uploads = [g \in Ranks |-> uploads[g]]
      BY <1>6 DEF TypeInv
    <3> QED
      BY <1>3, <1>19, <3>1
  <2> QED
    BY <2>1, <2>2
<1>20. DataInv'
  <2>1. Reads' = Reads /\ \A q \in Ranks : Keeper(q)' = Keeper(q) /\ Remover(q)' = Remover(q)
    BY <1>9 DEF Reads, Keeper, Remover, Shared, Pretend
  <2>2. ASSUME Reads, NEW q \in Ranks, NEW k \in Ranks, k = Keeper(q),
               \A t \in Remover(q) : rep[t] = rep[k], NEW i \in 0..(Stored(k)' - 1)
        PROVE  Holds(q, i)'
    <3>1. k # r
      BY <1>18, <2>2
    <3>2. Stored(k)' = Stored(k)
      BY <1>17, <3>1
    <3>3. i \in 0..(Stored(k) - 1)
      BY <2>2, <3>2
    <3>4. Holds(q, i)
      BY <2>2, <3>3 DEF Good, DataInv
    <3>5. Stored(k) \in Nat /\ Stored(k) > 0
      <4>1. Stored(k) \in Nat
        BY <1>6, StoredIsNat
      <4> DEFINE x == Stored(k)
      <4>2. x \in Nat /\ i \in 0..(x - 1)
        BY <3>3, <4>1
      <4> HIDE DEF x
      <4>3. x > 0
        BY <4>2
      <4> QED
        BY <4>1, <4>3 DEF x
    <3>6. CASE job.filePerProc
      <4>1. k = q /\ File(job, q) = q /\ FileOf(r) = r
        BY <2>2, <3>6 DEF Keeper, Uploads, File, FileOf
      <4> QED
        BY <1>9, <1>19, <3>1, <3>4, <4>1 DEF Holds, Has
    <3>7. CASE Shared
      <4>1. CASE files' = files
        BY <1>9, <3>4, <4>1 DEF Holds, Has, Exists
      <4>2. CASE Uploads(job) => r = 0
        <5>1. ~Uploads(job) /\ job.api # "S3" /\ k = q
          BY <2>2, <3>1, <3>7, <4>2 DEF Keeper, Uploads, Shared
        <5>2. Count(r) >= Started(q) + 1
          BY <2>2, <3>5, <3>7, <5>1, StoredMeans
        <5>3. Count(r) = Started(r) /\ \A s \in Ranks : Count(s) >= Started(r)
          BY <1>1, <2>2, AllLeft
        <5>4. 0 \in Ranks
          BY MpiAssumption DEF Ranks
        <5>5. rep[0] = rep[q]
          BY <2>2, <3>7, <5>1 DEF Remover
        <5>6. rep[0] >= rep[r]
          <6>1. PlaceInv(0) /\ CountInv(0) /\ rep[r] \in Nat \ {0}
            BY <5>4, Before
          <6>2. Count(0) >= Begin(job, rep[r])
            BY <5>3, <5>4 DEF Started
          <6> QED
            BY <1>6, <2>2, <5>4, <6>1, <6>2, NotBehind
        <5>7. Started(q) >= Started(r) /\ Started(q) \in Nat
          <6>1. rep[r] \in Nat \ {0} /\ rep[q] \in Nat \ {0} /\ PerRep(job) \in Nat
            BY <1>6, PlacesInOrder DEF TypeInv
          <6>2. rep[r] < rep[q] => Started(r) + PerRep(job) <= Started(q)
            BY <1>6, <6>1, RepetitionsFollow DEF Started
          <6>3. rep[r] = rep[q] => Started(r) = Started(q)
            BY DEF Started
          <6>4. Started(q) \in Nat
            BY Before
          <6> QED
            BY <1>6, <5>5, <5>6, <6>1, <6>2, <6>3, <6>4
        <5> QED
          BY <1>6, <5>2, <5>3, <5>7
      <4> QED
        BY <1>2, <4>1, <4>2
    <3> QED
      BY <3>6, <3>7 DEF Shared
  <2> QED
    BY <1>1, <2>1, <2>2 DEF DataInv
<1>21. ASSUME NEW s \in Ranks PROVE PartInv(s)'
  <2>1. CASE s = r
    BY <1>18, <2>1 DEF PartInv
  <2>2. CASE s # r
    <3>1. PartInv(s) /\ Parts(s)' = Parts(s) /\ Parts(s) \in Nat
      BY <1>6, <1>17, <2>2, StoredIsNat DEF Good
    <3>2. CASE uploads' = uploads
      <4>1. (\A f \in Ranks : uploads[f] \subseteq uploads'[f]) /\ Parts(s)' <= Parts(s)
            /\ Parts(s) \in Int /\ Parts(s)' \in Int
        BY <3>1, <3>2
      <4> QED
        BY <1>1, <3>1, <4>1, PartsStay
    <3>3. CASE job.api = "S3" /\ (Shared => r = 0)
      <4>1. \A i : PartOf(s, i)' = PartOf(s, i)
        BY <1>9 DEF PartOf, S, T
      <4>2. CASE job.filePerProc
        <5>1. File(job, s) = s /\ FileOf(r) = r /\ ~Shared
          BY <4>2 DEF File, FileOf, Shared
        <5>2. uploads'[s] = uploads[s]
          BY <1>19, <2>2, <5>1
        <5> QED
          BY <1>9, <3>1, <3>3, <4>1, <5>1, <5>2 DEF PartInv
      <4>3. CASE Shared
        <5>1. ASSUME Reads, rep[s] = rep[0], Parts(s) > 0 PROVE FALSE
          <6>1. r = 0 /\ 0 \in Ranks
            BY <3>3, <4>3
          <6>2. Count(r) >= Started(s) + 1
            BY <4>3, <5>1, <6>1, StoredMeans
          <6>3. Count(r) = Started(r)
            BY <1>1, <5>1, AllLeft
          <6>4. Started(s) = Started(r)
            BY <5>1, <6>1 DEF Started
          <6> QED
            BY <1>6, <6>2, <6>3, <6>4
        <5>2. Reads /\ rep[s] = rep[0] => Parts(s) = 0
          BY <3>1, <5>1
        <5> QED
          BY <1>1, <1>9, <3>1, <4>3, <5>2 DEF PartInv
      <4> QED
        BY <4>2, <4>3 DEF Shared
    <3> QED
      BY <1>3, <3>2, <3>3
  <2> QED
    BY <2>1, <2>2
<1>22. ASSUME NEW s \in Ranks PROVE AppendInv(s)'
  <2> SUFFICES ASSUME job.api = "EMC", job.filePerProc PROVE AppendInv(s)'
    BY <1>9 DEF AppendInv
  <2>1. FileOf(r) = r /\ files' = With(r, Nothing)
    BY <1>2 DEF FileOf, Uploads
  <2>2. CASE s = r
    <3>1. Exists(r)' /\ files'[r] = Nothing
      BY <2>1 DEF With, Exists
    <3>2. DOMAIN Nothing = {}
      BY EmptySeq DEF Nothing
    <3>3. {<<0, c>> : c \in 0..(0 - 1)} = {}
      OBVIOUS
    <3> QED
      BY <1>7, <2>2, <3>1, <3>2, <3>3 DEF AppendInv
  <2>3. CASE s # r
    <3>1. AppendInv(s) /\ at'[s] = at[s] /\ n'[s] = n[s]
      BY <1>17, <2>3 DEF Good
    <3>2. Exists(s)' = Exists(s) /\ (Exists(s) => files'[s] = files[s])
      BY <1>19, <2>1, <2>3
    <3> QED
      BY <1>9, <3>1, <3>2 DEF AppendInv
  <2> QED
    BY <2>2, <2>3
<1> QED
  BY <1>14, <1>15, <1>16, <1>20, <1>21, <1>22, Assemble
----------------------------------------------------------------------------
(* Removing: the next repetition begins.                                   *)

\* Nobody has data in the next repetition before a rank has left this one.
LEMMA NobodyAhead ==
    ASSUME SensibleJobs, Good, NEW r \in Ranks, at[r] = "remove", ahead[r] = << >>, Ready(r), Reads,
           NEW s \in Ranks, rep[s] = rep[r] + 1, Stored(s) > 0 \/ Parts(s) > 0
    PROVE  FALSE
<1>1. /\ job \in JobType /\ TypeInv /\ CountInv(r) /\ Started(r) \in Nat /\ rep[r] \in Nat \ {0}
      /\ Pledged(r) \in Nat
  BY Before
<1>2. MetInv(s) /\ at[s] \in Places
  BY Before
<1>3. /\ AtRemove(job) \in Nat /\ AtClose(job) \in Nat /\ AtOpen(job) \in Nat
      /\ PerRep(job) = AtRemove(job) + 1
  BY <1>1, PlacesInOrder
<1>4. Count(r) = Started(r) + AtRemove(job)
  <2>1. Pledged(r) = Count(r)
    BY <1>1, AllMet
  <2>2. Due(job, at[r], n[r]) = AtRemove(job)
    BY DEF Due
  <2> QED
    BY <1>1, <2>1, <2>2 DEF CountInv
<1>5. at[s] \notin {"s3_connect", "create", "done"}
  BY DEF Stored, Parts, Closed2
<1>6. Count(r) >= Started(s) + Met(at[s])
  BY <1>2, <1>5 DEF MetInv
<1>7. Met(at[s]) \in Nat
  BY <1>3, <1>5 DEF Met
<1>8. Started(s) = Started(r) + PerRep(job)
  BY <1>1, RepetitionsFollow DEF Started
<1> QED
  BY <1>1, <1>3, <1>4, <1>6, <1>7, <1>8

\* A rank removes a file and goes on to the next repetition.
LEMMA RemoveStep ==
    ASSUME SensibleJobs, Good, NEW r \in Ranks, RemoveFile(r)
    PROVE  Good'
<1> DEFINE ops == <<"Barrier">>
           place == IF rep[r] = job.repetitions THEN "done" ELSE "create"
           gone == FileOf(Pretend(r, ReadAccess))
<1>1. /\ at[r] = "remove" /\ ahead[r] = << >> /\ Ready(r) /\ Moves(r, place, ops)
      /\ rep' = [rep EXCEPT ![r] = rep[r] + 1] /\ n' = [n EXCEPT ![r] = 0]
      /\ UNCHANGED <<job, h, uploads, etags, wrong>>
      /\ files' = IF job.api \in {"S3", "EMC"} \/ (~job.filePerProc /\ r # 0) THEN files
                  ELSE Restrict(files, DOMAIN files \ {gone})
  BY DEF RemoveFile, At, GoAfter, Go, Moves, parts
<1>2. /\ job \in JobType /\ TypeInv /\ PlaceInv(r) /\ CountInv(r) /\ EtagInv(r) /\ MetInv(r)
      /\ LastInv(r) /\ HandleInv(r) /\ Sensible(job)
      /\ Started(r) \in Nat /\ n[r] \in Nat /\ Count(r) \in Nat /\ rep[r] \in Nat \ {0}
  BY Before
<1>3. ops \in Seq(Collectives) /\ Len(ops) = 1 /\ ops[Len(ops)] = "Barrier" /\ ops # << >>
  BY OneOp DEF Collectives, Synchronizing
<1>4. place \in {"done", "create"} /\ place \in Places
  BY DEF Places
<1>5. /\ rep'[r] = rep[r] + 1 /\ n'[r] = 0
      /\ rep' = [rep EXCEPT ![r] = rep'[r]] /\ n' = [n EXCEPT ![r] = n'[r]]
      /\ rep'[r] \in Nat \ {0} /\ n'[r] \in Nat
      /\ \A s \in Ranks \ {r} : rep'[s] = rep[s] /\ n'[s] = n[s]
  <2>1. rep \in [Ranks -> Nat \ {0}] /\ n \in [Ranks -> Nat]
    BY <1>2 DEF TypeInv
  <2>2. rep'[r] = rep[r] + 1 /\ \A s \in Ranks \ {r} : rep'[s] = rep[s]
    BY <1>1, <2>1
  <2>3. n'[r] = 0 /\ \A s \in Ranks \ {r} : n'[s] = n[s]
    BY <1>1, <2>1
  <2>4. rep'[r] \in Nat \ {0} /\ n'[r] \in Nat
    BY <1>2, <2>2, <2>3
  <2>5. rep' = [rep EXCEPT ![r] = rep'[r]]
    BY <1>1, <2>2
  <2>6. n' = [n EXCEPT ![r] = n'[r]]
    BY <1>1, <2>3
  <2> QED
    BY <2>2, <2>3, <2>4, <2>5, <2>6
<1>6. place = "create" => rep[r] + 1 <= job.repetitions
  <2>1. rep[r] <= job.repetitions /\ job.repetitions \in Nat
    BY <1>1, <1>2, JobParts DEF PlaceInv
  <2> QED
    BY <1>2, <2>1
<1>7. place = "create" => rep[r] # job.repetitions
  OBVIOUS
<1> HIDE DEF ops, place
<1>8. Reads' = Reads /\ Shared' = Shared /\ Started(r)' = Started(r) + PerRep(job) /\ job' = job
  <2>1. Started(r)' = Begin(job, rep[r] + 1)
    BY <1>1, <1>5 DEF Started
  <2>2. Begin(job, rep[r] + 1) = Begin(job, rep[r]) + PerRep(job)
    BY <1>2, RepetitionsFollow
  <2> QED
    BY <1>1, <2>1, <2>2 DEF Reads, Shared, Started
<1>9. AtRemove(job) \in Nat /\ PerRep(job) = AtRemove(job) + 1
  BY <1>2, PlacesInOrder
<1>10. Reads => Started(r)' + Due(job, place, n'[r]) = Started(r) + Due(job, at[r], n[r]) + Len(ops)
  <2>1. Due(job, at[r], n[r]) = AtRemove(job) /\ Due(job, place, n'[r]) = 0
    BY <1>1, <1>4 DEF Due
  <2> QED
    BY <1>2, <1>3, <1>8, <1>9, <2>1
<1>11. /\ TypeInv' /\ OthersStay(r) /\ CountsGrow /\ CountInv(r)'
       /\ at'[r] = place /\ LastOp(r)' = "Barrier" /\ \A s \in Ranks : Count(s)' = Count(s)
  <2>1. /\ h' = [h EXCEPT ![r] = h'[r]] /\ h'[r] \in Handles
        /\ etags' = [etags EXCEPT ![r] = etags'[r]] /\ etags'[r] \in Seq(Tokens)
        /\ uploads' = [f \in Ranks |-> uploads'[f]] /\ wrong' \in [Ranks -> BOOLEAN]
    BY <1>1, <1>2, NothingChanges
  <2>2. /\ ahead[r] = << >> /\ Moves(r, place, ops)
        /\ rep' = [rep EXCEPT ![r] = rep'[r]] /\ rep'[r] \in Nat \ {0}
        /\ n' = [n EXCEPT ![r] = n'[r]] /\ n'[r] \in Nat
    BY <1>1, <1>5
  <2>3. /\ TypeInv' /\ OthersStay(r) /\ CountsGrow /\ CountInv(r)'
        /\ at'[r] = place /\ \A s \in Ranks : Count(s)' = Count(s)
        /\ LastOp(r)' = IF ops # << >> THEN ops[Len(ops)] ELSE LastOp(r)
    BY <1>3, <1>4, <1>10, <2>1, <2>2, MoveBasics
  <2> QED
    BY <1>3, <2>3
<1>12. Local(r)'
  <2>1. PlaceInv(r)'
    BY <1>4, <1>5, <1>6, <1>8, <1>11 DEF PlaceInv
  <2>2. LastInv(r)' /\ TellInv(r)'
    BY <1>4, <1>11 DEF LastInv, TellInv
  <2>3. EtagInv(r)'
    BY <1>1, <1>2, <1>4, <1>11 DEF EtagInv
  <2>4. HandleInv(r)'
    <3>1. HDF5Inv(r)'
      BY <1>4, <1>11 DEF HDF5Inv
    <3>2. ASSUME job.api = "NCMPI" PROVE NCMPIInv(r)'
      <4>1. ASSUME Reads, job.readCheck, ~job.collective PROVE at'[r] # "create"
        <5>1. job.repetitions = 1
          BY <1>2, <3>2, <4>1 DEF Sensible, Reads
        <5> QED
          BY <1>2, <1>6, <1>11, <5>1
      <4> QED
        BY <1>4, <1>8, <1>11, <4>1 DEF NCMPIInv
    <3> QED
      BY <1>8, <3>1, <3>2 DEF HandleInv
  <2> QED
    BY <1>11, <2>1, <2>2, <2>3, <2>4 DEF Local
<1>13. MetInv(r)'
  <2> SUFFICES ASSUME Reads PROVE MetInv(r)'
    BY <1>8 DEF MetInv
  <2>1. Met(at[r])' = -1
    BY <1>4, <1>11 DEF Met
  <2>2. LastOp(r) \in Synchronizing
    BY <1>1, <1>2 DEF LastInv, Synchronizing
  <2>3. (\A s \in Ranks : Count(s) >= Count(r)) /\ Pledged(r) = Count(r)
    BY <1>1, <1>2, <2>2, AllMet
  <2>4. Pledged(r) = Started(r) + AtRemove(job)
    BY <1>1, <1>2 DEF CountInv, Due
  <2>5. \A s \in Ranks : Count(s)' >= Started(r)' + Met(at[r])'
    BY <1>2, <1>8, <1>9, <1>11, <2>1, <2>3, <2>4
  <2> QED
    BY <1>4, <1>11, <2>5 DEF MetInv
<1>14. Stored(r)' = 0 /\ Parts(r)' = 0
  BY <1>4, <1>11 DEF Stored, Parts, Closed2
<1>15. ASSUME NEW s \in Ranks \ {r}
       PROVE  Stored(s)' = Stored(s) /\ Parts(s)' = Parts(s) /\ at'[s] = at[s] /\ n'[s] = n[s]
  <2>1. at'[s] = at[s] /\ n'[s] = n[s]
    BY <1>11 DEF OthersStay
  <2> QED
    BY <1>8, <2>1 DEF Stored, Parts
<1>16. DataInv'
  <2>1. Reads' = Reads /\ \A q \in Ranks : Keeper(q)' = Keeper(q) /\ Remover(q)' = Remover(q)
    BY <1>8 DEF Reads, Keeper, Remover, Shared, Pretend
  <2>2. ASSUME Reads, NEW q \in Ranks, NEW k \in Ranks, k = Keeper(q),
               \A t \in Remover(q) : rep'[t] = rep'[k], NEW i \in 0..(Stored(k)' - 1)
        PROVE  Holds(q, i)'
    <3>1. k # r
      BY <1>14, <2>2
    <3>2. Stored(k)' = Stored(k) /\ rep'[k] = rep[k]
      BY <1>5, <1>15, <3>1
    <3>3. i \in 0..(Stored(k) - 1)
      BY <2>2, <3>2
    <3>4. Stored(k) > 0
      <4>1. Stored(k) \in Nat
        BY <1>2, StoredIsNat
      <4> DEFINE x == Stored(k)
      <4>2. x \in Nat /\ i \in 0..(x - 1)
        BY <3>3, <4>1
      <4> HIDE DEF x
      <4>3. x > 0
        BY <4>2
      <4> QED
        BY <4>3 DEF x
    <3>5. r \notin Remover(q)
      <4>1. SUFFICES ASSUME r \in Remover(q) PROVE FALSE
        OBVIOUS
      <4>2. rep[k] = rep[r] + 1
        BY <1>5, <2>2, <3>2, <4>1
      <4> QED
        BY <1>1, <2>2, <3>4, <4>2, NobodyAhead
    <3>6. \A t \in Remover(q) : rep[t] = rep[k]
      <4>1. Remover(q) \subseteq Ranks
        BY MpiAssumption DEF Remover, Ranks
      <4> QED
        BY <1>5, <2>2, <3>2, <3>5, <4>1
    <3>7. Holds(q, i)
      BY <2>2, <3>3, <3>6 DEF Good, DataInv
    <3>9. CASE files' = files
      BY <1>8, <3>7, <3>9 DEF Holds, Has, Exists
    <3>10. CASE job.filePerProc /\ files' = Restrict(files, DOMAIN files \ {gone})
      <4>1. Pretend(r, ReadAccess) = Pretend(r, "READ")
        BY DEF Pretend, ReadAccess
      <4>2. gone # q /\ File(job, q) = q
        BY <3>5, <3>10, <4>1 DEF Remover, Shared, FileOf, File
      <4> HIDE DEF gone
      <4>3. Exists(q) => Exists(q)' /\ files'[q] = files[q]
        BY <3>10, <4>2 DEF Restrict, Exists
      <4> QED
        BY <1>8, <3>7, <4>2, <4>3 DEF Holds, Has
    <3>11. CASE Shared
      <4>1. r # 0
        BY <3>5, <3>11 DEF Remover
      <4> QED
        BY <1>1, <3>9, <3>11, <4>1 DEF Shared
    <3> QED
      BY <1>1, <3>9, <3>10, <3>11 DEF Shared
  <2> QED
    BY <2>1, <2>2 DEF DataInv
<1>17. ASSUME NEW s \in Ranks PROVE PartInv(s)'
  <2>1. CASE s = r
    BY <1>14, <2>1 DEF PartInv
  <2>2. CASE s # r
    <3>1. PartInv(s) /\ Parts(s)' = Parts(s) /\ Parts(s) \in Nat /\ rep'[s] = rep[s]
      BY <1>2, <1>5, <1>15, <2>2, StoredIsNat DEF Good
    <3>2. \A i : PartOf(s, i)' = PartOf(s, i)
      BY <1>8 DEF PartOf, S, T
    <3>3. CASE job.filePerProc \/ r # 0
      <4>1. 0 \in Ranks
        BY MpiAssumption DEF Ranks
      <4>2. Shared => rep'[0] = rep[0]
        BY <1>5, <3>3, <4>1 DEF Shared
      <4> QED
        BY <1>1, <1>8, <3>1, <3>2, <4>2 DEF PartInv
    <3>4. CASE Shared /\ r = 0
      <4>1. ASSUME Reads, rep'[s] = rep'[0], Parts(s) > 0 PROVE FALSE
        <5>1. rep[s] = rep[r] + 1
          BY <1>5, <3>1, <3>4, <4>1
        <5> QED
          BY <1>1, <4>1, <5>1, NobodyAhead
      <4>2. Reads /\ rep'[s] = rep'[0] => Parts(s) = 0
        BY <3>1, <4>1
      <4> QED
        BY <1>8, <3>1, <3>4, <4>2 DEF PartInv
    <3> QED
      BY <3>3, <3>4 DEF Shared
  <2> QED
    BY <2>1, <2>2
<1>18. ASSUME NEW s \in Ranks PROVE AppendInv(s)'
  <2> SUFFICES ASSUME job.api = "EMC", job.filePerProc, at'[s] = "write" PROVE AppendInv(s)'
    BY <1>8 DEF AppendInv
  <2>1. s # r /\ files' = files
    BY <1>1, <1>4, <1>11
  <2> QED
    BY <1>8, <1>15, <2>1 DEF Good, AppendInv, Exists
<1> QED
  BY <1>11, <1>12, <1>13, <1>16, <1>17, <1>18, Assemble
----------------------------------------------------------------------------
(* A transfer: where it is, and what it calls.                             *)

\* The offsets and patterns of the model are those of transfer i of a rank.
LEMMA OffsetIs ==
    ASSUME job \in JobType, NEW r \in Ranks, NEW access
    PROVE  /\ Pretend(r, access) \in Ranks
           /\ access = "WRITE" \/ job.rankOffset = 0 => Pretend(r, access) = r
           /\ segmentSize = SegmentSize(job)
           /\ segmentPosition(r, access) = Start(job, Pretend(r, access))
           /\ Offset(r, access) = Off(job, Pretend(r, access), n[r])
           /\ Pattern(r, access) = Tok(job, Pretend(r, access), n[r])
           /\ FileOf(Pretend(r, access)) = File(job, Pretend(r, access))
<1>1. r \in 0..(N - 1) /\ job.rankOffset \in 0..(N - 1) /\ N \in Nat \ {0}
  BY JobParts, MpiAssumption DEF Ranks
<1>2. Pretend(r, access) \in Ranks /\ (access = "WRITE" \/ job.rankOffset = 0 => Pretend(r, access) = r)
  <2>1. CASE access = "WRITE"
    <3>1. Pretend(r, access) = r
      BY <2>1 DEF Pretend
    <3> QED
      BY <3>1
  <2>2. CASE access # "WRITE"
    <3> DEFINE x == r + job.rankOffset
    <3>1. Pretend(r, access) = x % N /\ x \in Nat
      BY <1>1, <2>2 DEF Pretend
    <3>2. job.rankOffset = 0 => x = r
      BY <1>1
    <3>3. r % N = r
      BY <1>1
    <3> HIDE DEF x
    <3>4. x % N \in 0..(N - 1)
      BY <1>1, <3>1, DivMod
    <3> QED
      BY <2>2, <3>1, <3>2, <3>3, <3>4 DEF Ranks
  <2> QED
    BY <2>1, <2>2
<1>3. segmentSize = SegmentSize(job)
  BY DEF segmentSize, SegmentSize, tasksPerFile, T
<1>4. segmentPosition(r, access) = Start(job, Pretend(r, access))
  BY DEF segmentPosition, Start, T
<1>5. Offset(r, access) = Off(job, Pretend(r, access), n[r])
  BY <1>3, <1>4 DEF Offset, Off, T
<1>6. Pattern(r, access) = Tok(job, Pretend(r, access), n[r])
  BY <1>5 DEF Pattern, Tok
<1>7. FileOf(Pretend(r, access)) = File(job, Pretend(r, access))
  BY DEF FileOf, File
<1> QED
  BY <1>2, <1>3, <1>4, <1>5, <1>6, <1>7

\* A collective transfer is one call, any other is none.
LEMMA TransferIs ==
    ASSUME job \in JobType
    PROVE  Transfer \in Seq(Collectives) /\ Len(Transfer) = Optional(job.collective /\ ~job.filePerProc)
<1>1. <<"Transfer">> \in Seq(Collectives) /\ Len(<<"Transfer">>) = 1 /\ << >> \in Seq(Collectives)
      /\ Len(<< >>) = 0
  BY OneOp, EmptySeq DEF Collectives, Synchronizing
<1>2. Transfer = IF job.collective /\ ~job.filePerProc THEN <<"Transfer">> ELSE << >>
  BY DEF Transfer, OnTestComm
<1>3. CASE job.collective /\ ~job.filePerProc
  BY <1>1, <1>2, <1>3 DEF Optional
<1>4. CASE ~(job.collective /\ ~job.filePerProc)
  BY <1>1, <1>2, <1>4 DEF Optional
<1> QED
  BY <1>3, <1>4

\* A rank makes the transfer of one of its places.
Does(r, access, next) ==
    \E ops \in Seq(Collectives) : \E cells :
        /\ Access(r, access, cells, ops, next)
        /\ Reads \/ job.api = "EMC" => cells = Cells(job, Pretend(r, access), n[r])
        /\ Reads => Len(ops) = XferCalls(job, access, n[r])

\* The row of the transfer before: a block has as many transfers as a row.
LEMMA NextRow ==
    ASSUME NEW d \in Nat \ {0}, NEW i \in Nat \ {0}
    PROVE  IF i % d = 0 THEN (i - 1) \div d + 1 = i \div d ELSE (i - 1) \div d = i \div d
<1> DEFINE a == i \div d
           b == i % d
<1>1. a \in Nat /\ b \in 0..(d - 1) /\ i = d * a + b
  BY DivMod
<1> HIDE DEF a, b
<1>2. CASE b = 0
  <2>1. a # 0
    <3>1. a = 0 => d * a = 0
      OBVIOUS
    <3> QED
      BY <1>1, <1>2, <3>1
  <2>2. a - 1 \in Nat /\ d * a = d * (a - 1) + d
    BY <1>1, <2>1
  <2>3. d * (a - 1) \in Nat
    BY <2>2
  <2>4. i - 1 = d * (a - 1) + (d - 1) /\ d - 1 \in 0..(d - 1)
    BY <1>1, <1>2, <2>2, <2>3
  <2>5. (i - 1) \div d = a - 1
    BY <2>2, <2>4, DivOf
  <2>6. (i - 1) \div d + 1 = a
    BY <1>1, <2>5
  <2> QED
    BY <1>2, <2>6 DEF a, b
<1>3. CASE b # 0
  <2>1. d * a \in Nat
    BY <1>1
  <2>2. i - 1 = d * a + (b - 1) /\ b - 1 \in 0..(d - 1)
    BY <1>1, <1>3, <2>1
  <2>3. (i - 1) \div d = a
    BY <1>1, <2>2, DivOf
  <2> QED
    BY <1>3, <2>3 DEF a, b
<1> QED
  BY <1>2, <1>3

\* HDF5: the data set that is open is that of the segment.
LEMMA HDF5Means ==
    ASSUME SensibleJobs, Good, NEW r \in Ranks, NEW access \in {"WRITE", ReadAccess}, NEW next,
           job.api = "HDF5", access # "WRITE" => Reads, HDF5_Xfer(r, access, next),
           at[r] \in {"write", "read"}
    PROVE  /\ Does(r, access, next)
           /\ h' = [h EXCEPT ![r] = h'[r]] /\ h'[r] \in Handles
           /\ ~h'[r].newlyOpened /\ h'[r].suffix = n[r] \div T
<1> DEFINE p == Pretend(r, access)
           i == n[r]
           starts == StartsDataSet(r, access)
           set == SetupDataSet(r, access)
<1>1. job \in JobType /\ Sensible(job) /\ TypeInv /\ HandleInv(r) /\ n[r] \in Nat
  BY Before
<1>2. /\ h \in [Ranks -> Handles] /\ h[r] \in Handles
      /\ h[r].newlyOpened <=> n[r] = 0
      /\ n[r] > 0 => h[r].suffix = (n[r] - 1) \div T
  BY <1>1 DEF TypeInv, HandleInv, HDF5Inv
<1>3. T \in Nat \ {0} /\ T = job.transfers
  BY <1>1, JobParts DEF T
<1>4. access # "READCHECK"
  BY <1>1 DEF Sensible, ReadAccess, Reads
<1>5. /\ p \in Ranks /\ segmentSize = SegmentSize(job) /\ segmentPosition(r, access) = Start(job, p)
      /\ Offset(r, access) = Off(job, p, i)
  BY <1>1, OffsetIs
<1> HIDE DEF p
<1>6. /\ (Offset(r, access) - segmentPosition(r, access)) % segmentSize = i % T
      /\ Offset(r, access) % segmentSize = Start(job, p) + (i % T)
  BY <1>1, <1>3, <1>5, OffsetTells
<1>7. starts <=> i % T = 0
  BY <1>4, <1>6 DEF StartsDataSet
<1>8. 0 % T = 0 /\ 0 \div T = 0
  BY <1>3
<1>9. set = i \div T /\ i \div T \in Nat
  <2>1. i \div T \in Nat
    BY <1>1, <1>3, DivMod
  <2>2. CASE i = 0
    BY <1>2, <1>7, <1>8, <2>1, <2>2 DEF SetupDataSet
  <2>3. CASE i # 0
    <3>1. IF i % T = 0 THEN (i - 1) \div T + 1 = i \div T ELSE (i - 1) \div T = i \div T
      BY <1>1, <1>3, <2>3, NextRow
    <3>2. h[r].suffix = (i - 1) \div T /\ ~h[r].newlyOpened
      BY <1>1, <1>2, <2>3
    <3> QED
      BY <1>7, <2>1, <3>1, <3>2 DEF SetupDataSet
  <2> QED
    BY <2>2, <2>3
<1>10. ~(h[r].newlyOpened /\ ~starts)
  BY <1>2, <1>7, <1>8
<1> DEFINE ops == SetupCalls(r, access) \o Transfer
           cells == {<<set, SeekOffset(r, access)>>}
           new == [h[r] EXCEPT !.newlyOpened = FALSE, !.firstReadCheck = Toggled(r, access), !.suffix = set]
<1>11. Access(r, access, cells, ops, next) /\ h' = [h EXCEPT ![r] = new]
  BY <1>2, <1>10 DEF HDF5_Xfer
<1>12. cells = Cells(job, p, i)
  BY <1>3, <1>6, <1>9 DEF Cells, SeekOffset
<1>13. new \in Handles /\ ~new.newlyOpened /\ new.suffix = i \div T
  <2>1. Toggled(r, access) \in BOOLEAN
    BY DEF Toggled
  <2> QED
    BY <1>2, <1>9, <2>1 DEF Handles
<1>14. ops \in Seq(Collectives) /\ Len(ops) = XferCalls(job, access, i)
  <2> DEFINE pre == SetupCalls(r, access)
  <2>1. /\ <<"Define">> \in Seq(Collectives) /\ Len(<<"Define">>) = 1 /\ << >> \in Seq(Collectives)
        /\ Len(<< >>) = 0
    BY OneOp, EmptySeq DEF Collectives, Synchronizing
  <2>2. pre = IF access = "WRITE" /\ i % T = 0 /\ ~job.filePerProc THEN <<"Define">> ELSE << >>
    BY <1>7 DEF SetupCalls, OnTestComm
  <2>3. pre \in Seq(Collectives) /\ Len(pre) = Optional(access = "WRITE" /\ i % T = 0 /\ ~job.filePerProc)
    BY <2>1, <2>2 DEF Optional
  <2> HIDE DEF pre
  <2>4. Transfer \in Seq(Collectives) /\ Len(Transfer) = Optional(job.collective /\ ~job.filePerProc)
    BY <1>1, TransferIs
  <2> DEFINE post == Transfer
  <2>5. pre \o post \in Seq(Collectives) /\ Len(pre \o post) = Len(pre) + Len(post)
    <3>1. pre \in Seq(Collectives) /\ post \in Seq(Collectives)
      BY <2>3, <2>4
    <3> HIDE DEF post
    <3> QED
      BY <3>1, Joined
  <2>6. Len(pre) + Len(Transfer) = XferCalls(job, access, i)
    <3>1. CASE job.filePerProc
      BY <2>3, <2>4, <3>1 DEF XferCalls, Optional
    <3>2. CASE ~job.filePerProc
      <4>1. XferCalls(job, access, i) = Optional(job.collective) + Optional(access = "WRITE" /\ i % T = 0)
        BY <1>3, <3>2 DEF XferCalls, Object
      <4> QED
        BY <2>3, <2>4, <3>2, <4>1 DEF Optional
    <3> QED
      BY <3>1, <3>2
  <2> QED
    BY <2>5, <2>6 DEF pre
<1> HIDE DEF ops, cells, new, set, starts
<1>15. Does(r, access, next)
  BY <1>11, <1>12, <1>14 DEF Does, p
<1>16. h'[r] = new
  BY <1>2, <1>11
<1> QED
  BY <1>11, <1>13, <1>15, <1>16

\* NetCDF: the row is that of the rank, and the data mode the one of the calls.
LEMMA NCMPIMeans ==
    ASSUME SensibleJobs, Good, NEW r \in Ranks, NEW access \in {"WRITE", ReadAccess}, NEW next,
           job.api = "NCMPI", access # "WRITE" => Reads, NCMPI_Xfer(r, access, next),
           at[r] = IF access = "WRITE" THEN "write" ELSE "read"
    PROVE  \/ stopped' /\ job.big /\ XferFails
           \/ /\ Does(r, access, next)
              /\ h' = [h EXCEPT ![r] = h'[r]] /\ h'[r] \in Handles
              /\ h'[r].indep = ~job.collective
              /\ access = "WRITE" => /\ ~h'[r].startDataSet /\ h'[r].defined
                                     /\ h'[r].firstReadCheck = h[r].firstReadCheck
                                     /\ job.big => n[r] + 1 <= T
              /\ access # "WRITE" /\ ~job.collective => ~h'[r].startDataSet
<1> DEFINE i == n[r]
           first0 == AtStart(r, access)
           start == h[r].startDataSet \/ AtStart(r, access)
           first == IF AtStart(r, access) THEN Toggled(r, access) ELSE h[r].firstReadCheck
           begins == start /\ (access = "READCHECK" => first)
           defines == begins /\ access = "WRITE"
           independent == begins /\ ~job.collective
           indep == h[r].indep \/ independent
           d == IF defines THEN <<"Define">> ELSE << >>
           m == IF independent THEN <<"Independent">> ELSE << >>
           ops == d \o m \o Transfer
           new == [h[r] EXCEPT !.startDataSet = start /\ ~begins, !.firstReadCheck = first,
                               !.defined = h[r].defined \/ defines, !.indep = indep]
<1>1. /\ job \in JobType /\ ValidateTests(job) /\ Sensible(job) /\ TypeInv /\ HandleInv(r) /\ n[r] \in Nat
      /\ PlaceInv(r)
  BY Before
<1>2. h \in [Ranks -> Handles] /\ h[r] \in Handles
  BY <1>1 DEF TypeInv
<1>3. NCMPIInv(r)
  BY <1>1 DEF HandleInv
<1>4. /\ T \in Nat \ {0} /\ T = job.transfers /\ ~job.filePerProc /\ job.collective \in BOOLEAN
      /\ job.big \in BOOLEAN
  BY <1>1, JobParts DEF T, ValidateTests
<1>5. Pretend(r, access) = r
  <2>1. access = "WRITE" \/ job.rankOffset = 0
    BY <1>1 DEF Sensible, Reads
  <2> QED
    BY <1>1, <2>1, OffsetIs
<1>6. /\ segmentSize = SegmentSize(job) /\ segmentPosition(r, access) = Start(job, r)
      /\ Offset(r, access) = Off(job, r, i)
  BY <1>1, <1>5, OffsetIs
<1>7. /\ Off(job, r, i) \div SegmentSize(job) = i \div T /\ Off(job, r, i) % T = i % T
      /\ (Off(job, r, i) - Start(job, r)) % SegmentSize(job) = i % T
      /\ Off(job, r, i) - Start(job, r) = 0 <=> i = 0
  BY <1>1, <1>4, OffsetTells
<1>8. Row(r, access) = <<(i \div T) * N + r, i % T>>
  BY <1>6, <1>7 DEF Row
<1>9. AtStart(r, access) <=> i = 0 \/ (job.big /\ i % T = 0)
  BY <1>6, <1>7 DEF AtStart
<1>10. {Row(r, access)} = Cells(job, Pretend(r, access), i)
  BY <1>4, <1>5, <1>8 DEF Cells
<1>11. IF (defines /\ h[r].defined) \/ indep = job.collective THEN XferFails
       ELSE /\ Access(r, access, {Row(r, access)}, ops, next)
            /\ h' = [h EXCEPT ![r] = new]
  BY <1>2 DEF NCMPI_Xfer
<1>12. access \in {"WRITE", "READ", "READCHECK"}
  BY DEF ReadAccess
<1>13. /\ h[r].startDataSet \in BOOLEAN /\ h[r].firstReadCheck \in BOOLEAN /\ h[r].defined \in BOOLEAN
       /\ h[r].indep \in BOOLEAN
  BY <1>2 DEF Handles
<1>14. /\ defines \in BOOLEAN /\ independent \in BOOLEAN /\ indep \in BOOLEAN /\ first \in BOOLEAN
       /\ start \in BOOLEAN /\ begins \in BOOLEAN /\ first0 \in BOOLEAN
  BY <1>13 DEF AtStart, Toggled
<1>15. new \in Handles /\ new.startDataSet = (start /\ ~begins) /\ new.firstReadCheck = first
       /\ new.defined = (h[r].defined \/ defines) /\ new.indep = indep
  <2> HIDE DEF defines, independent, indep, first, start, begins
  <2> QED
    BY <1>2, <1>13, <1>14 DEF Handles
\* How the toggles are before and after.
<1>16. ASSUME access = "WRITE"
       PROVE  \/ job.big /\ defines /\ h[r].defined
              \/ /\ ~(defines /\ h[r].defined) /\ indep = ~job.collective
                 /\ ~(start /\ ~begins) /\ (h[r].defined \/ defines)
                 /\ first = h[r].firstReadCheck
                 /\ job.big => n[r] + 1 <= T
                 /\ defines <=> i = 0
                 /\ independent <=> i = 0 /\ ~job.collective
  <2>1. begins = start /\ first = h[r].firstReadCheck /\ defines = start
    BY <1>13, <1>14, <1>16 DEF Toggled
  <2>2. at[r] = "write"
    BY <1>16
  <2>3. CASE i = 0
    <3>1. ~h[r].defined /\ ~h[r].indep
      BY <1>3, <2>2, <2>3 DEF NCMPIInv
    <3>2. start /\ defines
      BY <1>9, <2>1, <2>3
    <3>3. n[r] + 1 <= T
      BY <1>4, <2>3
    <3> QED
      BY <1>4, <1>14, <2>1, <2>3, <3>1, <3>2, <3>3
  <2>4. CASE i > 0
    <3>1. /\ ~h[r].startDataSet /\ h[r].indep = ~job.collective /\ h[r].defined
          /\ job.big => n[r] <= T
      BY <1>3, <2>2, <2>4 DEF NCMPIInv
    <3>2. start <=> job.big /\ i % T = 0
      BY <1>9, <2>4, <3>1
    <3>3. CASE start
      BY <2>1, <3>1, <3>2, <3>3
    <3>4. CASE ~start
      <4>1. ~defines /\ ~independent /\ ~begins
        BY <2>1, <3>4
      <4>2. job.big => n[r] + 1 <= T
        <5>1. T % T = 0
          BY <1>4
        <5>2. job.big => n[r] # T
          BY <3>2, <3>4, <5>1
        <5> QED
          BY <1>1, <1>4, <3>1, <5>2
      <4>3. indep = ~job.collective
        BY <3>1, <4>1
      <4>4. ~(defines <=> TRUE) /\ i # 0
        BY <2>4, <4>1
      <4> QED
        BY <2>1, <3>1, <3>4, <4>1, <4>2, <4>3, <4>4
    <3> QED
      BY <3>3, <3>4
  <2> QED
    BY <1>1, <2>3, <2>4
<1>17. ASSUME access # "WRITE"
       PROVE  /\ ~defines /\ indep = ~job.collective
              /\ ~job.collective => ~(start /\ ~begins)
              /\ independent <=> i = 0 /\ ~job.collective
  <2>1. at[r] = "read" /\ Reads /\ ~defines
    BY <1>17
  <2>2. CASE i = 0
    <3>1. start /\ ~h[r].indep /\ first = Toggled(r, access)
      BY <1>3, <1>9, <2>1, <2>2 DEF NCMPIInv
    <3>2. ASSUME ~job.collective PROVE begins
      <4>1. CASE access = "READCHECK"
        <5>1. job.readCheck
          BY <4>1 DEF ReadAccess
        <5>2. ~h[r].firstReadCheck
          BY <1>3, <2>1, <2>2, <3>2, <5>1 DEF NCMPIInv
        <5>3. Toggled(r, access)
          BY <4>1, <5>2 DEF Toggled
        <5> QED
          BY <3>1, <5>3
      <4>2. CASE access # "READCHECK"
        BY <3>1, <4>2
      <4> QED
        BY <4>1, <4>2
    <3>3. CASE job.collective
      BY <2>1, <2>2, <3>1, <3>3
    <3>4. CASE ~job.collective
      BY <2>1, <2>2, <3>1, <3>2, <3>4
    <3> QED
      BY <3>3, <3>4
  <2>3. CASE i > 0
    <3>1. h[r].indep = ~job.collective /\ (~job.collective => ~h[r].startDataSet)
      BY <1>3, <2>1, <2>3 DEF NCMPIInv
    <3>2. ~AtStart(r, access)
      <4>1. ASSUME job.big PROVE i % T # 0
        <5>1. S = 1
          BY <1>3, <2>1, <4>1 DEF NCMPIInv
        <5>2. n[r] < Total(job) /\ Total(job) = S * T
          BY <1>1, <2>1 DEF PlaceInv, Total, S, T
        <5>3. n[r] < T
          BY <1>4, <5>1, <5>2
        <5>4. i % T = i
          BY <1>1, <1>4, <5>3
        <5> QED
          BY <2>3, <5>4
      <4> QED
        BY <1>9, <2>3, <4>1
    <3>3. start = h[r].startDataSet
      BY <1>13, <3>2
    <3>4. ~independent
      BY <3>1, <3>3
    <3>5. i # 0
      BY <1>1, <2>3
    <3>6. indep = h[r].indep
      BY <1>13, <3>4
    <3>7. ~job.collective => ~start
      BY <3>1, <3>3
    <3> QED
      BY <2>1, <3>1, <3>4, <3>5, <3>6, <3>7
  <2>4. i = 0 \/ i > 0
    BY <1>1
  <2> HIDE DEF i
  <2> QED
    BY <2>2, <2>3, <2>4
<1>18. ASSUME defines <=> (access = "WRITE" /\ i = 0), independent <=> i = 0 /\ ~job.collective
       PROVE  ops \in Seq(Collectives) /\ Len(ops) = XferCalls(job, access, i)
  <2>1. /\ <<"Define">> \in Seq(Collectives) /\ Len(<<"Define">>) = 1
        /\ <<"Independent">> \in Seq(Collectives) /\ Len(<<"Independent">>) = 1
        /\ << >> \in Seq(Collectives) /\ Len(<< >>) = 0
    BY OneOp, EmptySeq DEF Collectives, Synchronizing
  <2>2. /\ d \in Seq(Collectives) /\ Len(d) = Optional(access = "WRITE" /\ i = 0)
        /\ m \in Seq(Collectives) /\ Len(m) = Optional(i = 0 /\ ~job.collective)
    <3>1. /\ d = IF access = "WRITE" /\ i = 0 THEN <<"Define">> ELSE << >>
          /\ m = IF i = 0 /\ ~job.collective THEN <<"Independent">> ELSE << >>
      BY <1>18
    <3> HIDE DEF d, m
    <3> QED
      BY <2>1, <3>1 DEF Optional
  <2> DEFINE post == Transfer
  <2>3. post \in Seq(Collectives) /\ Len(post) = Optional(job.collective /\ ~job.filePerProc)
    BY <1>1, TransferIs
  <2> HIDE DEF d, m, post
  <2> DEFINE dm == d \o m
  <2>4. dm \in Seq(Collectives) /\ Len(dm) = Len(d) + Len(m)
    <3>1. d \in Seq(Collectives) /\ m \in Seq(Collectives)
      BY <2>2
    <3> QED
      BY <3>1, Joined
  <2> HIDE DEF dm
  <2>5. dm \o post \in Seq(Collectives) /\ Len(dm \o post) = Len(dm) + Len(post)
    <3>1. dm \in Seq(Collectives) /\ post \in Seq(Collectives)
      BY <2>3, <2>4
    <3> QED
      BY <3>1, Joined
  <2>6. XferCalls(job, access, i) = Optional(job.collective)
                                    + (IF i = 0 THEN Optional(access = "WRITE") + Optional(~job.collective) ELSE 0)
    BY <1>4 DEF XferCalls, Object
  <2>7. Len(dm) + Len(post) = XferCalls(job, access, i)
    BY <1>4, <2>2, <2>3, <2>4, <2>6 DEF Optional
  <2> QED
    BY <2>5, <2>7 DEF dm, d, m, post
<1> HIDE DEF ops, new, defines, independent, indep, first, start, begins, d, m, i
<1>19. CASE (defines /\ h[r].defined) \/ indep = job.collective
  <2>1. XferFails
    BY <1>11, <1>19
  <2>2. job.big
    BY <1>4, <1>16, <1>17, <1>19
  <2>3. stopped'
    BY <2>1 DEF XferFails, ERR
  <2> QED
    BY <2>1, <2>2, <2>3
<1>20. CASE ~((defines /\ h[r].defined) \/ indep = job.collective)
  <2>1. Access(r, access, {Row(r, access)}, ops, next) /\ h' = [h EXCEPT ![r] = new]
    BY <1>11, <1>20
  <2>2. h'[r] = new
    BY <1>2, <2>1
  <2>3. /\ defines <=> (access = "WRITE" /\ i = 0)
        /\ independent <=> i = 0 /\ ~job.collective
    BY <1>16, <1>17, <1>20
  <2>4. ops \in Seq(Collectives) /\ Len(ops) = XferCalls(job, access, i)
    BY <1>18, <2>3
  <2>5. Does(r, access, next)
    BY <1>10, <2>1, <2>4 DEF Does, i
  <2>8. h' = [h EXCEPT ![r] = h'[r]] /\ h'[r] \in Handles
    BY <1>15, <2>1, <2>2
  <2>6. CASE access = "WRITE"
    <3>1. /\ indep = ~job.collective /\ ~(start /\ ~begins) /\ (h[r].defined \/ defines)
          /\ first = h[r].firstReadCheck
          /\ job.big => n[r] + 1 <= T
      BY <1>16, <1>20, <2>6
    <3>2. /\ h'[r].indep = ~job.collective /\ ~h'[r].startDataSet /\ h'[r].defined
          /\ h'[r].firstReadCheck = h[r].firstReadCheck
      BY <1>15, <2>2, <3>1
    <3> QED
      BY <2>5, <2>6, <2>8, <3>1, <3>2
  <2>7. CASE access # "WRITE"
    <3>1. indep = ~job.collective /\ (~job.collective => ~(start /\ ~begins))
      BY <1>17, <2>7
    <3>2. h'[r].indep = ~job.collective /\ (~job.collective => ~h'[r].startDataSet)
      BY <1>15, <2>2, <3>1
    <3> QED
      BY <2>5, <2>7, <2>8, <3>2
  <2> QED
    BY <2>6, <2>7
<1> QED
  BY <1>19, <1>20

\* The position in a file view is the number of the transfer.
LEMMA SeekIs ==
    ASSUME SensibleJobs, Good, NEW r \in Ranks, NEW access
    PROVE  /\ SeekView(r, access) = n[r]
           /\ job.filePerProc => Off(job, Pretend(r, access), n[r]) = n[r]
<1> DEFINE p == Pretend(r, access)
           i == n[r]
           a == i \div T
           b == i % T
           o == Off(job, p, i)
           L == SegmentSize(job)
           z == Start(job, p)
<1>1. job \in JobType /\ i \in Nat
  BY Before
<1>2. T \in Nat \ {0} /\ T = job.transfers
  BY <1>1, JobParts DEF T
<1>3. /\ p \in Ranks /\ segmentSize = L /\ segmentPosition(r, access) = z /\ Offset(r, access) = o
  BY <1>1, OffsetIs
<1>4. a \in Nat /\ b \in 0..(T - 1) /\ i = T * a + b
  BY <1>1, <1>2, DivMod
<1>5. o \div L = a /\ o % L = z + b /\ o = L * a + (z + b)
  <2> HIDE DEF p
  <2> QED
    BY <1>1, <1>2, <1>3, OffsetTells
<1>6. z \in Nat
  <2>1. 0 \in 0..(job.transfers - 1)
    BY <1>2
  <2> HIDE DEF p
  <2> QED
    BY <1>1, <1>3, <2>1, BlocksFit
<1> HIDE DEF p, i, a, b, o, L, z
<1>7. CASE job.filePerProc
  <2>1. L = T /\ z = 0
    BY <1>2, <1>7 DEF L, z, SegmentSize, Start
  <2>2. o = i
    BY <1>1, <1>2, <1>4, <1>5, <2>1
  <2>3. SeekView(r, access) = o
    BY <1>3, <1>7 DEF SeekView
  <2> QED
    BY <2>2, <2>3 DEF i, o, p
<1>8. CASE ~job.filePerProc
  <2>1. SeekView(r, access) = T * a + (z + b) - z
    BY <1>3, <1>5, <1>8 DEF SeekView
  <2>2. T * a \in Nat
    BY <1>2, <1>4
  <2>3. T * a + (z + b) - z = i
    BY <1>4, <1>6, <2>2
  <2> QED
    BY <1>8, <2>1, <2>3 DEF i
<1> QED
  BY <1>7, <1>8

\* A rank's view of the file puts the transfers where they belong.
LEMMA ViewMeans ==
    ASSUME SensibleJobs, Good, NEW r \in Ranks, NEW access, NEW next,
           job.api = "VIEW", MPIIO_Xfer(r, access, next)
    PROVE  Does(r, access, next) /\ UNCHANGED h
<1> DEFINE p == Pretend(r, access)
           i == n[r]
           cells == {InView(r, access, SeekView(r, access))}
<1>1. job \in JobType /\ i \in Nat /\ T = job.transfers
  BY Before DEF T
<1>2. segmentSize = SegmentSize(job) /\ segmentPosition(r, access) = Start(job, p)
  BY <1>1, OffsetIs
<1>3. SeekView(r, access) = i
  BY SeekIs
<1> HIDE DEF p, i
<1>4. InView(r, access, SeekView(r, access)) = <<0, Off(job, p, i)>>
  BY <1>1, <1>2, <1>3 DEF InView, Off
<1>5. cells = Cells(job, p, i)
  BY <1>4 DEF Cells
<1>6. Transfer \in Seq(Collectives) /\ Len(Transfer) = XferCalls(job, access, i)
  <2>1. Transfer \in Seq(Collectives) /\ Len(Transfer) = Optional(job.collective /\ ~job.filePerProc)
    BY <1>1, TransferIs
  <2>2. XferCalls(job, access, i) = Optional(job.collective /\ ~job.filePerProc)
    BY DEF XferCalls, Object, Optional
  <2> QED
    BY <2>1, <2>2
<1>7. Access(r, access, cells, Transfer, next) /\ UNCHANGED h
  BY DEF MPIIO_Xfer
<1> QED
  BY <1>5, <1>6, <1>7 DEF Does, p, i

\* The first transfers of a strided datatype are those of the first segment.
LEMMA StridedMeans ==
    ASSUME SensibleJobs, Good, NEW r \in Ranks, NEW access \in {"WRITE", ReadAccess}, NEW next,
           job.api = "STRIDED", access # "WRITE" => Reads, n[r] < Total(job),
           MPIIO_XferStrided(r, access, next)
    PROVE  Does(r, access, next) /\ UNCHANGED h
<1> DEFINE i == n[r]
           o == Offset(r, access)
           far == o >= (r + 1) * T
           cells == IF far THEN {} ELSE {<<0, o + s * segmentSize>> : s \in 0..(S - 1)}
           set == OnTestComm(<<"SetView">>)
           ops == IF far THEN << >> ELSE set \o Transfer
<1>1. job \in JobType /\ Sensible(job) /\ i \in Nat
  BY Before
<1>2. T = job.transfers /\ T \in Nat \ {0} /\ S = job.segments /\ r \in 0..(N - 1) /\ N \in Nat \ {0}
      /\ i < S * T
  BY <1>1, JobParts, MpiAssumption DEF T, S, Ranks, Total
<1>3. Access(r, access, cells, ops, next) /\ UNCHANGED h
  BY DEF MPIIO_XferStrided
<1>4. ASSUME Reads PROVE Pretend(r, access) = r /\ (job.filePerProc => S = 1)
  <2>1. access = "WRITE" \/ job.rankOffset = 0
    BY <1>1, <1>4 DEF Sensible, Reads
  <2>2. job.filePerProc => S = 1
    BY <1>1, <1>2, <1>4 DEF Sensible, Reads
  <2> QED
    BY <1>1, <2>1, <2>2, OffsetIs
<1>5. ASSUME Reads
      PROVE  /\ segmentSize = SegmentSize(job) /\ o = Off(job, r, i)
             /\ far <=> ~(i < T)
  <2>1. segmentSize = SegmentSize(job) /\ o = Off(job, r, i)
    BY <1>1, <1>4, <1>5, OffsetIs
  <2> DEFINE a == i \div T
             b == i % T
             L == SegmentSize(job)
             z == Start(job, r)
  <2>2. a \in Nat /\ b \in 0..(T - 1) /\ i = T * a + b
    BY <1>1, <1>2, DivMod
  <2>3. o = L * a + (z + b)
    BY <1>1, <1>2, <2>1, OffsetTells
  <2>4. /\ job.filePerProc => L = T /\ z = 0
        /\ ~job.filePerProc => L = N * T /\ z = r * T
    BY <1>2 DEF SegmentSize, Start
  <2>5. far <=> o >= (r + 1) * T
    OBVIOUS
  <2> HIDE DEF a, b, L, z, o, far, i
  <2>6. r * T \in Nat /\ N * T \in Nat /\ T * a \in Nat /\ (r + 1) * T = r * T + T
    BY <1>2, <2>2
  <2>7. CASE i < T
    <3>1. a = 0
      <4>1. a # 0 => T * a >= T
        <5>1. a # 0 => 1 <= a
          BY <2>2
        <5>2. a # 0 => T * 1 <= T * a
          BY <1>2, <2>2, <5>1, TimesMonotone
        <5> QED
          BY <1>2, <5>2
      <4> QED
        BY <1>2, <2>2, <2>6, <2>7, <4>1
    <3>2. i = b
      BY <1>2, <2>2, <3>1
    <3>3. L * a = 0
      BY <1>2, <2>4, <2>6, <3>1
    <3>4. o = z + b
      BY <2>2, <2>3, <2>4, <2>6, <3>3
    <3>5. z <= r * T /\ z \in Nat
      BY <2>4, <2>6
    <3>6. o < (r + 1) * T /\ o \in Nat
      BY <1>2, <2>2, <2>6, <3>4, <3>5
    <3>7. ~(o >= (r + 1) * T)
      BY <1>2, <2>6, <3>6
    <3> QED
      BY <2>1, <2>5, <2>7, <3>7
  <2>8. CASE ~(i < T)
    <3>1. ~job.filePerProc
      <4>1. S = 1 => ~(~(i < T))
        BY <1>2 DEF i
      <4> QED
        BY <1>4, <1>5, <2>8, <4>1
    <3>2. 1 <= a
      <4>1. a # 0
        BY <1>2, <2>2, <2>8
      <4> QED
        BY <2>2, <4>1
    <3>3. L * 1 <= L * a /\ L = N * T /\ L \in Nat
      <4>1. L = N * T /\ L \in Nat
        BY <2>4, <2>6, <3>1
      <4> QED
        BY <2>2, <3>2, <4>1, TimesMonotone
    <3>4. (r + 1) * T <= N * T
      <4>1. r + 1 \in Nat /\ r + 1 <= N
        BY <1>2
      <4>2. T * (r + 1) <= T * N
        BY <1>2, <4>1, TimesMonotone
      <4>3. T * (r + 1) = (r + 1) * T /\ T * N = N * T
        BY <1>2
      <4> QED
        BY <4>2, <4>3
    <3>5. z + b \in Nat
      BY <2>2, <2>4, <2>6
    <3>6. L * a \in Nat /\ (r + 1) * T \in Nat
      BY <1>2, <2>2, <3>3
    <3>7. o >= (r + 1) * T
      BY <1>2, <2>3, <2>6, <3>3, <3>4, <3>5, <3>6
    <3> QED
      BY <2>1, <2>5, <2>8, <3>7
  <2> QED
    BY <2>1, <2>7, <2>8
<1>6. set \in Seq(Collectives) /\ Len(set) = Optional(~job.filePerProc)
  <2>1. <<"SetView">> \in Seq(Collectives) /\ Len(<<"SetView">>) = 1
    BY OneOp DEF Collectives, Synchronizing
  <2>2. /\ set \in Seq(Collectives) /\ (~job.filePerProc => set = <<"SetView">>)
        /\ job.filePerProc => Len(set) = 0
    BY <1>1, <2>1, IfShared
  <2> HIDE DEF set
  <2> QED
    BY <2>1, <2>2 DEF Optional
<1>7. ops \in Seq(Collectives)
      /\ Len(ops) = IF far THEN 0 ELSE Optional(~job.filePerProc) + Optional(job.collective /\ ~job.filePerProc)
  <2> DEFINE post == Transfer
  <2>1. post \in Seq(Collectives) /\ Len(post) = Optional(job.collective /\ ~job.filePerProc)
    BY <1>1, TransferIs
  <2>2. set \o post \in Seq(Collectives) /\ Len(set \o post) = Len(set) + Len(post)
    <3> HIDE DEF set, post
    <3>1. set \in Seq(Collectives) /\ post \in Seq(Collectives)
      BY <1>6, <2>1
    <3> QED
      BY <3>1, Joined
  <2>3. << >> \in Seq(Collectives) /\ Len(<< >>) = 0
    BY EmptySeq
  <2>4. ops = IF far THEN << >> ELSE set \o post
    OBVIOUS
  <2> HIDE DEF ops, set, post, far
  <2> QED
    BY <1>6, <2>1, <2>2, <2>3, <2>4
<1>8. ASSUME Reads PROVE Len(ops) = XferCalls(job, access, i)
  <2>1. far <=> ~(i < T)
    BY <1>5, <1>8
  <2>2. XferCalls(job, access, i) = IF job.filePerProc THEN 0
                                    ELSE IF i < T THEN 1 + Optional(job.collective) ELSE 0
    BY <1>2 DEF XferCalls, Object
  <2>3. Len(ops) = IF far THEN 0 ELSE Optional(~job.filePerProc) + Optional(job.collective /\ ~job.filePerProc)
    BY <1>7
  <2> HIDE DEF ops, far, i
  <2> QED
    BY <2>1, <2>2, <2>3 DEF Optional
<1>9. ASSUME Reads PROVE cells = Cells(job, Pretend(r, access), i)
  <2>1. /\ segmentSize = SegmentSize(job) /\ o = Off(job, r, i) /\ Pretend(r, access) = r
        /\ far <=> ~(i < T)
    BY <1>4, <1>5, <1>9
  <2>2. cells = IF far THEN {} ELSE {<<0, o + s * segmentSize>> : s \in 0..(S - 1)}
    OBVIOUS
  <2> HIDE DEF cells, far, o, i
  <2> QED
    BY <1>2, <2>1, <2>2 DEF Cells
<1> HIDE DEF ops, cells
<1>10. job.api # "EMC"
  OBVIOUS
<1> QED
  BY <1>3, <1>7, <1>8, <1>9, <1>10 DEF Does

\* As many cells as have been appended.
LEMMA CellsCounted ==
    ASSUME NEW k \in Nat
    PROVE  Cardinality({<<0, c>> : c \in 0..(k - 1)}) = k
<1> DEFINE A == 0..(k - 1)
           B == {<<0, c>> : c \in A}
           f == [c \in A |-> <<0, c>>]
<1>1. IsFiniteSet(A) /\ Cardinality(A) = k
  <2>1. 0 \in Int /\ k - 1 \in Int
    OBVIOUS
  <2>2. IsFiniteSet(A) /\ Cardinality(A) = IF 0 > k - 1 THEN 0 ELSE (k - 1) - 0 + 1
    BY <2>1, FS_Interval
  <2> HIDE DEF A
  <2> QED
    BY <2>2
<1> HIDE DEF A
<1>2. f \in [A -> B]
  OBVIOUS
<1>3. \A c, d \in A : f[c] = f[d] => c = d
  OBVIOUS
<1>4. \A x \in B : \E c \in A : f[c] = x
  OBVIOUS
<1> HIDE DEF B, f
<1>5. f \in Bijection(A, B)
  BY <1>2, <1>3, <1>4 DEF Bijection, Injection, Surjection, IsInjective
<1>6. ExistsBijection(A, B)
  BY <1>5 DEF ExistsBijection
<1>7. Cardinality(B) = Cardinality(A)
  BY <1>1, <1>6, FS_Bijection
<1> QED
  BY <1>1, <1>7 DEF A, B

\* An object is appended to, or written at the offset.
LEMMA EMCMeans ==
    ASSUME SensibleJobs, Good, NEW r \in Ranks, NEW next, job.api = "EMC", at[r] = "write",
           EMC_Put(r, next)
    PROVE  Does(r, "WRITE", next) /\ UNCHANGED h
<1> DEFINE i == n[r]
           c == IF job.filePerProc THEN Cardinality(DOMAIN files[r]) ELSE Offset(r, "WRITE")
<1>1. job \in JobType /\ i \in Nat /\ AppendInv(r)
  BY Before DEF Good
<1>2. Pretend(r, "WRITE") = r /\ Offset(r, "WRITE") = Off(job, r, i)
  BY <1>1, OffsetIs
<1>3. c = Off(job, r, i)
  <2>1. CASE job.filePerProc
    <3>1. DOMAIN files[r] = {<<0, x>> : x \in 0..(i - 1)}
      BY <1>1, <2>1 DEF AppendInv
    <3>2. Cardinality(DOMAIN files[r]) = i
      BY <1>1, <3>1, CellsCounted
    <3>3. Off(job, r, i) = i
      BY <1>2, <2>1, SeekIs
    <3> QED
      BY <2>1, <3>2, <3>3
  <2>2. CASE ~job.filePerProc
    BY <1>2, <2>2
  <2> QED
    BY <2>1, <2>2
<1>4. {<<0, c>>} = Cells(job, r, i)
  BY <1>3 DEF Cells
<1>5. << >> \in Seq(Collectives) /\ Len(<< >>) = XferCalls(job, "WRITE", i)
  BY EmptySeq DEF XferCalls, Object
<1>6. Access(r, "WRITE", {<<0, c>>}, << >>, next) /\ UNCHANGED h
  BY DEF EMC_Put
<1> HIDE DEF c
<1> QED
  BY <1>2, <1>4, <1>5, <1>6 DEF Does

\* S3 and EMC read by offset.
LEMMA GetMeans ==
    ASSUME SensibleJobs, Good, NEW r \in Ranks, NEW access, NEW next, Object(job),
           S3_Get(r, access, next)
    PROVE  Does(r, access, next) /\ UNCHANGED h
<1> DEFINE i == n[r]
           o == Offset(r, access)
<1>1. job \in JobType
  BY Before
<1>2. o = Off(job, Pretend(r, access), i)
  BY <1>1, OffsetIs
<1>3. {<<0, o>>} = Cells(job, Pretend(r, access), i)
  BY <1>2 DEF Cells, Object
<1>4. << >> \in Seq(Collectives) /\ Len(<< >>) = XferCalls(job, access, i)
  BY EmptySeq DEF XferCalls
<1>5. Access(r, access, {<<0, o>>}, << >>, next) /\ UNCHANGED h
  BY DEF S3_Get
<1> HIDE DEF o
<1> QED
  BY <1>3, <1>4, <1>5 DEF Does

\* What a transfer does, whatever the backend.
LEMMA XferMeans ==
    ASSUME SensibleJobs, Good, NEW r \in Ranks, NEW access \in {"WRITE", ReadAccess}, NEW next,
           at[r] = IF access = "WRITE" THEN "write" ELSE "read", Xfer(r, access, next)
    PROVE  \/ stopped' /\ job.big /\ job.api = "NCMPI" /\ UNCHANGED <<n, files, wrong, h, at, ahead, calls>>
           \/ /\ Does(r, access, next)
              /\ h' = [h EXCEPT ![r] = h'[r]] /\ h'[r] \in Handles
              /\ job.api = "HDF5" => ~h'[r].newlyOpened /\ h'[r].suffix = n[r] \div T
              /\ job.api = "NCMPI" =>
                    /\ h'[r].indep = ~job.collective
                    /\ access = "WRITE" => /\ ~h'[r].startDataSet /\ h'[r].defined
                                           /\ h'[r].firstReadCheck = h[r].firstReadCheck
                                           /\ job.big => n[r] + 1 <= T
                    /\ access # "WRITE" /\ ~job.collective => ~h'[r].startDataSet
<1>1. TypeInv /\ PlaceInv(r)
  BY Before
<1>2. access # "WRITE" => Reads
  BY <1>1 DEF PlaceInv
<1>3. n[r] < Total(job) /\ at[r] \in {"write", "read"}
  BY <1>1 DEF PlaceInv
<1>4. UNCHANGED h => h' = [h EXCEPT ![r] = h'[r]] /\ h'[r] \in Handles
  BY <1>1, NothingChanges
<1>5. CASE job.api = "HDF5" /\ HDF5_Xfer(r, access, next)
  <2>1. /\ Does(r, access, next)
        /\ h' = [h EXCEPT ![r] = h'[r]] /\ h'[r] \in Handles
        /\ ~h'[r].newlyOpened /\ h'[r].suffix = n[r] \div T
    BY <1>2, <1>3, <1>5, HDF5Means
  <2>2. job.api # "NCMPI"
    BY <1>5
  <2> QED
    BY <2>1, <2>2
<1>6. CASE job.api = "NCMPI" /\ NCMPI_Xfer(r, access, next)
  <2>1. \/ stopped' /\ job.big /\ XferFails
        \/ /\ Does(r, access, next)
           /\ h' = [h EXCEPT ![r] = h'[r]] /\ h'[r] \in Handles
           /\ h'[r].indep = ~job.collective
           /\ access = "WRITE" => /\ ~h'[r].startDataSet /\ h'[r].defined
                                  /\ h'[r].firstReadCheck = h[r].firstReadCheck
                                  /\ job.big => n[r] + 1 <= T
           /\ access # "WRITE" /\ ~job.collective => ~h'[r].startDataSet
    BY <1>2, <1>6, NCMPIMeans
  <2>2. job.api = "NCMPI" /\ job.api # "HDF5"
    BY <1>6
  <2>3. XferFails => UNCHANGED <<n, files, wrong, h, at, ahead, calls>>
    BY DEF XferFails, ERR
  <2>4. CASE stopped' /\ job.big /\ XferFails
    BY <2>2, <2>3, <2>4
  <2>5. CASE ~(stopped' /\ job.big /\ XferFails)
    BY <2>1, <2>2, <2>5
  <2> QED
    BY <2>4, <2>5
<1>7. CASE job.api = "VIEW" /\ MPIIO_Xfer(r, access, next)
  <2>1. Does(r, access, next) /\ UNCHANGED h
    BY <1>7, ViewMeans
  <2> QED
    BY <1>4, <1>7, <2>1
<1>8. CASE job.api = "STRIDED" /\ MPIIO_XferStrided(r, access, next)
  <2>1. Does(r, access, next) /\ UNCHANGED h
    BY <1>2, <1>3, <1>8, StridedMeans
  <2> QED
    BY <1>4, <1>8, <2>1
<1>9. CASE job.api = "EMC" /\ access = "WRITE" /\ EMC_Put(r, next)
  <2>1. Does(r, access, next) /\ UNCHANGED h
    BY <1>9, EMCMeans
  <2> QED
    BY <1>4, <1>9, <2>1
<1>10. CASE job.api \in {"S3", "EMC"} /\ access # "WRITE" /\ S3_Get(r, access, next)
  <2>1. Object(job)
    BY <1>10 DEF Object
  <2>2. Does(r, access, next) /\ UNCHANGED h
    BY <1>10, <2>1, GetMeans
  <2> QED
    BY <1>4, <1>10, <2>2
<1> QED
  BY <1>5, <1>6, <1>7, <1>8, <1>9, <1>10 DEF Xfer
----------------------------------------------------------------------------
(* Writing.                                                                *)

\* What a write does to the files.
LEMMA PutMeans ==
    ASSUME NEW f, NEW cells, NEW token, files' = Put(f, cells, token)
    PROVE  /\ Exists(f)' /\ DOMAIN files'[f] = cells \cup DOMAIN files[f]
           /\ \A c \in cells : Has(f, c)' /\ files'[f][c] = token
           /\ \A g, c : Has(g, c) /\ ~(g = f /\ c \in cells) => Has(g, c)' /\ files'[g][c] = files[g][c]
           /\ \A g : g # f /\ Exists(g) => Exists(g)' /\ files'[g] = files[g]
<1> DEFINE content == [c \in cells \cup DOMAIN files[f] |-> IF c \in cells THEN token ELSE files[f][c]]
<1>1. files' = [g \in DOMAIN files \cup {f} |-> IF g = f THEN content ELSE files[g]]
  BY DEF Put, With
<1>2. /\ DOMAIN content = cells \cup DOMAIN files[f]
      /\ \A c \in cells : content[c] = token
      /\ \A c \in DOMAIN files[f] : c \notin cells => content[c] = files[f][c]
  OBVIOUS
<1> HIDE DEF content
<1>3. f \in DOMAIN files' /\ files'[f] = content
  BY <1>1
<1>4. \A g : g # f /\ g \in DOMAIN files => g \in DOMAIN files' /\ files'[g] = files[g]
  BY <1>1
<1>5. Exists(f)' /\ DOMAIN files'[f] = cells \cup DOMAIN files[f]
  BY <1>2, <1>3 DEF Exists
<1>6. \A c \in cells : Has(f, c)' /\ files'[f][c] = token
  BY <1>2, <1>3 DEF Has, Exists
<1>7. \A g : g # f /\ Exists(g) => Exists(g)' /\ files'[g] = files[g]
  BY <1>4 DEF Exists
<1>8. ASSUME NEW g, NEW c, Has(g, c), ~(g = f /\ c \in cells)
      PROVE  Has(g, c)' /\ files'[g][c] = files[g][c]
  <2>1. CASE g = f
    BY <1>2, <1>3, <1>8, <2>1 DEF Has, Exists
  <2>2. CASE g # f
    BY <1>4, <1>8, <2>2 DEF Has, Exists
  <2> QED
    BY <2>1, <2>2
<1> QED
  BY <1>5, <1>6, <1>7, <1>8

\* What a write that does not stop the test changes.
LEMMA WriteMeans ==
    ASSUME SensibleJobs, Good, NEW r \in Ranks, write(r), job.api # "S3", ~stopped',
           wrong \in [Ranks -> BOOLEAN]
    PROVE  /\ at[r] = "write" /\ ahead[r] = << >> /\ Ready(r)
           /\ UNCHANGED <<job, rep, wrong, uploads, etags>>
           /\ n' = [n EXCEPT ![r] = n'[r]] /\ n'[r] = n[r] + 1
           /\ h' = [h EXCEPT ![r] = h'[r]] /\ h'[r] \in Handles
           /\ job.api = "HDF5" => ~h'[r].newlyOpened /\ h'[r].suffix = n[r] \div T
           /\ job.api = "NCMPI" => /\ h'[r].indep = ~job.collective
                                   /\ ~h'[r].startDataSet /\ h'[r].defined
                                   /\ h'[r].firstReadCheck = h[r].firstReadCheck
                                   /\ job.big => n[r] + 1 <= T
           /\ \E cells :
                 /\ Reads \/ job.api = "EMC" => cells = Cells(job, r, n[r])
                 /\ files' = Put(File(job, r), cells, Tok(job, r, n[r]))
           /\ \E ops \in Seq(Collectives), place \in {"write", "close"} :
                 /\ Moves(r, place, ops)
                 /\ Reads => Len(ops) = XferCalls(job, "WRITE", n[r])
                 /\ place = "write" => n[r] + 1 # Total(job)
                 /\ place = "close" /\ Reads => n[r] + 1 = Total(job)
<1>1. /\ at[r] = "write" /\ ahead[r] = << >> /\ Ready(r)
      /\ UNCHANGED <<job, rep, uploads, etags>>
      /\ Xfer(r, "WRITE", "close")
  BY DEF write, At, parts
<1>2. job \in JobType /\ TypeInv
  BY Before
<1>3. "WRITE" \in {"WRITE", ReadAccess} /\ at[r] = (IF "WRITE" = "WRITE" THEN "write" ELSE "read")
  BY <1>1
<1>4. /\ Does(r, "WRITE", "close")
      /\ h' = [h EXCEPT ![r] = h'[r]] /\ h'[r] \in Handles
      /\ job.api = "HDF5" => ~h'[r].newlyOpened /\ h'[r].suffix = n[r] \div T
      /\ job.api = "NCMPI" => /\ h'[r].indep = ~job.collective
                              /\ ~h'[r].startDataSet /\ h'[r].defined
                              /\ h'[r].firstReadCheck = h[r].firstReadCheck
                              /\ job.big => n[r] + 1 <= T
  <2> DEFINE access == "WRITE"
  <2>1. access \in {"WRITE", ReadAccess} /\ at[r] = (IF access = "WRITE" THEN "write" ELSE "read")
        /\ Xfer(r, access, "close")
    BY <1>1, <1>3
  <2>2. access = "WRITE"
    OBVIOUS
  <2> HIDE DEF access
  <2>3. /\ Does(r, access, "close")
        /\ h' = [h EXCEPT ![r] = h'[r]] /\ h'[r] \in Handles
        /\ job.api = "HDF5" => ~h'[r].newlyOpened /\ h'[r].suffix = n[r] \div T
        /\ job.api = "NCMPI" =>
              /\ h'[r].indep = ~job.collective
              /\ access = "WRITE" => /\ ~h'[r].startDataSet /\ h'[r].defined
                                     /\ h'[r].firstReadCheck = h[r].firstReadCheck
                                     /\ job.big => n[r] + 1 <= T
    BY <2>1, XferMeans
  <2> QED
    BY <2>2, <2>3
<1>5. Pretend(r, "WRITE") = r /\ Pattern(r, "WRITE") = Tok(job, r, n[r]) /\ FileOf(r) = File(job, r)
  <2>1. Pretend(r, "WRITE") = r
    BY DEF Pretend
  <2>2. /\ Pattern(r, "WRITE") = Tok(job, Pretend(r, "WRITE"), n[r])
        /\ FileOf(Pretend(r, "WRITE")) = File(job, Pretend(r, "WRITE"))
    BY <1>2, OffsetIs
  <2> QED
    BY <2>1, <2>2
<1>6. PICK ops \in Seq(Collectives) : \E cells :
          /\ Access(r, "WRITE", cells, ops, "close")
          /\ Reads \/ job.api = "EMC" => cells = Cells(job, Pretend(r, "WRITE"), n[r])
          /\ Reads => Len(ops) = XferCalls(job, "WRITE", n[r])
  BY <1>4 DEF Does
<1>7. PICK cells : /\ Access(r, "WRITE", cells, ops, "close")
                   /\ Reads \/ job.api = "EMC" => cells = Cells(job, Pretend(r, "WRITE"), n[r])
                   /\ Reads => Len(ops) = XferCalls(job, "WRITE", n[r])
  BY <1>6
<1>8. /\ files' = Put(File(job, r), cells, Tok(job, r, n[r]))
      /\ wrong' = [wrong EXCEPT ![r] = wrong[r]]
      /\ n' = [n EXCEPT ![r] = n[r] + 1]
      /\ \E place \in After(r, "WRITE", "close") : GoAfter(r, ops, place)
  <2>1. /\ files' = Put(FileOf(Pretend(r, "WRITE")), cells, Pattern(r, "WRITE"))
        /\ wrong' = [wrong EXCEPT ![r] = \/ wrong[r]
                                         \/ "WRITE" = "READCHECK" /\ cells = {}
                                         \/ "WRITE" # "WRITE" /\ \E c \in cells :
                                               files[FileOf(Pretend(r, "WRITE"))][c] # Pattern(r, "WRITE")]
        /\ n' = [n EXCEPT ![r] = n[r] + 1]
        /\ \E place \in After(r, "WRITE", "close") : GoAfter(r, ops, place)
    BY <1>7 DEF Access
  <2>2. wrong[r] \in BOOLEAN
    OBVIOUS
  <2>3. wrong' = [wrong EXCEPT ![r] = wrong[r]]
    BY <2>1, <2>2
  <2>4. files' = Put(File(job, r), cells, Tok(job, r, n[r]))
    BY <1>5, <2>1
  <2> QED
    BY <2>1, <2>3, <2>4
<1>9. wrong' = wrong
  BY <1>8
<1>10. n' = [n EXCEPT ![r] = n'[r]] /\ n'[r] = n[r] + 1
  BY <1>2, <1>8 DEF TypeInv
<1>11. PICK place \in After(r, "WRITE", "close") : GoAfter(r, ops, place)
  BY <1>8
<1>12. Moves(r, place, ops)
  BY <1>1, <1>11 DEF GoAfter, Go, Moves
<1>13. /\ place \in {"write", "close"}
       /\ place = "write" => n[r] + 1 # Total(job)
       /\ place = "close" /\ Reads => n[r] + 1 = Total(job)
  BY <1>11 DEF After, Total, S, T, Reads
<1>14. Reads \/ job.api = "EMC" => cells = Cells(job, r, n[r])
  BY <1>5, <1>7
<1> QED
  BY <1>1, <1>4, <1>7, <1>8, <1>9, <1>10, <1>12, <1>13, <1>14

\* Transfers that are left to be written or read.
LEMMA NextTransfer ==
    ASSUME SensibleJobs, Good, NEW r \in Ranks, NEW place, NEW w \in {"write", "read"}, at[r] = w,
           place = w => n[r] + 1 # Total(job), place # w => n[r] + 1 = Total(job),
           place = w \/ (w = "write" /\ place = "close") \/ (w = "read" /\ place = "close_read")
    PROVE  Due(job, place, n[r] + 1) = Due(job, at[r], n[r])
              + XferCalls(job, IF w = "write" THEN "WRITE" ELSE ReadAs(job), n[r])
<1>1. job \in JobType /\ n[r] \in Nat
  BY Before
<1> DEFINE access == IF w = "write" THEN "WRITE" ELSE ReadAs(job)
           base == IF w = "write" THEN ToWrite(job) ELSE AtOpen(job) + ToRead(job)
           x == XferCalls(job, access, n[r])
           a == AllXferCalls(job, access, n[r])
           b == AllXferCalls(job, access, n[r] + 1)
<1>2. access \in Accesses
  BY DEF ReadAs, Accesses
<1>3. x \in Nat /\ a \in Nat /\ b = a + x
  <2> HIDE DEF access
  <2> QED
    BY <1>1, <1>2, XferCallsAdd
<1>4. base \in Nat
  BY <1>1, PlacesInOrder
<1>5. Due(job, at[r], n[r]) = base + a
  BY DEF Due
<1>6. Due(job, place, n[r] + 1) = base + b
  BY DEF Due, AtClose, AtCloseRead
<1> HIDE DEF base, a, b, x
<1>7. Due(job, place, n[r] + 1) = Due(job, at[r], n[r]) + x
  BY <1>3, <1>4, <1>5, <1>6
<1> QED
  BY <1>7 DEF x

\* A rank writes a transfer.
LEMMA WriteStep ==
    ASSUME SensibleJobs, Good, NEW r \in Ranks, write(r), job.api # "S3", ~stopped',
           wrong \in [Ranks -> BOOLEAN]
    PROVE  Good'
<1>1. /\ at[r] = "write" /\ ahead[r] = << >> /\ Ready(r)
      /\ UNCHANGED <<job, rep, wrong, uploads, etags>>
      /\ n' = [n EXCEPT ![r] = n'[r]] /\ n'[r] = n[r] + 1
      /\ h' = [h EXCEPT ![r] = h'[r]] /\ h'[r] \in Handles
  BY WriteMeans
<1>2. job.api = "HDF5" => ~h'[r].newlyOpened /\ h'[r].suffix = n[r] \div T
  BY WriteMeans
<1>3. job.api = "NCMPI" => /\ h'[r].indep = ~job.collective
                           /\ ~h'[r].startDataSet /\ h'[r].defined
                           /\ h'[r].firstReadCheck = h[r].firstReadCheck
                           /\ job.big => n[r] + 1 <= T
  BY WriteMeans
<1>4. PICK cells : /\ Reads \/ job.api = "EMC" => cells = Cells(job, r, n[r])
                   /\ files' = Put(File(job, r), cells, Tok(job, r, n[r]))
  BY WriteMeans
<1>5. PICK ops \in Seq(Collectives), place \in {"write", "close"} :
         /\ Moves(r, place, ops)
         /\ Reads => Len(ops) = XferCalls(job, "WRITE", n[r])
         /\ place = "write" => n[r] + 1 # Total(job)
         /\ place = "close" /\ Reads => n[r] + 1 = Total(job)
  BY WriteMeans
<1>6. /\ job \in JobType /\ TypeInv /\ PlaceInv(r) /\ CountInv(r) /\ EtagInv(r) /\ MetInv(r)
      /\ LastInv(r) /\ HandleInv(r) /\ ValidateTests(job) /\ Sensible(job)
      /\ Started(r) \in Nat /\ n[r] \in Nat /\ Count(r) \in Nat /\ Total(job) \in Nat
      /\ Pledged(r) \in Nat /\ Due(job, at[r], n[r]) \in Int
  BY Before
<1>7. n[r] < Total(job) /\ T \in Nat \ {0} /\ S \in Nat \ {0} /\ T = job.transfers /\ Total(job) = S * T
  BY <1>1, <1>6, JobParts DEF PlaceInv, T, S, Total
<1>8. Reads' = Reads /\ Shared' = Shared /\ Started(r)' = Started(r) /\ job' = job
  BY <1>1 DEF Reads, Shared, Started
<1>9. Reads => Started(r)' + Due(job, place, n'[r]) = Started(r) + Due(job, at[r], n[r]) + Len(ops)
  <2> SUFFICES ASSUME Reads
               PROVE  Started(r)' + Due(job, place, n'[r]) = Started(r) + Due(job, at[r], n[r]) + Len(ops)
    OBVIOUS
  <2> DEFINE w == "write"
  <2>1. w \in {"write", "read"} /\ at[r] = w
    BY <1>1
  <2>2. /\ place = w => n[r] + 1 # Total(job)
        /\ place # w => n[r] + 1 = Total(job)
        /\ place = w \/ (w = "write" /\ place = "close") \/ (w = "read" /\ place = "close_read")
    BY <1>5
  <2>3. w = "write"
    OBVIOUS
  <2> HIDE DEF w
  <2>4. Due(job, place, n[r] + 1) = Due(job, at[r], n[r])
              + XferCalls(job, IF w = "write" THEN "WRITE" ELSE ReadAs(job), n[r])
    BY <2>1, <2>2, NextTransfer
  <2>5. Due(job, place, n'[r]) = Due(job, at[r], n[r]) + Len(ops)
    BY <1>1, <1>5, <2>3, <2>4
  <2>6. Len(ops) \in Nat
    BY LenProperties
  <2> QED
    BY <1>6, <1>8, <2>5, <2>6
<1>10. place \in Places /\ n'[r] \in Nat
  BY <1>1, <1>6 DEF Places
<1>11. /\ TypeInv' /\ OthersStay(r) /\ CountsGrow /\ CountInv(r)'
       /\ at'[r] = place /\ \A s \in Ranks : Count(s)' = Count(s)
  <2>1. /\ rep' = [rep EXCEPT ![r] = rep'[r]] /\ rep'[r] \in Nat \ {0}
        /\ etags' = [etags EXCEPT ![r] = etags'[r]] /\ etags'[r] \in Seq(Tokens)
        /\ uploads' = [f \in Ranks |-> uploads'[f]] /\ wrong' \in [Ranks -> BOOLEAN]
    BY <1>1, <1>6, NothingChanges
  <2>2. /\ ahead[r] = << >> /\ Moves(r, place, ops)
        /\ h' = [h EXCEPT ![r] = h'[r]] /\ h'[r] \in Handles
        /\ n' = [n EXCEPT ![r] = n'[r]]
    BY <1>1, <1>5
  <2> QED
    BY <1>9, <1>10, <2>1, <2>2, MoveBasics
<1>12. n'[r] > 0
  BY <1>1, <1>6
<1>13. PlaceInv(r)'
  <2>1. place = "write" => n'[r] < Total(job)
    BY <1>1, <1>5, <1>6, <1>7
  <2>2. rep'[r] <= job.repetitions
    BY <1>1, <1>6 DEF PlaceInv
  <2>3. place = "close" /\ Reads => n'[r] = Total(job)
    BY <1>1, <1>5
  <2> QED
    BY <1>5, <1>8, <1>11, <2>1, <2>2, <2>3 DEF PlaceInv
<1>14. HandleInv(r)'
  <2>1. ASSUME job.api = "HDF5" PROVE HDF5Inv(r)'
    <3>1. n'[r] - 1 = n[r] /\ ~h'[r].newlyOpened /\ h'[r].suffix = n[r] \div T /\ T' = T
      BY <1>1, <1>2, <1>6, <1>8, <2>1 DEF T
    <3> QED
      BY <1>12, <3>1 DEF HDF5Inv
  <2>2. ASSUME job.api = "NCMPI" PROVE NCMPIInv(r)'
    <3>1. /\ h'[r].indep = ~job.collective
          /\ ~h'[r].startDataSet /\ h'[r].defined
          /\ h'[r].firstReadCheck = h[r].firstReadCheck
          /\ job.big => n[r] + 1 <= T
      BY <1>3, <2>2
    <3>2. NCMPIInv(r)
      BY <1>6, <2>2 DEF HandleInv
    <3>3. ASSUME place = "close", Reads, job.big PROVE S = 1
      <4>1. S * T <= T
        BY <1>5, <1>7, <3>1, <3>3
      <4>2. S # 1 => T * 2 <= T * S
        <5>1. S # 1 => 2 <= S
          BY <1>7
        <5> QED
          BY <1>7, <5>1, TimesMonotone
      <4>3. T * S = S * T
        BY <1>7
      <4> QED
        BY <1>7, <4>1, <4>2, <4>3
    <3>4. Reads /\ job.readCheck /\ ~job.collective => ~h'[r].firstReadCheck
      BY <1>1, <3>1, <3>2 DEF NCMPIInv
    <3>5. S' = S /\ T' = T
      BY <1>8 DEF S, T
    <3>6. n'[r] = n[r] + 1
      BY <1>1
    <3> QED
      BY <1>5, <1>8, <1>11, <1>12, <3>1, <3>3, <3>4, <3>5, <3>6 DEF NCMPIInv
  <2> QED
    BY <1>8, <2>1, <2>2 DEF HandleInv
<1>15. Local(r)'
  <2>1. LastInv(r)' /\ TellInv(r)'
    BY <1>5, <1>11, <1>12 DEF LastInv, TellInv
  <2>2. EtagInv(r)'
    BY <1>8 DEF EtagInv
  <2> QED
    BY <1>11, <1>13, <1>14, <2>1, <2>2 DEF Local
<1>16. MetInv(r)'
  <2> SUFFICES ASSUME Reads PROVE MetInv(r)'
    BY <1>8 DEF MetInv
  <2>1. Met(at[r])' = 0 /\ Met(at[r]) = 0
    BY <1>1, <1>5, <1>11 DEF Met
  <2>2. \A s \in Ranks : Count(s) \in Nat
    BY <1>6, PledgedIsNat
  <2>3. \A s \in Ranks : Count(s)' >= Started(r) + 0
    BY <1>1, <1>6, <1>11, <2>1 DEF MetInv
  <2>4. ASSUME Shared, NEW s \in Ranks PROVE Count(s)' >= Started(r) + 1
    <3>1. CASE n[r] > 0
      BY <1>1, <1>6, <1>11, <2>4, <3>1 DEF MetInv
    <3>2. CASE n[r] = 0
      <4>1. LastOp(r) \in Synchronizing
        BY <1>1, <1>6, <2>4, <3>2 DEF LastInv
      <4>2. Count(s) >= Count(r) /\ Pledged(r) = Count(r)
        BY <1>1, <1>6, <4>1, AllMet
      <4>3. Pledged(r) = Started(r) + ToWrite(job)
        <5>1. "WRITE" \in Accesses
          BY DEF Accesses
        <5>2. AllXferCalls(job, "WRITE", 0) = 0 /\ ToWrite(job) \in Nat
          BY <1>6, <5>1, XferCallsAdd, PlacesInOrder
        <5>3. Due(job, at[r], n[r]) = ToWrite(job)
          BY <1>1, <3>2, <5>2 DEF Due
        <5> QED
          BY <1>6, <5>3 DEF CountInv
      <4>4. ToWrite(job) >= 1 /\ ToWrite(job) \in Nat
        <5>1. CASE job.api # "EMC"
          BY <1>6, <2>4, <5>1, PlacesInOrder DEF Shared
        <5>2. CASE job.api = "EMC"
          <6>1. job.intraTestBarriers
            BY <1>6, <2>4, <5>2 DEF Sensible, Shared, Reads
          <6> QED
            BY <5>2, <6>1 DEF ToWrite, Optional
        <5> QED
          BY <5>1, <5>2
      <4> QED
        BY <1>6, <1>11, <2>2, <4>2, <4>3, <4>4
    <3> QED
      BY <1>6, <3>1, <3>2
  <2> QED
    BY <1>8, <2>1, <2>3, <2>4 DEF MetInv
<1>17. ASSUME NEW s \in Ranks \ {r}
       PROVE  Stored(s)' = Stored(s) /\ at'[s] = at[s] /\ n'[s] = n[s]
  <2>1. at'[s] = at[s] /\ n'[s] = n[s]
    BY <1>11 DEF OthersStay
  <2> QED
    BY <1>8, <2>1 DEF Stored
<1>18. DataInv'
  <2>1. Reads' = Reads /\ \A q \in Ranks : Keeper(q)' = Keeper(q) /\ Remover(q)' = Remover(q)
    BY <1>8 DEF Reads, Keeper, Remover, Shared, Pretend
  <2>2. ASSUME Reads, NEW q \in Ranks, NEW k \in Ranks, k = Keeper(q),
               \A t \in Remover(q) : rep[t] = rep[k], NEW i \in 0..(Stored(k)' - 1)
        PROVE  Holds(q, i)'
    <3>1. k = q
      BY <2>2 DEF Keeper, Uploads
    <3>2. cells = Cells(job, r, n[r])
      BY <1>4, <2>2
    <3>3. /\ \A c \in cells : Has(File(job, r), c)' /\ files'[File(job, r)][c] = Tok(job, r, n[r])
          /\ \A g, c : Has(g, c) /\ ~(g = File(job, r) /\ c \in cells)
                          => Has(g, c)' /\ files'[g][c] = files[g][c]
      <4>1. PICK f, token : f = File(job, r) /\ token = Tok(job, r, n[r])
        OBVIOUS
      <4>2. files' = Put(f, cells, token)
        BY <1>4, <4>1
      <4>3. /\ \A c \in cells : Has(f, c)' /\ files'[f][c] = token
            /\ \A g, c : Has(g, c) /\ ~(g = f /\ c \in cells) => Has(g, c)' /\ files'[g][c] = files[g][c]
        BY <4>2, PutMeans
      <4>4. \A c : Has(File(job, r), c)' <=> Has(f, c)'
        <5>1. File(job, r)' = f
          BY <1>8, <4>1
        <5> QED
          BY <5>1 DEF Has, Exists
      <4> QED
        BY <4>1, <4>3, <4>4
    <3>4. Stored(r) = n[r] /\ Stored(r)' = n[r] + 1
      BY <1>1, <1>5, <1>8, <1>11, <2>2 DEF Stored, Closed2
    <3>5. Holds(q, i)' <=> \A c \in Cells(job, q, i) :
                              Has(File(job, q), c)' /\ files'[File(job, q)][c] = Tok(job, q, i)
      BY <1>8 DEF Holds
    <3>6. CASE q = r /\ i = n[r]
      BY <3>2, <3>3, <3>5, <3>6
    <3>7. CASE ~(q = r /\ i = n[r])
      <4>1. Stored(q) \in Nat /\ Stored(q) <= Total(job)
        <5>1. Stored(q) \in Nat /\ n[q] \in Nat /\ PlaceInv(q)
          BY Before
        <5>2. at[q] = "write" => n[q] <= Total(job)
          BY <1>6, <5>1 DEF PlaceInv
        <5> QED
          BY <1>6, <5>1, <5>2 DEF Stored
      <4>2. i \in 0..(Stored(q) - 1)
        <5>1. CASE q = r
          BY <1>6, <2>2, <3>1, <3>4, <3>7, <5>1
        <5>2. CASE q # r
          BY <1>17, <2>2, <3>1, <5>2
        <5> QED
          BY <5>1, <5>2
      <4>3. Holds(q, i)
        BY <2>2, <3>1, <4>2 DEF Good, DataInv
      <4>4. i \in 0..(Total(job) - 1)
        <5> DEFINE x == Stored(q)
                   y == Total(job)
        <5>1. x \in Nat /\ x <= y /\ y \in Nat /\ i \in 0..(x - 1)
          BY <1>6, <4>1, <4>2
        <5> HIDE DEF x, y
        <5>2. i \in 0..(y - 1)
          BY <5>1
        <5> QED
          BY <5>2 DEF y
      <4>5. n[r] \in 0..(Total(job) - 1)
        BY <1>6, <1>7
      <4>6. File(job, q) = File(job, r) => Cells(job, q, i) \cap cells = {}
        <5>1. job.api = "NCMPI" => ~job.filePerProc
          BY <1>6 DEF ValidateTests
        <5>2. q # r \/ i # n[r]
          BY <3>7
        <5> DEFINE m == n[r]
        <5>3. m \in 0..(Total(job) - 1) /\ (q # r \/ i # m) /\ cells = Cells(job, r, m)
          BY <3>2, <4>5, <5>2
        <5> HIDE DEF m
        <5>4. File(job, q) = File(job, r) => Cells(job, q, i) \cap Cells(job, r, m) = {}
          BY <1>6, <4>4, <5>1, <5>3, CellsApart
        <5> QED
          BY <5>3, <5>4
      <4>7. ASSUME NEW c \in Cells(job, q, i)
            PROVE  Has(File(job, q), c)' /\ files'[File(job, q)][c] = Tok(job, q, i)
        <5>1. Has(File(job, q), c) /\ files[File(job, q)][c] = Tok(job, q, i)
          BY <4>3, <4>7 DEF Holds
        <5>2. ~(File(job, q) = File(job, r) /\ c \in cells)
          BY <4>6, <4>7
        <5>3. PICK g : g = File(job, q)
          OBVIOUS
        <5>4. Has(g, c) /\ ~(g = File(job, r) /\ c \in cells)
          BY <5>1, <5>2, <5>3
        <5>5. Has(g, c)' /\ files'[g][c] = files[g][c]
          BY <3>3, <5>4
        <5>6. File(job, q)' = g
          BY <1>8, <5>3
        <5>7. Has(File(job, q), c)' <=> Has(g, c)'
          BY <5>6 DEF Has, Exists
        <5> QED
          BY <5>1, <5>3, <5>5, <5>7
      <4> QED
        BY <3>5, <4>7
    <3> QED
      BY <3>6, <3>7
  <2> QED
    BY <1>1, <2>1, <2>2 DEF DataInv
<1>19. ASSUME NEW s \in Ranks PROVE PartInv(s)' /\ AppendInv(s)'
  <2>1. PartInv(s)'
    BY <1>8 DEF PartInv
  <2>2. ASSUME job.api = "EMC", job.filePerProc, at'[s] = "write"
        PROVE  Exists(s)' /\ DOMAIN files'[s] = {<<0, c>> : c \in 0..(n'[s] - 1)}
    <3>1. File(job, r) = r
      BY <2>2 DEF File
    <3>2. /\ Exists(r)' /\ DOMAIN files'[r] = cells \cup DOMAIN files[r]
          /\ \A g : g # r /\ Exists(g) => Exists(g)' /\ files'[g] = files[g]
      BY <1>4, <3>1, PutMeans
    <3>3. AppendInv(s)
      BY DEF Good
    <3>4. CASE s = r
      <4>1. DOMAIN files[r] = {<<0, c>> : c \in 0..(n[r] - 1)}
        BY <1>1, <2>2, <3>3, <3>4 DEF AppendInv
      <4>2. cells = {<<0, n[r]>>}
        <5>1. Pretend(r, "WRITE") = r
          BY DEF Pretend
        <5>2. Off(job, r, n[r]) = n[r]
          BY <2>2, <5>1, SeekIs
        <5> QED
          BY <1>4, <2>2, <5>2 DEF Cells
      <4> DEFINE k == n[r]
      <4>3. {<<0, k>>} \cup {<<0, c>> : c \in 0..(k - 1)} = {<<0, c>> : c \in 0..k}
        <5>1. k \in Nat
          BY <1>6
        <5> HIDE DEF k
        <5> QED
          BY <5>1
      <4>4. n'[r] - 1 = k
        BY <1>1, <1>6
      <4> QED
        BY <3>2, <3>4, <4>1, <4>2, <4>3, <4>4
    <3>5. CASE s # r
      BY <1>17, <2>2, <3>2, <3>3, <3>5 DEF AppendInv
    <3> QED
      BY <3>4, <3>5
  <2>3. AppendInv(s)'
    BY <1>8, <2>2 DEF AppendInv
  <2> QED
    BY <2>1, <2>3
<1> QED
  BY <1>11, <1>15, <1>16, <1>18, <1>19, Assemble

\* One etag more.
LEMMA EtagsGrow ==
    ASSUME job \in JobType, NEW r \in Ranks, NEW k \in Nat
    PROVE  Append(Etags(r, k), Tok(job, r, k)) = Etags(r, k + 1)
<1> DEFINE a == Etags(r, k)
           b == Etags(r, k + 1)
           x == Tok(job, r, k)
           c == Append(a, x)
<1>1. /\ a \in Seq(Tokens) /\ Len(a) = k /\ \A i \in 1..k : a[i] = Tok(job, r, i - 1)
      /\ x \in Tokens
  BY EtagsAre
<1>2. /\ b \in Seq(Tokens) /\ Len(b) = k + 1 /\ \A i \in 1..(k + 1) : b[i] = Tok(job, r, i - 1)
  <2> DEFINE m == k + 1
  <2>1. m \in Nat
    OBVIOUS
  <2> HIDE DEF m
  <2>2. /\ Etags(r, m) \in Seq(Tokens) /\ Len(Etags(r, m)) = m
        /\ \A i \in 1..m : Etags(r, m)[i] = Tok(job, r, i - 1)
    BY <2>1, EtagsAre
  <2> QED
    BY <2>2 DEF m
<1>3. b[k + 1] = x
  <2>1. k + 1 \in 1..(k + 1) /\ (k + 1) - 1 = k
    OBVIOUS
  <2>2. b[k + 1] = Tok(job, r, (k + 1) - 1)
    BY <1>2, <2>1
  <2> QED
    BY <2>1, <2>2
<1>4. \A i \in 1..k : b[i] = a[i]
  BY <1>1, <1>2
<1> HIDE DEF a, b, x
<1>5. /\ c \in Seq(Tokens) /\ Len(c) = k + 1
      /\ \A i \in 1..k : c[i] = a[i]
      /\ c[k + 1] = x
  BY <1>1, AppendProperties
<1> HIDE DEF c
<1>6. \A i \in 1..Len(c) : c[i] = b[i]
  BY <1>3, <1>4, <1>5
<1>7. c = b
  BY <1>2, <1>5, <1>6, SeqEqual
<1> QED
  BY <1>7 DEF a, b, c, x

\* A part of an upload, and the etag that the rank keeps of it.
LEMMA S3PutMeans ==
    ASSUME SensibleJobs, Good, NEW r \in Ranks, write(r), job.api = "S3"
    PROVE  /\ at[r] = "write" /\ ahead[r] = << >> /\ Ready(r) /\ ~stopped'
           /\ UNCHANGED <<job, rep, files, h, wrong>>
           /\ n' = [n EXCEPT ![r] = n'[r]] /\ n'[r] = n[r] + 1
           /\ etags' = [etags EXCEPT ![r] = etags'[r]] /\ etags'[r] = Etags(r, n[r] + 1)
           /\ uploads' = [uploads EXCEPT ![File(job, r)] =
                             uploads[File(job, r)] \cup {<<PartOf(r, n[r]), Tok(job, r, n[r])>>}]
           /\ \E place \in {"write", "close"} :
                 /\ Moves(r, place, << >>)
                 /\ place = "write" => n[r] + 1 # Total(job)
                 /\ place = "close" /\ Reads => n[r] + 1 = Total(job)
<1>1. /\ at[r] = "write" /\ ahead[r] = << >> /\ Ready(r) /\ ~stopped
      /\ UNCHANGED <<job, rep>> /\ S3_Put(r, "close")
  BY DEF write, At, Xfer
<1>2. job \in JobType /\ TypeInv /\ n[r] \in Nat /\ EtagInv(r)
  BY Before
<1>3. Pattern(r, "WRITE") = Tok(job, r, n[r]) /\ FileOf(r) = File(job, r)
  <2>1. Pretend(r, "WRITE") = r
    BY DEF Pretend
  <2>2. /\ Pattern(r, "WRITE") = Tok(job, Pretend(r, "WRITE"), n[r])
        /\ FileOf(Pretend(r, "WRITE")) = File(job, Pretend(r, "WRITE"))
    BY <1>2, OffsetIs
  <2> QED
    BY <2>1, <2>2
<1>4. etags[r] = Etags(r, n[r]) /\ Len(etags[r]) = n[r]
  <2>1. etags[r] = Etags(r, n[r])
    BY <1>1, <1>2 DEF EtagInv
  <2>2. Len(Etags(r, n[r])) = n[r]
    BY <1>2, EtagsAre
  <2> QED
    BY <2>1, <2>2
<1>5. part_number(r) = PartOf(r, n[r])
  BY <1>4 DEF part_number, PartOf
<1>6. /\ uploads' = [uploads EXCEPT ![FileOf(r)] =
                       uploads[FileOf(r)] \cup {<<part_number(r), Pattern(r, "WRITE")>>}]
      /\ etags' = [etags EXCEPT ![r] = Append(etags[r], Pattern(r, "WRITE"))]
      /\ n' = [n EXCEPT ![r] = n[r] + 1]
      /\ \E place \in After(r, "WRITE", "close") : GoAfter(r, << >>, place)
      /\ UNCHANGED <<files, h, wrong>>
  BY <1>1 DEF S3_Put
<1>7. uploads' = [uploads EXCEPT ![File(job, r)] =
                     uploads[File(job, r)] \cup {<<PartOf(r, n[r]), Tok(job, r, n[r])>>}]
  BY <1>3, <1>5, <1>6
<1>8. n' = [n EXCEPT ![r] = n'[r]] /\ n'[r] = n[r] + 1
  BY <1>2, <1>6 DEF TypeInv
<1>9. etags' = [etags EXCEPT ![r] = etags'[r]] /\ etags'[r] = Etags(r, n[r] + 1)
  <2>1. Append(etags[r], Pattern(r, "WRITE")) = Etags(r, n[r] + 1)
    BY <1>2, <1>3, <1>4, EtagsGrow
  <2> QED
    BY <1>2, <1>6, <2>1 DEF TypeInv
<1>10. PICK place \in After(r, "WRITE", "close") : GoAfter(r, << >>, place)
  BY <1>6
<1>11. Moves(r, place, << >>) /\ stopped' = stopped
  BY <1>1, <1>10 DEF GoAfter, Go, Moves
<1>12. /\ place \in {"write", "close"}
       /\ place = "write" => n[r] + 1 # Total(job)
       /\ place = "close" /\ Reads => n[r] + 1 = Total(job)
  BY <1>10 DEF After, Total, S, T, Reads
<1> QED
  BY <1>1, <1>6, <1>7, <1>8, <1>9, <1>11, <1>12

\* A rank puts a part.
LEMMA S3PutStep ==
    ASSUME SensibleJobs, Good, NEW r \in Ranks, write(r), job.api = "S3"
    PROVE  Good'
<1>1. /\ at[r] = "write" /\ ahead[r] = << >> /\ Ready(r)
      /\ UNCHANGED <<job, rep, files, h, wrong>>
      /\ n' = [n EXCEPT ![r] = n'[r]] /\ n'[r] = n[r] + 1
      /\ etags' = [etags EXCEPT ![r] = etags'[r]] /\ etags'[r] = Etags(r, n[r] + 1)
  BY S3PutMeans
<1>2. uploads' = [uploads EXCEPT ![File(job, r)] =
                     uploads[File(job, r)] \cup {<<PartOf(r, n[r]), Tok(job, r, n[r])>>}]
  BY S3PutMeans
<1>3. PICK place \in {"write", "close"} :
         /\ Moves(r, place, << >>)
         /\ place = "write" => n[r] + 1 # Total(job)
         /\ place = "close" /\ Reads => n[r] + 1 = Total(job)
  BY S3PutMeans
<1>4. /\ job \in JobType /\ TypeInv /\ PlaceInv(r) /\ CountInv(r) /\ MetInv(r) /\ LastInv(r)
      /\ Started(r) \in Nat /\ n[r] \in Nat /\ Count(r) \in Nat /\ Total(job) \in Nat
      /\ Pledged(r) \in Nat /\ Due(job, at[r], n[r]) \in Int
  BY Before
<1>5. n[r] < Total(job) /\ job.api = "S3"
  BY <1>1, <1>4 DEF PlaceInv
<1>6. Reads' = Reads /\ Shared' = Shared /\ Started(r)' = Started(r) /\ job' = job
  BY <1>1 DEF Reads, Shared, Started
<1>7. << >> \in Seq(Collectives) /\ Len(<< >>) = 0
  BY EmptySeq
<1>8. Reads => Started(r)' + Due(job, place, n'[r]) = Started(r) + Due(job, at[r], n[r]) + Len(<< >>)
  <2> SUFFICES ASSUME Reads
               PROVE  Started(r)' + Due(job, place, n'[r]) = Started(r) + Due(job, at[r], n[r]) + Len(<< >>)
    OBVIOUS
  <2> DEFINE w == "write"
  <2>1. w \in {"write", "read"} /\ at[r] = w
    BY <1>1
  <2>2. /\ place = w => n[r] + 1 # Total(job)
        /\ place # w => n[r] + 1 = Total(job)
        /\ place = w \/ (w = "write" /\ place = "close") \/ (w = "read" /\ place = "close_read")
    BY <1>3
  <2>3. w = "write"
    OBVIOUS
  <2> HIDE DEF w
  <2>4. Due(job, place, n[r] + 1) = Due(job, at[r], n[r])
              + XferCalls(job, IF w = "write" THEN "WRITE" ELSE ReadAs(job), n[r])
    BY <2>1, <2>2, NextTransfer
  <2>5. XferCalls(job, "WRITE", n[r]) = 0
    BY DEF XferCalls, Object
  <2>6. Due(job, place, n'[r]) = Due(job, at[r], n[r])
    BY <1>1, <1>4, <2>3, <2>4, <2>5
  <2> QED
    BY <1>4, <1>6, <1>7, <2>6
<1>9. place \in Places /\ n'[r] \in Nat /\ etags'[r] \in Seq(Tokens)
  <2>1. n[r] + 1 \in Nat
    BY <1>4
  <2>2. Etags(r, n[r] + 1) \in Seq(Tokens)
    BY <1>4, <2>1, EtagsAre
  <2> QED
    BY <1>1, <2>1, <2>2 DEF Places
<1>10. uploads' = [f \in Ranks |-> uploads'[f]] /\ \A f \in Ranks : uploads[f] \subseteq uploads'[f]
  <2>1. uploads = [f \in Ranks |-> uploads[f]]
    BY <1>4 DEF TypeInv
  <2> QED
    BY <1>2, <2>1
<1>11. /\ TypeInv' /\ OthersStay(r) /\ CountsGrow /\ CountInv(r)'
       /\ at'[r] = place /\ \A s \in Ranks : Count(s)' = Count(s)
  <2>1. /\ rep' = [rep EXCEPT ![r] = rep'[r]] /\ rep'[r] \in Nat \ {0}
        /\ h' = [h EXCEPT ![r] = h'[r]] /\ h'[r] \in Handles
        /\ wrong' \in [Ranks -> BOOLEAN]
    BY <1>1, <1>4, NothingChanges DEF TypeInv
  <2>2. /\ ahead[r] = << >> /\ Moves(r, place, << >>)
        /\ etags' = [etags EXCEPT ![r] = etags'[r]]
        /\ n' = [n EXCEPT ![r] = n'[r]]
    BY <1>1, <1>3
  <2> QED
    BY <1>7, <1>8, <1>9, <1>10, <2>1, <2>2, MoveBasics
<1>12. n'[r] > 0
  BY <1>1, <1>4
<1>13. PlaceInv(r)'
  <2>1. place = "write" => n'[r] < Total(job)
    BY <1>1, <1>3, <1>4, <1>5
  <2>2. rep'[r] <= job.repetitions
    BY <1>1, <1>4 DEF PlaceInv
  <2>3. place = "close" /\ Reads => n'[r] = Total(job)
    BY <1>1, <1>3
  <2> QED
    BY <1>3, <1>6, <1>11, <2>1, <2>2, <2>3 DEF PlaceInv
<1>14. Local(r)'
  <2>1. LastInv(r)' /\ TellInv(r)'
    BY <1>3, <1>11, <1>12 DEF LastInv, TellInv
  <2>2. EtagInv(r)'
    <3>1. Etags(r, n[r])' = Etags(r, n[r] + 1)
      BY <1>1, <1>6 DEF Etags
    <3> QED
      BY <1>1, <1>3, <1>11, <3>1 DEF EtagInv
  <2>3. HandleInv(r)'
    BY <1>6 DEF HandleInv
  <2> QED
    BY <1>11, <1>13, <2>1, <2>2, <2>3 DEF Local
<1>15. MetInv(r)'
  <2> SUFFICES ASSUME Reads PROVE MetInv(r)'
    BY <1>6 DEF MetInv
  <2>1. Met(at[r])' = 0 /\ Met(at[r]) = 0
    BY <1>1, <1>3, <1>11 DEF Met
  <2>2. \A s \in Ranks : Count(s) \in Nat
    BY <1>4, PledgedIsNat
  <2>3. \A s \in Ranks : Count(s)' >= Started(r) + 0
    BY <1>1, <1>4, <1>11, <2>1 DEF MetInv
  <2>4. ASSUME Shared, NEW s \in Ranks, s = 0 PROVE Count(s)' >= Started(r) + 1
    <3>1. CASE n[r] > 0
      BY <1>1, <1>4, <1>11, <2>4, <3>1 DEF MetInv
    <3>2. CASE n[r] = 0
      <4>1. LastOp(r) \in Synchronizing \cup {"Bcast"}
        BY <1>1, <1>4, <2>4, <3>2 DEF LastInv
      <4>2. Count(s) >= Count(r) /\ Pledged(r) = Count(r)
        BY <1>1, <1>4, <2>4, <4>1, AllMet
      <4>3. Pledged(r) = Started(r) + ToWrite(job)
        <5>1. "WRITE" \in Accesses
          BY DEF Accesses
        <5>2. AllXferCalls(job, "WRITE", 0) = 0 /\ ToWrite(job) \in Nat
          BY <1>4, <5>1, XferCallsAdd, PlacesInOrder
        <5>3. Due(job, at[r], n[r]) = ToWrite(job)
          BY <1>1, <3>2, <5>2 DEF Due
        <5> QED
          BY <1>4, <5>3 DEF CountInv
      <4>4. ToWrite(job) >= 1 /\ ToWrite(job) \in Nat
        BY <1>4, <2>4, PlacesInOrder DEF Shared
      <4> QED
        BY <1>4, <1>11, <2>2, <4>2, <4>3, <4>4
    <3> QED
      BY <1>4, <3>1, <3>2
  <2> QED
    BY <1>6, <2>1, <2>3, <2>4 DEF MetInv
<1>16. ASSUME NEW s \in Ranks \ {r}
       PROVE  Stored(s)' = Stored(s) /\ Parts(s)' = Parts(s)
  <2>1. at'[s] = at[s] /\ n'[s] = n[s]
    BY <1>11 DEF OthersStay
  <2> QED
    BY <1>6, <2>1 DEF Stored, Parts
<1>17. DataInv'
  <2>1. ASSUME NEW s \in Ranks
        PROVE  Stored(s) \in Int /\ Stored(s)' \in Int /\ Stored(s)' <= Stored(s)
    <3>1. Stored(s) \in Nat
      BY <1>4, StoredIsNat
    <3>2. CASE s = r
      <4>1. Stored(r)' = 0
        BY <1>3, <1>6, <1>11 DEF Stored, Closed2
      <4> QED
        BY <3>1, <3>2, <4>1
    <3>3. CASE s # r
      BY <1>16, <3>1, <3>3
    <3> QED
      BY <3>2, <3>3
  <2>2. DataInv
    BY DEF Good
  <2> QED
    BY <1>1, <1>4, <2>1, <2>2, DataStays
<1>18. ASSUME NEW s \in Ranks PROVE PartInv(s)' /\ AppendInv(s)'
  <2>1. AppendInv(s)'
    BY <1>6 DEF AppendInv
  <2>2. PartInv(s)
    BY DEF Good
  <2>3. CASE s # r
    <3>1. Parts(s) \in Nat /\ Parts(s)' = Parts(s)
      BY <1>4, <1>16, <2>3, StoredIsNat
    <3>2. Parts(s) \in Int /\ Parts(s)' \in Int /\ Parts(s)' <= Parts(s)
      BY <3>1
    <3>3. PartInv(s)'
      BY <1>1, <1>10, <2>2, <3>2, PartsStay
    <3> QED
      BY <2>1, <3>3
  <2>4. CASE s = r
    <3>1. Parts(r) = n[r] /\ Parts(r)' = n[r] + 1
      BY <1>1, <1>3, <1>11 DEF Parts
    <3>2. File(job, r)' = File(job, r) /\ File(job, r) \in Ranks
      BY <1>6, MpiAssumption DEF File, Ranks
    <3>3. \A i : PartOf(r, i)' = PartOf(r, i)
      BY <1>6 DEF PartOf, S, T
    <3>4. <<PartOf(r, n[r]), Tok(job, r, n[r])>> \in uploads'[File(job, r)]
      BY <1>2, <1>4, <3>2 DEF TypeInv
    <3>5. ASSUME Shared => Reads /\ rep[r] = rep[0], NEW i \in 0..(Parts(r)' - 1)
          PROVE  <<PartOf(r, i), Tok(job, r, i)>> \in uploads'[File(job, r)]
      <4>1. CASE i = n[r]
        BY <3>4, <4>1
      <4>2. CASE i # n[r]
        <5>1. i \in 0..(Parts(r) - 1)
          BY <1>4, <3>1, <4>2
        <5>2. <<PartOf(r, i), Tok(job, r, i)>> \in uploads[File(job, r)]
          BY <2>2, <2>4, <3>5, <5>1 DEF PartInv
        <5> QED
          BY <1>10, <3>2, <5>2
      <4> QED
        BY <4>1, <4>2
    <3>6. PartInv(r)'
      BY <1>1, <1>6, <3>2, <3>3, <3>5 DEF PartInv
    <3> QED
      BY <2>1, <2>4, <3>6
  <2> QED
    BY <2>3, <2>4
<1> QED
  BY <1>11, <1>14, <1>15, <1>17, <1>18, Assemble
----------------------------------------------------------------------------
(* Reading.                                                                *)

\* While a rank reads, all are in its repetition and have closed the files they wrote.
LEMMA AllHaveClosed ==
    ASSUME SensibleJobs, Good, NEW r \in Ranks, at[r] = "read"
    PROVE  Reads /\ \A s \in Ranks : rep[s] = rep[r] /\ at[s] \in Closed2
<1>1. /\ job \in JobType /\ TypeInv /\ PlaceInv(r) /\ CountInv(r) /\ MetInv(r)
      /\ rep[r] \in Nat \ {0} /\ Started(r) \in Nat /\ n[r] \in Nat
  BY Before
<1>2. Reads /\ n[r] < Total(job)
  BY <1>1 DEF PlaceInv
<1>3. AtOpen(job) \in Nat /\ AtCloseRead(job) \in Nat /\ AtRemove(job) \in Nat
      /\ AtCloseRead(job) + 1 <= AtRemove(job)
  BY <1>1, PlacesInOrder
<1>4. \A s \in Ranks : Count(s) >= Started(r) + AtOpen(job)
  BY <1>1, <1>2 DEF MetInv, Met
<1>5. Count(r) < Started(r) + AtRemove(job)
  <2>1. n[r] \in 0..Total(job)
    BY <1>1, <1>2, TotalIs
  <2> DEFINE d == Due(job, "read", n[r])
  <2>2. d \in Nat /\ d <= AtCloseRead(job)
    BY <1>1, <2>1, PlacesInOrder
  <2>3. Pledged(r) = Started(r) + d
    BY <1>1, <1>2 DEF CountInv
  <2> HIDE DEF d
  <2>4. Count(r) \in Nat /\ Count(r) <= Pledged(r) /\ Pledged(r) \in Nat
    BY <1>1, PledgedIsNat
  <2> QED
    BY <1>1, <1>3, <2>2, <2>3, <2>4
<1>6. ASSUME NEW s \in Ranks PROVE rep[s] = rep[r] /\ at[s] \in Closed2
  <2>1. /\ PlaceInv(s) /\ CountInv(s) /\ MetInv(s) /\ rep[s] \in Nat \ {0}
        /\ Started(s) \in Nat /\ Count(s) \in Nat /\ Pledged(s) \in Nat
    BY Before
  <2>2. Count(s) >= Started(r) + AtOpen(job) /\ Count(r) \in Nat
    BY <1>1, <1>4, PledgedIsNat
  <2>3. rep[s] >= rep[r]
    <3>1. Count(s) >= Begin(job, rep[r])
      BY <1>1, <1>3, <2>1, <2>2 DEF Started
    <3> QED
      BY <1>1, <1>2, <2>1, <3>1, NotBehind
  <2>4. ~(rep[r] < rep[s])
    <3>1. ASSUME rep[r] < rep[s] PROVE FALSE
      <4>1. Count(r) >= Started(r) + AtRemove(job)
        BY <1>1, <1>2, <2>1, <3>1, NotFarBehind
      <4> QED
        BY <1>1, <1>3, <1>5, <2>2, <4>1
    <3> QED
      BY <3>1
  <2>5. rep[s] = rep[r]
    BY <1>1, <2>1, <2>3, <2>4
  <2>6. Started(s) = Started(r)
    BY <2>5 DEF Started
  <2>7. Pledged(s) >= Started(s) + AtOpen(job)
    <3>1. Count(s) <= Pledged(s)
      BY <1>1, PledgedIsNat
    <3> QED
      BY <1>1, <1>3, <2>1, <2>2, <2>6, <3>1
  <2>8. at[s] \in Closed2
    BY <1>1, <1>2, <2>1, <2>7, Position
  <2> QED
    BY <2>5, <2>8
<1> QED
  BY <1>2, <1>6

\* So the data is there.
LEMMA DataIsThere ==
    ASSUME SensibleJobs, Good, NEW r \in Ranks, at[r] = "read", NEW q \in Ranks
    PROVE  Holds(q, n[r])
<1>1. job \in JobType /\ TypeInv /\ PlaceInv(r) /\ n[r] \in Nat /\ Total(job) \in Nat /\ DataInv
  BY Before DEF Good
<1>2. Reads /\ \A s \in Ranks : rep[s] = rep[r] /\ at[s] \in Closed2
  BY AllHaveClosed
<1>3. PICK k \in Ranks : k = Keeper(q)
  <2>1. 0 \in Ranks
    BY MpiAssumption DEF Ranks
  <2> QED
    BY <2>1 DEF Keeper
<1>4. Stored(k) = Total(job)
  BY <1>2 DEF Stored, Closed2
<1>5. \A t \in Remover(q) : rep[t] = rep[k]
  <2>1. Remover(q) \subseteq Ranks
    BY MpiAssumption DEF Remover, Ranks
  <2> QED
    BY <1>2, <2>1
<1>6. n[r] \in 0..(Stored(k) - 1)
  <2>1. n[r] < Total(job)
    BY <1>1 DEF PlaceInv
  <2> QED
    BY <1>1, <1>4, <2>1
<1> QED
  BY <1>1, <1>2, <1>3, <1>5, <1>6 DEF DataInv

\* What a read that does not stop the test changes.
LEMMA ReadMeans ==
    ASSUME SensibleJobs, Good, NEW r \in Ranks, read(r), wrong \in [Ranks -> BOOLEAN]
    PROVE  /\ at[r] = "read" /\ ahead[r] = << >> /\ Ready(r) /\ Reads
           /\ UNCHANGED <<job, rep, wrong, uploads, etags>>
           /\ \/ stopped' /\ job.big /\ job.api = "NCMPI"
              \/ /\ ~stopped' /\ UNCHANGED files
                 /\ n' = [n EXCEPT ![r] = n'[r]] /\ n'[r] = n[r] + 1
                 /\ h' = [h EXCEPT ![r] = h'[r]] /\ h'[r] \in Handles
                 /\ job.api = "HDF5" => ~h'[r].newlyOpened /\ h'[r].suffix = n[r] \div T
                 /\ job.api = "NCMPI" => /\ h'[r].indep = ~job.collective
                                         /\ ~job.collective => ~h'[r].startDataSet
                 /\ \E ops \in Seq(Collectives), place \in {"read", "close_read"} :
                       /\ Moves(r, place, ops)
                       /\ Len(ops) = XferCalls(job, ReadAccess, n[r])
                       /\ place = "read" => n[r] + 1 # Total(job)
                       /\ place = "close_read" => n[r] + 1 = Total(job)
<1> DEFINE access == ReadAccess
<1>1. /\ at[r] = "read" /\ ahead[r] = << >> /\ Ready(r) /\ ~stopped
      /\ UNCHANGED <<job, rep, uploads, etags>>
      /\ Xfer(r, access, "close_read")
  BY DEF read, At, parts
<1>2. job \in JobType /\ TypeInv /\ Sensible(job) /\ PlaceInv(r) /\ Reads /\ n[r] \in Nat
  BY <1>1, Before DEF PlaceInv
<1>3. access \in {"READ", "READCHECK"} /\ access \in {"WRITE", ReadAccess} /\ access # "WRITE"
      /\ (access = "READCHECK" <=> job.readCheck)
  BY <1>2, JobParts DEF ReadAccess
<1> HIDE DEF access
<1>4. \/ stopped' /\ job.big /\ job.api = "NCMPI" /\ UNCHANGED <<n, files, wrong, h, at, ahead, calls>>
      \/ /\ Does(r, access, "close_read")
         /\ h' = [h EXCEPT ![r] = h'[r]] /\ h'[r] \in Handles
         /\ job.api = "HDF5" => ~h'[r].newlyOpened /\ h'[r].suffix = n[r] \div T
         /\ job.api = "NCMPI" =>
               /\ h'[r].indep = ~job.collective
               /\ access = "WRITE" => /\ ~h'[r].startDataSet /\ h'[r].defined
                                      /\ h'[r].firstReadCheck = h[r].firstReadCheck
                                      /\ job.big => n[r] + 1 <= T
               /\ access # "WRITE" /\ ~job.collective => ~h'[r].startDataSet
  <2>1. at[r] = IF access = "WRITE" THEN "write" ELSE "read"
    BY <1>1, <1>3
  <2> QED
    BY <1>1, <1>3, <2>1, XferMeans
<1>5. CASE stopped' /\ job.big /\ job.api = "NCMPI" /\ UNCHANGED <<n, files, wrong, h, at, ahead, calls>>
  BY <1>1, <1>2, <1>5
<1>6. CASE /\ Does(r, access, "close_read")
           /\ h' = [h EXCEPT ![r] = h'[r]] /\ h'[r] \in Handles
           /\ job.api = "HDF5" => ~h'[r].newlyOpened /\ h'[r].suffix = n[r] \div T
           /\ job.api = "NCMPI" =>
                 /\ h'[r].indep = ~job.collective
                 /\ access = "WRITE" => /\ ~h'[r].startDataSet /\ h'[r].defined
                                        /\ h'[r].firstReadCheck = h[r].firstReadCheck
                                        /\ job.big => n[r] + 1 <= T
                 /\ access # "WRITE" /\ ~job.collective => ~h'[r].startDataSet
  <2>1. PICK ops \in Seq(Collectives) : \E cells :
            /\ Access(r, access, cells, ops, "close_read")
            /\ Reads \/ job.api = "EMC" => cells = Cells(job, Pretend(r, access), n[r])
            /\ Reads => Len(ops) = XferCalls(job, access, n[r])
    BY <1>6 DEF Does
  <2>2. PICK cells : /\ Access(r, access, cells, ops, "close_read")
                     /\ Reads \/ job.api = "EMC" => cells = Cells(job, Pretend(r, access), n[r])
                     /\ Reads => Len(ops) = XferCalls(job, access, n[r])
    BY <2>1
  <2>3. PICK q \in Ranks : q = Pretend(r, access)
    BY <1>2, OffsetIs
  <2>4. cells = Cells(job, q, n[r]) /\ Len(ops) = XferCalls(job, access, n[r])
    BY <1>2, <2>2, <2>3
  <2>5. FileOf(q) = File(job, q) /\ Pattern(r, access) = Tok(job, q, n[r])
    BY <1>2, <2>3, OffsetIs
  <2>6. \A c \in cells : Has(FileOf(q), c) /\ files[FileOf(q)][c] = Pattern(r, access)
    <3>1. Holds(q, n[r])
      BY <1>1, DataIsThere
    <3> QED
      BY <2>4, <2>5, <3>1 DEF Holds
  <2>7. /\ files' = files
        /\ wrong' = [wrong EXCEPT ![r] = \/ wrong[r]
                                         \/ access = "READCHECK" /\ cells = {}
                                         \/ access # "WRITE" /\ \E c \in cells :
                                               files[FileOf(q)][c] # Pattern(r, access)]
        /\ n' = [n EXCEPT ![r] = n[r] + 1]
        /\ \E place \in After(r, access, "close_read") : GoAfter(r, ops, place)
    <3>1. ~(access # "WRITE" /\ \E c \in cells : ~Has(FileOf(q), c))
      BY <2>6
    <3> QED
      BY <1>3, <2>2, <2>3, <3>1 DEF Access
  <2>8. ~(access = "READCHECK" /\ cells = {})
    <3>1. ASSUME access = "READCHECK", cells = {} PROVE FALSE
      <4>1. job.api = "STRIDED" /\ ~(n[r] < job.transfers)
        <5>1. job.api = "STRIDED" /\ n[r] < job.transfers => cells # {}
          <6>1. 0 \in 0..(job.segments - 1)
            BY <1>2, JobParts
          <6>2. ASSUME job.api = "STRIDED", n[r] < job.transfers
                PROVE  <<0, Off(job, q, n[r]) + 0 * SegmentSize(job)>> \in cells
            BY <2>4, <6>1, <6>2 DEF Cells
          <6> QED
            BY <6>2
        <5>2. job.api # "STRIDED" => cells # {}
          BY <2>4 DEF Cells
        <5> QED
          BY <3>1, <5>1, <5>2
      <4>2. job.segments = 1
        BY <1>2, <1>3, <3>1, <4>1 DEF Sensible, Reads
      <4>3. n[r] < job.segments * job.transfers /\ job.transfers \in Nat
        BY <1>1, <1>2, JobParts DEF PlaceInv, Total
      <4> QED
        BY <4>1, <4>2, <4>3
    <3> QED
      BY <3>1
  <2>9. wrong' = wrong
    <3>1. wrong' = [wrong EXCEPT ![r] = wrong[r]]
      <4>1. wrong[r] \in BOOLEAN
        OBVIOUS
      <4> QED
        BY <2>6, <2>7, <2>8, <4>1
    <3> QED
      BY <3>1
  <2>10. n' = [n EXCEPT ![r] = n'[r]] /\ n'[r] = n[r] + 1
    BY <1>2, <2>7 DEF TypeInv
  <2>11. PICK place \in After(r, access, "close_read") : GoAfter(r, ops, place)
    BY <2>7
  <2>12. Moves(r, place, ops) /\ ~stopped'
    BY <1>1, <2>11 DEF GoAfter, Go, Moves
  <2>13. /\ place \in {"read", "close_read"}
         /\ place = "read" => n[r] + 1 # Total(job)
         /\ place = "close_read" => n[r] + 1 = Total(job)
    <3>1. ~job.deadline
      BY <1>2 DEF Reads
    <3> QED
      BY <1>3, <2>11, <3>1 DEF After, Total, S, T
  <2> QED
    BY <1>1, <1>2, <1>3, <1>6, <2>4, <2>7, <2>9, <2>10, <2>12, <2>13 DEF access
<1> QED
  BY <1>4, <1>5, <1>6

\* A rank reads a transfer.
LEMMA ReadStep ==
    ASSUME SensibleJobs, Good, NEW r \in Ranks, read(r), ~stopped', wrong \in [Ranks -> BOOLEAN]
    PROVE  Good'
<1>1. /\ at[r] = "read" /\ ahead[r] = << >> /\ Ready(r) /\ Reads
      /\ UNCHANGED <<job, rep, wrong, uploads, etags, files>>
      /\ n' = [n EXCEPT ![r] = n'[r]] /\ n'[r] = n[r] + 1
      /\ h' = [h EXCEPT ![r] = h'[r]] /\ h'[r] \in Handles
      /\ job.api = "HDF5" => ~h'[r].newlyOpened /\ h'[r].suffix = n[r] \div T
      /\ job.api = "NCMPI" => /\ h'[r].indep = ~job.collective
                              /\ ~job.collective => ~h'[r].startDataSet
  BY ReadMeans
<1>2. PICK ops \in Seq(Collectives), place \in {"read", "close_read"} :
         /\ Moves(r, place, ops)
         /\ Len(ops) = XferCalls(job, ReadAccess, n[r])
         /\ place = "read" => n[r] + 1 # Total(job)
         /\ place = "close_read" => n[r] + 1 = Total(job)
  BY ReadMeans
<1>3. /\ job \in JobType /\ TypeInv /\ PlaceInv(r) /\ CountInv(r) /\ EtagInv(r) /\ MetInv(r)
      /\ HandleInv(r) /\ Started(r) \in Nat /\ n[r] \in Nat /\ Total(job) \in Nat
      /\ Stored(r) \in Nat /\ Parts(r) \in Nat /\ Due(job, at[r], n[r]) \in Int
  BY Before
<1>4. n[r] < Total(job)
  BY <1>1, <1>3 DEF PlaceInv
<1>5. Reads' = Reads /\ Shared' = Shared /\ Started(r)' = Started(r) /\ job' = job
  BY <1>1 DEF Reads, Shared, Started
<1>6. Started(r)' + Due(job, place, n'[r]) = Started(r) + Due(job, at[r], n[r]) + Len(ops)
  <2> DEFINE w == "read"
  <2>1. w \in {"write", "read"} /\ at[r] = w
    BY <1>1
  <2>2. /\ place = w => n[r] + 1 # Total(job)
        /\ place # w => n[r] + 1 = Total(job)
        /\ place = w \/ (w = "write" /\ place = "close") \/ (w = "read" /\ place = "close_read")
    BY <1>2
  <2>3. w = "read"
    OBVIOUS
  <2> HIDE DEF w
  <2>4. Due(job, place, n[r] + 1) = Due(job, at[r], n[r])
              + XferCalls(job, IF w = "write" THEN "WRITE" ELSE ReadAs(job), n[r])
    BY <2>1, <2>2, NextTransfer
  <2>5. ReadAs(job) = ReadAccess
    BY DEF ReadAs, ReadAccess
  <2>6. Due(job, place, n'[r]) = Due(job, at[r], n[r]) + Len(ops)
    BY <1>1, <1>2, <2>3, <2>4, <2>5
  <2>7. Len(ops) \in Nat
    BY LenProperties
  <2> QED
    BY <1>3, <1>5, <2>6, <2>7
<1>7. place \in Places /\ n'[r] \in Nat
  BY <1>1, <1>3 DEF Places
<1>8. /\ TypeInv' /\ OthersStay(r) /\ CountsGrow /\ CountInv(r)'
      /\ at'[r] = place /\ \A s \in Ranks : Count(s)' = Count(s)
  <2>1. /\ rep' = [rep EXCEPT ![r] = rep'[r]] /\ rep'[r] \in Nat \ {0}
        /\ etags' = [etags EXCEPT ![r] = etags'[r]] /\ etags'[r] \in Seq(Tokens)
        /\ uploads' = [f \in Ranks |-> uploads'[f]] /\ wrong' \in [Ranks -> BOOLEAN]
    BY <1>1, <1>3, NothingChanges
  <2>2. /\ ahead[r] = << >> /\ Moves(r, place, ops)
        /\ h' = [h EXCEPT ![r] = h'[r]] /\ h'[r] \in Handles
        /\ n' = [n EXCEPT ![r] = n'[r]]
    BY <1>1, <1>2
  <2> QED
    BY <1>6, <1>7, <2>1, <2>2, MoveBasics
<1>9. n'[r] > 0
  BY <1>1, <1>3
<1>10. PlaceInv(r)'
  <2>1. place = "read" => n'[r] < Total(job)
    BY <1>1, <1>2, <1>3, <1>4
  <2>2. rep'[r] <= job.repetitions
    BY <1>1, <1>3 DEF PlaceInv
  <2> QED
    BY <1>1, <1>2, <1>5, <1>8, <2>1, <2>2 DEF PlaceInv
<1>11. HandleInv(r)'
  <2>1. ASSUME job.api = "HDF5" PROVE HDF5Inv(r)'
    <3>1. n'[r] - 1 = n[r] /\ ~h'[r].newlyOpened /\ h'[r].suffix = n[r] \div T /\ T' = T
      BY <1>1, <1>3, <1>5, <2>1 DEF T
    <3> QED
      BY <1>9, <3>1 DEF HDF5Inv
  <2>2. ASSUME job.api = "NCMPI" PROVE NCMPIInv(r)'
    <3>1. h'[r].indep = ~job.collective /\ (~job.collective => ~h'[r].startDataSet)
      BY <1>1, <2>2
    <3>2. job.big => S = 1
      BY <1>1, <1>3, <2>2 DEF HandleInv, NCMPIInv
    <3>3. S' = S
      BY <1>5 DEF S
    <3> QED
      BY <1>2, <1>5, <1>8, <1>9, <3>1, <3>2, <3>3 DEF NCMPIInv
  <2> QED
    BY <1>5, <2>1, <2>2 DEF HandleInv
<1>12. Local(r)'
  <2>1. LastInv(r)' /\ TellInv(r)'
    BY <1>2, <1>8 DEF LastInv, TellInv
  <2>2. EtagInv(r)'
    BY <1>1, <1>2, <1>3, <1>8 DEF EtagInv
  <2> QED
    BY <1>8, <1>10, <1>11, <2>1, <2>2 DEF Local
<1>13. MetInv(r)'
  <2>1. Met(at[r])' = AtOpen(job) /\ Met(at[r]) = AtOpen(job)
    BY <1>1, <1>2, <1>5, <1>8 DEF Met
  <2>2. \A s \in Ranks : Count(s)' >= Started(r) + AtOpen(job)
    BY <1>1, <1>3, <1>8, <2>1 DEF MetInv
  <2>3. ASSUME Shared, NEW s \in Ranks, s = 0 \/ job.api # "S3" PROVE Count(s)' >= Started(r) + 1
    BY <1>1, <1>3, <1>8, <2>3 DEF MetInv
  <2> QED
    BY <1>5, <2>1, <2>2, <2>3 DEF MetInv
<1>14. Stored(r)' <= Stored(r) /\ Parts(r)' <= Parts(r)
  <2>1. Stored(r)' = Stored(r)
    BY <1>1, <1>2, <1>5, <1>8 DEF Stored, Closed2
  <2>2. Parts(r)' = Parts(r)
    BY <1>1, <1>2, <1>5, <1>8 DEF Parts, Closed2
  <2> QED
    BY <1>3, <2>1, <2>2
<1>15. at'[r] # "write"
  BY <1>2, <1>8
<1> QED
  BY <1>1, <1>8, <1>12, <1>13, <1>14, <1>15, QuietStep
----------------------------------------------------------------------------
(* Completing an upload.                                                   *)

\* The places of d columns and e rows.
LEMMA Grid ==
    ASSUME NEW d \in Nat \ {0}, NEW e \in Nat \ {0}
    PROVE  /\ \A p \in 0..(d * e - 1) : /\ p \div d \in 0..(e - 1) /\ p % d \in 0..(d - 1)
                                        /\ p = d * (p \div d) + (p % d)
           /\ \A a \in 0..(e - 1), b \in 0..(d - 1) : /\ d * a + b \in 0..(d * e - 1)
                                                      /\ (d * a + b) \div d = a
                                                      /\ (d * a + b) % d = b
<1>1. d * e \in Nat
  OBVIOUS
<1>2. ASSUME NEW p \in 0..(d * e - 1)
      PROVE  /\ p \div d \in 0..(e - 1) /\ p % d \in 0..(d - 1) /\ p = d * (p \div d) + (p % d)
  <2> DEFINE a == p \div d
             b == p % d
  <2>1. p \in Nat /\ p < d * e
    BY <1>1
  <2>2. a \in Nat /\ b \in 0..(d - 1) /\ p = d * a + b
    BY <2>1, DivMod
  <2> HIDE DEF a, b
  <2>3. e <= a => FALSE
    <3>1. e <= a => d * e <= d * a
      BY <2>2, TimesMonotone
    <3>2. d * a \in Nat
      BY <2>2
    <3> QED
      BY <1>1, <2>1, <2>2, <3>1, <3>2
  <2>4. a \in 0..(e - 1)
    BY <2>2, <2>3
  <2> QED
    BY <2>2, <2>4 DEF a, b
<1>3. ASSUME NEW a \in 0..(e - 1), NEW b \in 0..(d - 1)
      PROVE  d * a + b \in 0..(d * e - 1) /\ (d * a + b) \div d = a /\ (d * a + b) % d = b
  <2>1. a \in Nat /\ e - 1 \in Nat /\ a <= e - 1
    OBVIOUS
  <2>2. d * a \in Nat /\ d * a <= d * (e - 1)
    BY <2>1, TimesMonotone
  <2>3. d * (e - 1) = d * e - d
    OBVIOUS
  <2>4. d * a + b \in 0..(d * e - 1)
    BY <1>1, <2>2, <2>3
  <2>5. (d * a + b) \div d = a /\ (d * a + b) % d = b
    BY <2>1, DivOf
  <2> QED
    BY <2>4, <2>5
<1> QED
  BY <1>2, <1>3

\* The number of a part is the offset of the transfer.
LEMMA PartIsOffset ==
    ASSUME job \in JobType, S3_check_params(job), job.api = "S3", NEW r \in Ranks,
           NEW i \in 0..(Total(job) - 1)
    PROVE  PartOf(r, i) = Off(job, r, i) /\ PartOf(r, i) \in Nat
<1> DEFINE t == job.transfers
           a == i \div t
           b == i % t
<1>1. t \in Nat \ {0} /\ job.segments \in Nat \ {0} /\ i \in Nat /\ r \in Nat /\ N \in Nat \ {0}
  BY JobParts, TotalIs, MpiAssumption DEF Ranks
<1>2. a \in Nat /\ b \in 0..(t - 1) /\ i = t * a + b
  <2> HIDE DEF t
  <2> QED
    BY <1>1, DivMod
<1>3. Off(job, r, i) = a * SegmentSize(job) + Start(job, r) + b /\ Off(job, r, i) \in Nat
  BY <1>1, OffsetTells DEF Off
<1>4. CASE job.filePerProc
  <2>1. PartOf(r, i) = i /\ SegmentSize(job) = t /\ Start(job, r) = 0
    BY <1>1, <1>4 DEF PartOf, SegmentSize, Start
  <2> HIDE DEF t, a, b
  <2>2. a * t + 0 + b = t * a + b
    BY <1>1, <1>2
  <2> QED
    BY <1>2, <1>3, <2>1, <2>2
<1>5. CASE ~job.filePerProc /\ job.segments = 1
  <2>1. PartOf(r, i) = r * t + i /\ Start(job, r) = r * t
    BY <1>5 DEF PartOf, Start, S, T
  <2>2. i < t
    BY <1>1, <1>5 DEF Total
  <2>3. SegmentSize(job) \in Nat
    BY <1>1 DEF SegmentSize
  <2> HIDE DEF t
  <2>4. a = 0 /\ b = i
    BY <1>1, <2>2
  <2>5. a * SegmentSize(job) = 0
    BY <2>3, <2>4
  <2>6. r * t \in Nat
    BY <1>1
  <2> QED
    BY <1>1, <1>3, <2>1, <2>4, <2>5, <2>6
<1>6. CASE ~job.filePerProc /\ job.segments # 1
  <2>1. t = 1
    BY <1>6 DEF S3_check_params
  <2>2. PartOf(r, i) = i * N + r /\ Start(job, r) = r * t /\ SegmentSize(job) = N * t
    BY <1>6 DEF PartOf, Start, SegmentSize, S, T
  <2> HIDE DEF t, a, b
  <2>3. a = i /\ b = 0
    BY <1>1, <1>2, <2>1
  <2>4. Start(job, r) = r /\ SegmentSize(job) = N
    BY <1>1, <2>1, <2>2
  <2>5. i * N \in Nat
    BY <1>1
  <2> QED
    BY <1>1, <1>3, <2>2, <2>3, <2>4, <2>5
<1> QED
  BY <1>4, <1>5, <1>6

\* Ordered puts each etag where its part belongs, and nothing else.
LEMMA OrderedIs ==
    ASSUME job \in JobType, S3_check_params(job), job.api = "S3", Shared, NEW v,
           \A s \in Ranks : v[s] = Etags(s, Total(job))
    PROVE  /\ \A p \in DOMAIN Ordered(v) : \E s \in Ranks, i \in 0..(Total(job) - 1) :
                 p = PartOf(s, i) /\ Ordered(v)[p] = Tok(job, s, i)
           /\ \A s \in Ranks, i \in 0..(Total(job) - 1) :
                 PartOf(s, i) \in DOMAIN Ordered(v) /\ Ordered(v)[PartOf(s, i)] = Tok(job, s, i)
<1> DEFINE m == Total(job)
           list == Ordered(v)
<1>1. m \in Nat \ {0} /\ N \in Nat \ {0} /\ 0 \in Ranks /\ Ranks = 0..(N - 1)
  BY TotalIs, MpiAssumption DEF Ranks
<1>2. \A s \in Ranks : \A i \in 0..(m - 1) : v[s][i + 1] = Tok(job, s, i)
  <2> SUFFICES ASSUME NEW s \in Ranks, NEW i \in 0..(m - 1) PROVE v[s][i + 1] = Tok(job, s, i)
    OBVIOUS
  <2>1. i + 1 \in 1..m /\ (i + 1) - 1 = i
    BY <1>1
  <2>2. Etags(s, m)[i + 1] = Tok(job, s, (i + 1) - 1)
    BY <1>1, <2>1, EtagsAre
  <2> QED
    BY <2>1, <2>2
<1>3. Len(v[0]) = m
  BY <1>1, EtagsAre
<1>4. list = [p \in 0..(N * m - 1) |-> IF S = 1 THEN v[p \div m][(p % m) + 1]
                                       ELSE v[p % N][(p \div N) + 1]]
  BY <1>3 DEF Ordered
<1>5. CASE S = 1
  <2>1. \A s, i : PartOf(s, i) = s * T + i
    BY <1>5 DEF PartOf, Shared
  <2>2. m = T
    <3>1. m = 1 * T /\ T \in Nat
      BY <1>5, JobParts DEF Total, S, T
    <3> QED
      BY <3>1
  <2> HIDE DEF m, list
  <2>3. N * m = m * N
    BY <1>1
  <2>4. \A p \in 0..(N * m - 1) : list[p] = v[p \div m][(p % m) + 1]
    BY <1>4, <1>5
  <2>5. ASSUME NEW p \in 0..(N * m - 1)
        PROVE  \E s \in Ranks, i \in 0..(m - 1) : p = PartOf(s, i) /\ list[p] = Tok(job, s, i)
    <3>1. p \div m \in Ranks /\ p % m \in 0..(m - 1) /\ p = m * (p \div m) + (p % m)
      BY <1>1, <2>3, Grid
    <3>2. list[p] = Tok(job, p \div m, p % m)
      BY <1>2, <2>4, <3>1
    <3>3. PICK s \in Ranks, i \in 0..(m - 1) : s = p \div m /\ i = p % m
      BY <3>1
    <3>4. m * s = s * m
      BY <1>1, <3>3
    <3>5. p = s * T + i
      BY <2>2, <3>1, <3>3, <3>4
    <3> QED
      BY <2>1, <3>2, <3>3, <3>5
  <2>6. ASSUME NEW s \in Ranks, NEW i \in 0..(m - 1)
        PROVE  PartOf(s, i) \in 0..(N * m - 1) /\ list[PartOf(s, i)] = Tok(job, s, i)
    <3>1. m * s + i \in 0..(m * N - 1) /\ (m * s + i) \div m = s /\ (m * s + i) % m = i
      BY <1>1, Grid
    <3>2. PartOf(s, i) = m * s + i
      <4>1. m * s = s * m
        BY <1>1
      <4> QED
        BY <2>1, <2>2, <4>1
    <3>3. list[m * s + i] = v[s][i + 1]
      BY <2>3, <2>4, <3>1
    <3> QED
      BY <1>2, <2>3, <3>1, <3>2, <3>3
  <2>7. DOMAIN list = 0..(N * m - 1)
    BY <1>4
  <2> QED
    BY <2>5, <2>6, <2>7 DEF m, list
<1>6. CASE S # 1
  <2>1. \A s, i : PartOf(s, i) = i * N + s
    BY <1>6 DEF PartOf, Shared
  <2> HIDE DEF m, list
  <2>2. \A p \in 0..(N * m - 1) : list[p] = v[p % N][(p \div N) + 1]
    BY <1>4, <1>6
  <2>3. ASSUME NEW p \in 0..(N * m - 1)
        PROVE  \E s \in Ranks, i \in 0..(m - 1) : p = PartOf(s, i) /\ list[p] = Tok(job, s, i)
    <3>1. p \div N \in 0..(m - 1) /\ p % N \in Ranks /\ p = N * (p \div N) + (p % N)
      BY <1>1, Grid
    <3>2. list[p] = Tok(job, p % N, p \div N)
      BY <1>2, <2>2, <3>1
    <3>3. PICK s \in Ranks, i \in 0..(m - 1) : s = p % N /\ i = p \div N
      BY <3>1
    <3>4. N * i = i * N
      BY <1>1, <3>3
    <3>5. p = i * N + s
      BY <3>1, <3>3, <3>4
    <3> QED
      BY <2>1, <3>2, <3>3, <3>5
  <2>4. ASSUME NEW s \in Ranks, NEW i \in 0..(m - 1)
        PROVE  PartOf(s, i) \in 0..(N * m - 1) /\ list[PartOf(s, i)] = Tok(job, s, i)
    <3>1. N * i + s \in 0..(N * m - 1) /\ (N * i + s) \div N = i /\ (N * i + s) % N = s
      <4>1. \A a \in 0..(m - 1), b \in 0..(N - 1) :
               N * a + b \in 0..(N * m - 1) /\ (N * a + b) \div N = a /\ (N * a + b) % N = b
        <5>1. PICK d \in Nat \ {0}, e \in Nat \ {0} : d = N /\ e = m
          BY <1>1
        <5>2. \A a \in 0..(e - 1), b \in 0..(d - 1) :
                 d * a + b \in 0..(d * e - 1) /\ (d * a + b) \div d = a /\ (d * a + b) % d = b
          BY Grid
        <5> QED
          BY <5>1, <5>2
      <4>2. s \in 0..(N - 1)
        BY <1>1
      <4> QED
        BY <4>1, <4>2
    <3>2. PartOf(s, i) = N * i + s
      <4>1. N * i = i * N
        BY <1>1
      <4> QED
        BY <2>1, <4>1
    <3>3. list[N * i + s] = v[s][i + 1]
      BY <2>2, <3>1
    <3> QED
      BY <1>2, <3>1, <3>2, <3>3
  <2>5. DOMAIN list = 0..(N * m - 1)
    BY <1>4
  <2> QED
    BY <2>3, <2>4, <2>5 DEF m, list
<1> QED
  BY <1>5, <1>6

\* Rank 0 completes an upload when all have told the etags of all their parts.
LEMMA AllHaveTold ==
    ASSUME SensibleJobs, Good, Reads, at[0] = "complete", ahead[0] = << >>, Ready(0), NEW s \in Ranks
    PROVE  /\ rep[s] = rep[0] /\ Parts(s) = Total(job) /\ Sent(s, 0) = Etags(s, Total(job))
<1>0. 0 \in Ranks
  BY MpiAssumption DEF Ranks
<1>1. /\ job \in JobType /\ TypeInv /\ PlaceInv(0) /\ CountInv(0) /\ LastInv(0)
      /\ rep[0] \in Nat \ {0} /\ Started(0) \in Nat /\ Count(0) \in Nat /\ Pledged(0) \in Nat
  BY <1>0, Before
<1>2. /\ PlaceInv(s) /\ CountInv(s) /\ MetInv(s) /\ TellInv(s) /\ rep[s] \in Nat \ {0}
      /\ Started(s) \in Nat /\ Count(s) \in Nat /\ Pledged(s) \in Nat /\ Count(s) <= Pledged(s)
  <2>1. TypeInv
    BY <1>1
  <2> QED
    BY <2>1, Before, PledgedIsNat
<1>3. Uploads(job)
  BY <1>1 DEF PlaceInv
<1>4. /\ AtClose(job) \in Nat /\ AtOpen(job) = AtClose(job) + 4 /\ AtRemove(job) \in Nat
      /\ AtOpen(job) + 1 <= AtRemove(job)
  <2>1. /\ AtClose(job) \in Nat /\ AtOpen(job) \in Nat /\ AtCloseRead(job) \in Nat
        /\ AtRemove(job) \in Nat /\ AtOpen(job) <= AtCloseRead(job)
        /\ AtCloseRead(job) + 1 <= AtRemove(job) /\ AtOpen(job) = AtClose(job) + 4
    BY <1>1, <1>3, PlacesInOrder
  <2> QED
    BY <2>1
<1>5. Count(0) = Started(0) + AtClose(job) + 2 /\ Count(s) >= Count(0)
  <2>1. LastOp(0) = "Gather"
    BY <1>1 DEF LastInv
  <2>2. Count(s) >= Count(0) /\ Pledged(0) = Count(0)
    BY <1>0, <1>1, <2>1, AllMet
  <2>3. Due(job, at[0], n[0]) = AtClose(job) + 2
    BY DEF Due
  <2>4. Pledged(0) = Started(0) + (AtClose(job) + 2)
    BY <1>1, <2>3 DEF CountInv
  <2> QED
    BY <1>1, <1>4, <2>2, <2>4
<1>6. rep[s] = rep[0]
  <2>1. rep[s] >= rep[0]
    <3>1. Count(s) >= Begin(job, rep[0])
      BY <1>1, <1>2, <1>4, <1>5 DEF Started
    <3> QED
      BY <1>1, <1>2, <3>1, NotBehind
  <2>2. ASSUME rep[0] < rep[s] PROVE FALSE
    <3>1. Count(0) >= Started(0) + AtRemove(job)
      BY <1>0, <1>1, <1>2, <2>2, NotFarBehind
    <3> QED
      BY <1>1, <1>4, <1>5, <3>1
  <2> QED
    BY <1>1, <1>2, <2>1, <2>2
<1>7. Started(s) = Started(0)
  BY <1>6 DEF Started
<1>8. at[s] \in {"complete"} \cup Closed2
  <2>1. Pledged(s) >= Started(s) + AtClose(job) + 2
    BY <1>1, <1>2, <1>4, <1>5, <1>7
  <2> QED
    BY <1>1, <1>2, <1>3, <2>1, Position
<1>9. at[s] \in {"complete", "open"}
  <2>1. ASSUME at[s] \in {"read", "close_read", "remove"} PROVE FALSE
    <3>1. Count(0) >= Started(s) + AtOpen(job)
      BY <1>0, <1>2, <2>1 DEF MetInv, Met
    <3> QED
      BY <1>1, <1>4, <1>5, <1>7, <3>1
  <2> QED
    BY <1>8, <2>1 DEF Closed2
<1>10. Sent(s, 0) = Etags(s, Total(job))
  <2>1. calls[s][Started(s) + AtClose(job) + 2].value = Etags(s, Total(job))
    BY <1>2, <1>3, <1>9 DEF TellInv
  <2> QED
    BY <1>5, <1>7, <2>1 DEF Sent
<1>11. Parts(s) = Total(job)
  <2>1. at[s] = "complete" => n[s] = Total(job)
    BY <1>2 DEF PlaceInv
  <2> QED
    BY <1>9, <2>1 DEF Parts, Closed2
<1> QED
  BY <1>6, <1>10, <1>11

\* A complete upload is an object of its parts.
LEMMA UploadIsComplete ==
    ASSUME NEW f, NEW list, CompleteUpload(f, list), \A p \in DOMAIN list : <<p, list[p]>> \in uploads[f]
    PROVE  /\ stopped' = stopped
           /\ \A p \in DOMAIN list : Has(f, <<0, p>>)' /\ files'[f][<<0, p>>] = list[p]
           /\ \A g, c : g # f /\ Has(g, c) => Has(g, c)' /\ files'[g][c] = files[g][c]
<1> DEFINE content == [c \in {<<0, p>> : p \in DOMAIN list} |-> list[c[2]]]
<1>1. files' = With(f, content) /\ stopped' = stopped
  BY DEF CompleteUpload
<1>2. \A p \in DOMAIN list : <<0, p>> \in DOMAIN content /\ content[<<0, p>>] = list[p]
  OBVIOUS
<1> HIDE DEF content
<1>3. files' = [g \in DOMAIN files \cup {f} |-> IF g = f THEN content ELSE files[g]]
  BY <1>1 DEF With
<1>4. f \in DOMAIN files' /\ files'[f] = content
  BY <1>3
<1>5. \A g : g # f /\ g \in DOMAIN files => g \in DOMAIN files' /\ files'[g] = files[g]
  BY <1>3
<1>6. \A p \in DOMAIN list : Has(f, <<0, p>>)' /\ files'[f][<<0, p>>] = list[p]
  BY <1>2, <1>4 DEF Has, Exists
<1>7. \A g, c : g # f /\ Has(g, c) => Has(g, c)' /\ files'[g][c] = files[g][c]
  BY <1>5 DEF Has, Exists
<1> QED
  BY <1>1, <1>6, <1>7

\* In a job that reads, rank 0 gets the server to complete the shared object.
LEMMA CompleteMeans ==
    ASSUME SensibleJobs, Good, Reads, Complete(0)
    PROVE  /\ ~stopped'
           /\ \A q \in Ranks, i \in 0..(Total(job) - 1) : Holds(q, i)'
<1>0. 0 \in Ranks
  BY MpiAssumption DEF Ranks
<1>1. /\ at[0] = "complete" /\ ahead[0] = << >> /\ Ready(0) /\ ~stopped /\ job' = job
      /\ CompleteUpload(0, Ordered([s \in Ranks |-> Sent(s, 0)]))
  BY DEF Complete, At
<1>2. job \in JobType /\ S3_check_params(job) /\ PlaceInv(0) /\ Total(job) \in Nat
  BY <1>0, Before
<1>3. Uploads(job) /\ job.api = "S3" /\ Shared
  BY <1>1, <1>2 DEF PlaceInv, Uploads, Shared
<1>4. PICK v : v = [s \in Ranks |-> Sent(s, 0)]
  OBVIOUS
<1>5. PICK list : list = Ordered(v)
  OBVIOUS
<1>6. CompleteUpload(0, list)
  BY <1>1, <1>4, <1>5
<1>7. \A s \in Ranks : rep[s] = rep[0] /\ Parts(s) = Total(job) /\ v[s] = Etags(s, Total(job))
  BY <1>1, <1>4, AllHaveTold
<1>8. /\ \A p \in DOMAIN list : \E s \in Ranks, i \in 0..(Total(job) - 1) :
             p = PartOf(s, i) /\ list[p] = Tok(job, s, i)
      /\ \A s \in Ranks, i \in 0..(Total(job) - 1) :
             PartOf(s, i) \in DOMAIN list /\ list[PartOf(s, i)] = Tok(job, s, i)
  BY <1>2, <1>3, <1>5, <1>7, OrderedIs
<1>9. ASSUME NEW s \in Ranks, NEW i \in 0..(Total(job) - 1)
      PROVE  <<PartOf(s, i), Tok(job, s, i)>> \in uploads[0]
  <2>1. PartInv(s)
    BY DEF Good
  <2>2. i \in 0..(Parts(s) - 1) /\ rep[s] = rep[0]
    BY <1>7
  <2>3. File(job, s) = 0
    BY <1>3 DEF File, Shared
  <2> QED
    BY <1>3, <2>1, <2>2, <2>3 DEF PartInv
<1>10. \A p \in DOMAIN list : <<p, list[p]>> \in uploads[0]
  BY <1>8, <1>9
<1>11. /\ stopped' = stopped
       /\ \A p \in DOMAIN list : Has(0, <<0, p>>)' /\ files'[0][<<0, p>>] = list[p]
  BY <1>6, <1>10, UploadIsComplete
<1>12. ASSUME NEW q \in Ranks, NEW i \in 0..(Total(job) - 1) PROVE Holds(q, i)'
  <2>1. Cells(job, q, i) = {<<0, Off(job, q, i)>>} /\ File(job, q) = 0
    BY <1>3 DEF Cells, File, Shared
  <2>2. PartOf(q, i) = Off(job, q, i)
    BY <1>2, <1>3, PartIsOffset
  <2>3. Has(0, <<0, Off(job, q, i)>>)' /\ files'[0][<<0, Off(job, q, i)>>] = Tok(job, q, i)
    <3>1. PICK p : p = Off(job, q, i)
      OBVIOUS
    <3>2. p \in DOMAIN list /\ list[p] = Tok(job, q, i)
      BY <1>8, <2>2, <3>1
    <3>3. Has(0, <<0, p>>)' /\ files'[0][<<0, p>>] = Tok(job, q, i)
      BY <1>11, <3>2
    <3>4. Off(job, q, i)' = p
      BY <1>1, <3>1
    <3> QED
      BY <1>1, <3>1, <3>3, <3>4
  <2>4. /\ Cells(job, q, i)' = {<<0, Off(job, q, i)>>} /\ File(job, q)' = 0
        /\ Tok(job, q, i)' = Tok(job, q, i)
    BY <1>1, <2>1
  <2>5. Has(0, <<0, Off(job, q, i)>>)' <=> <<0, Off(job, q, i)>> \in DOMAIN files'[0] /\ 0 \in DOMAIN files'
    BY <1>1 DEF Has, Exists
  <2> QED
    BY <2>3, <2>4, <2>5 DEF Holds, Has, Exists
<1> QED
  BY <1>1, <1>11, <1>12

\* A rank leaves the completion of a shared object.
LEMMA CompleteStep ==
    ASSUME SensibleJobs, Good, NEW r \in Ranks, Complete(r)
    PROVE  Good'
<1> DEFINE ops == <<"Barrier", "Barrier">>
<1>0. PICK place \in Places : place = Closed(r) /\ place = (IF Reads THEN "open" ELSE "remove")
  BY DEF Closed, Reads, Places
<1>1. /\ at[r] = "complete" /\ ahead[r] = << >> /\ Ready(r)
      /\ UNCHANGED <<job, calls, rep, n, h, uploads, wrong>>
      /\ etags' = [etags EXCEPT ![r] = << >>]
      /\ at' = [at EXCEPT ![r] = place] /\ ahead' = [ahead EXCEPT ![r] = ops]
      /\ r # 0 => files' = files
  BY <1>0 DEF Complete, At, Go, s3_MPU_reset, loop
<1>2. /\ job \in JobType /\ TypeInv /\ PlaceInv(r) /\ CountInv(r) /\ MetInv(r) /\ TellInv(r)
      /\ Started(r) \in Nat /\ n[r] \in Nat /\ Total(job) \in Nat /\ Stored(r) \in Nat /\ Parts(r) \in Nat
      /\ Pledged(r) \in Nat /\ Due(job, at[r], n[r]) \in Int
  BY Before
<1>3. Uploads(job) /\ job.api = "S3" /\ Shared
  BY <1>1, <1>2 DEF PlaceInv, Uploads, Shared
<1>5. ops \in Seq(Collectives) /\ Len(ops) = 2 /\ ops # << >> /\ ops[2] = "Barrier"
  BY DEF Collectives, Synchronizing
<1> HIDE DEF ops
<1>6. Reads' = Reads /\ Shared' = Shared /\ Started(r)' = Started(r) /\ job' = job /\ n'[r] = n[r]
  BY <1>1 DEF Reads, Shared, Started
<1>7. AtClose(job) \in Nat /\ AtOpen(job) = AtClose(job) + 4
  BY <1>2, <1>3, PlacesInOrder
<1>8. Reads => Started(r)' + Due(job, place, n'[r]) = Started(r) + Due(job, at[r], n[r]) + Len(ops)
  <2>1. Due(job, at[r], n[r]) = AtClose(job) + 2
    BY <1>1 DEF Due
  <2>2. Reads => Due(job, place, n'[r]) = AtOpen(job)
    BY <1>0 DEF Due
  <2> QED
    BY <1>2, <1>5, <1>6, <1>7, <2>1, <2>2
<1>9. /\ TypeInv' /\ OthersStay(r) /\ CountsGrow /\ CountInv(r)'
      /\ at'[r] = place /\ ahead'[r] = ops /\ \A s \in Ranks : Count(s)' = Count(s)
      /\ LastOp(r)' = IF ops # << >> THEN ops[Len(ops)] ELSE LastOp(r)
  <2>1. /\ rep' = [rep EXCEPT ![r] = rep'[r]] /\ rep'[r] \in Nat \ {0}
        /\ n' = [n EXCEPT ![r] = n'[r]] /\ n'[r] \in Nat
        /\ h' = [h EXCEPT ![r] = h'[r]] /\ h'[r] \in Handles
        /\ uploads' = [f \in Ranks |-> uploads'[f]] /\ wrong' \in [Ranks -> BOOLEAN]
    BY <1>1, <1>2, NothingChanges
  <2>2. etags' = [etags EXCEPT ![r] = etags'[r]] /\ etags'[r] \in Seq(Tokens)
    <3>1. << >> \in Seq(Tokens)
      BY EmptySeq
    <3> QED
      BY <1>1, <1>2, <3>1 DEF TypeInv
  <2>3. Moves(r, place, ops)
    BY <1>1 DEF Moves
  <2>4. ahead[r] = << >>
    BY <1>1
  <2> QED
    BY <1>0, <1>5, <1>8, <2>1, <2>2, <2>3, <2>4, MoveBasics
<1>10. etags'[r] = << >>
  BY <1>1, <1>2 DEF TypeInv
<1>11. Local(r)'
  <2>1. PlaceInv(r)'
    BY <1>1, <1>2, <1>0, <1>6, <1>9 DEF PlaceInv
  <2>2. LastInv(r)'
    BY <1>0, <1>5, <1>9 DEF LastInv
  <2>3. EtagInv(r)'
    BY <1>0, <1>9, <1>10 DEF EtagInv
  <2>4. TellInv(r)'
    <3> SUFFICES ASSUME Reads PROVE TellInv(r)'
      BY <1>6 DEF TellInv
    <3> DEFINE k == Started(r) + AtClose(job) + 1
               m == Started(r) + AtClose(job) + 2
    <3>1. /\ Count(r) >= k /\ calls[r][k].value = Total(job)
          /\ Count(r) >= m /\ calls[r][m].value = Etags(r, Total(job))
      BY <1>1, <1>2, <1>3 DEF TellInv
    <3>2. Etags(r, Total(job))' = Etags(r, Total(job)) /\ calls' = calls /\ Count(r)' = Count(r)
      BY <1>1, <1>9 DEF Etags
    <3> QED
      BY <1>0, <1>6, <1>9, <3>1, <3>2 DEF TellInv
  <2>5. HandleInv(r)'
    BY <1>3, <1>6 DEF HandleInv
  <2> QED
    BY <1>9, <2>1, <2>2, <2>3, <2>4, <2>5 DEF Local
<1>12. MetInv(r)'
  <2> SUFFICES ASSUME Reads PROVE MetInv(r)'
    BY <1>6 DEF MetInv
  <2>1. \A s \in Ranks : Count(s) >= Started(r) + (AtClose(job) + 1) /\ Count(s) \in Nat
    BY <1>1, <1>2, PledgedIsNat DEF MetInv, Met
  <2>2. \A s \in Ranks : Count(s)' >= Started(r) + 0 /\ Count(s)' >= Started(r) + 1
    BY <1>2, <1>7, <1>9, <2>1
  <2>3. Met(at[r])' = 0
    BY <1>0, <1>9 DEF Met
  <2> QED
    BY <1>6, <2>2, <2>3 DEF MetInv
<1>13. DataInv'
  <2> SUFFICES ASSUME Reads PROVE DataInv'
    BY <1>6 DEF DataInv
  <2>1. \A q \in Ranks : Keeper(q)' = 0 /\ Keeper(q) = 0 /\ Remover(q)' = {0} /\ Remover(q) = {0}
    BY <1>3, <1>6 DEF Keeper, Remover
  <2>2. CASE r = 0
    <3>1. \A q \in Ranks, i \in 0..(Total(job) - 1) : Holds(q, i)'
      BY <2>2, CompleteMeans
    <3>2. Stored(0)' = Total(job)
      BY <1>0, <1>6, <1>9, <2>2 DEF Stored, Closed2
    <3> QED
      BY <2>1, <3>1, <3>2 DEF DataInv
  <2>3. CASE r # 0
    <3>1. 0 \in Ranks \ {r}
      BY <2>3, MpiAssumption DEF Ranks
    <3>2. at'[0] = at[0] /\ n'[0] = n[0] /\ rep' = rep /\ files' = files
      BY <1>1, <1>9, <2>3, <3>1 DEF OthersStay
    <3>3. Stored(0)' = Stored(0)
      BY <1>6, <3>2 DEF Stored
    <3>4. \A q, i : Holds(q, i)' = Holds(q, i)
      BY <1>6, <3>2 DEF Holds, Has, Exists
    <3>5. DataInv
      BY DEF Good
    <3> QED
      BY <1>6, <2>1, <3>1, <3>2, <3>3, <3>4, <3>5 DEF DataInv
  <2> QED
    BY <2>2, <2>3
<1>14. ASSUME NEW s \in Ranks PROVE PartInv(s)' /\ AppendInv(s)'
  <2>1. AppendInv(s)'
    BY <1>3, <1>6 DEF AppendInv
  <2>2. Parts(s) \in Int /\ Parts(s)' \in Int /\ Parts(s)' <= Parts(s)
    <3>1. Parts(s) \in Nat
      BY <1>2, StoredIsNat
    <3>2. CASE s = r
      <4>1. Reads => n[r] = Total(job)
        BY <1>1, <1>2 DEF PlaceInv
      <4>2. Parts(r) = n[r] /\ Parts(r)' = IF Reads THEN Total(job) ELSE 0
        BY <1>1, <1>0, <1>6, <1>9 DEF Parts, Closed2
      <4> QED
        BY <1>2, <3>2, <4>1, <4>2
    <3>3. CASE s # r
      <4>1. at'[s] = at[s] /\ n'[s] = n[s]
        BY <1>9, <3>3 DEF OthersStay
      <4>2. Parts(s)' = Parts(s)
        BY <1>6, <4>1 DEF Parts
      <4> QED
        BY <3>1, <4>2
    <3> QED
      BY <3>2, <3>3
  <2>3. PartInv(s) /\ rep' = rep /\ \A f \in Ranks : uploads[f] \subseteq uploads'[f]
    BY <1>1 DEF Good
  <2>4. PartInv(s)'
    BY <1>6, <2>2, <2>3, PartsStay
  <2> QED
    BY <2>1, <2>4
<1> QED
  BY <1>9, <1>11, <1>12, <1>13, <1>14, Assemble

\* A rank completes the upload of its own object.
LEMMA CloseOwnStep ==
    ASSUME SensibleJobs, Good, NEW r \in Ranks, close(r), job.api = "S3", job.filePerProc
    PROVE  Good' /\ ~stopped'
<1> DEFINE ops == <<"Barrier">>
<1>0. PICK place \in Places : place = Closed(r) /\ place = (IF Reads THEN "open" ELSE "remove")
  BY DEF Closed, Reads, Places
<1>1. /\ at[r] = "close" /\ ahead[r] = << >> /\ Ready(r) /\ ~stopped
      /\ UNCHANGED <<job, calls, rep, n, h, uploads, wrong>>
      /\ etags' = [etags EXCEPT ![r] = << >>]
      /\ at' = [at EXCEPT ![r] = place] /\ ahead' = [ahead EXCEPT ![r] = ops]
      /\ CompleteUpload(r, [p \in 0..(Len(etags[r]) - 1) |-> etags[r][p + 1]])
  BY <1>0 DEF close, S3_CloseOwn, At, Go, s3_MPU_reset, loop
<1>2. /\ job \in JobType /\ TypeInv /\ PlaceInv(r) /\ CountInv(r) /\ MetInv(r) /\ EtagInv(r)
      /\ S3_check_params(job)
      /\ Started(r) \in Nat /\ n[r] \in Nat /\ Total(job) \in Nat
      /\ Pledged(r) \in Nat /\ Due(job, at[r], n[r]) \in Int
  BY Before
<1>3. ~Uploads(job) /\ job.api = "S3" /\ ~Shared /\ job.filePerProc
  BY DEF Uploads, Shared
<1>4. ops \in Seq(Collectives) /\ Len(ops) = 1 /\ ops # << >> /\ ops[1] = "Barrier"
  BY DEF Collectives, Synchronizing
<1> HIDE DEF ops
<1>5. Reads' = Reads /\ Shared' = Shared /\ Started(r)' = Started(r) /\ job' = job /\ n'[r] = n[r]
  BY <1>1 DEF Reads, Shared, Started
<1>6. AtClose(job) \in Nat /\ AtOpen(job) = AtClose(job) + 1
  BY <1>2, <1>3, PlacesInOrder DEF AtOpen, Closing, Optional
<1>7. Reads => Started(r)' + Due(job, place, n'[r]) = Started(r) + Due(job, at[r], n[r]) + Len(ops)
  <2>1. Due(job, at[r], n[r]) = AtClose(job)
    BY <1>1 DEF Due
  <2>2. Reads => Due(job, place, n'[r]) = AtOpen(job)
    BY <1>0 DEF Due
  <2> QED
    BY <1>2, <1>4, <1>5, <1>6, <2>1, <2>2
<1>8. /\ TypeInv' /\ OthersStay(r) /\ CountsGrow /\ CountInv(r)'
      /\ at'[r] = place /\ ahead'[r] = ops /\ \A s \in Ranks : Count(s)' = Count(s)
      /\ LastOp(r)' = IF ops # << >> THEN ops[Len(ops)] ELSE LastOp(r)
  <2>1. /\ rep' = [rep EXCEPT ![r] = rep'[r]] /\ rep'[r] \in Nat \ {0}
        /\ n' = [n EXCEPT ![r] = n'[r]] /\ n'[r] \in Nat
        /\ h' = [h EXCEPT ![r] = h'[r]] /\ h'[r] \in Handles
        /\ uploads' = [f \in Ranks |-> uploads'[f]] /\ wrong' \in [Ranks -> BOOLEAN]
    BY <1>1, <1>2, NothingChanges
  <2>2. etags' = [etags EXCEPT ![r] = etags'[r]] /\ etags'[r] \in Seq(Tokens)
    <3>1. << >> \in Seq(Tokens)
      BY EmptySeq
    <3> QED
      BY <1>1, <1>2, <3>1 DEF TypeInv
  <2>3. Moves(r, place, ops)
    BY <1>1 DEF Moves
  <2>4. ahead[r] = << >>
    BY <1>1
  <2> QED
    BY <1>4, <1>7, <2>1, <2>2, <2>3, <2>4, MoveBasics
<1>9. etags'[r] = << >>
  BY <1>1, <1>2 DEF TypeInv
<1>10. PICK list : list = [p \in 0..(Len(etags[r]) - 1) |-> etags[r][p + 1]]
  OBVIOUS
<1>11. DOMAIN list = 0..(n[r] - 1) /\ \A p \in 0..(n[r] - 1) : list[p] = Tok(job, r, p)
  <2>1. etags[r] = Etags(r, n[r])
    BY <1>1, <1>2, <1>3 DEF EtagInv
  <2>2. /\ Len(Etags(r, n[r])) = n[r]
        /\ \A i \in 1..n[r] : Etags(r, n[r])[i] = Tok(job, r, i - 1)
    BY <1>2, EtagsAre
  <2>3. DOMAIN list = 0..(n[r] - 1)
    BY <1>10, <2>1, <2>2
  <2>4. ASSUME NEW p \in 0..(n[r] - 1) PROVE list[p] = Tok(job, r, p)
    <3>1. list[p] = Etags(r, n[r])[p + 1]
      BY <1>10, <2>1, <2>2, <2>4
    <3>2. p + 1 \in 1..n[r] /\ (p + 1) - 1 = p
      BY <1>2
    <3>3. Etags(r, n[r])[p + 1] = Tok(job, r, (p + 1) - 1)
      BY <2>2, <3>2
    <3> QED
      BY <3>1, <3>2, <3>3
  <2> QED
    BY <2>3, <2>4
<1>12. \A p \in DOMAIN list : <<p, list[p]>> \in uploads[r]
  <2>1. PartInv(r)
    BY DEF Good
  <2>2. Parts(r) = n[r] /\ File(job, r) = r /\ \A p : PartOf(r, p) = p
    BY <1>1, <1>3 DEF Parts, File, PartOf
  <2> QED
    BY <1>3, <1>11, <2>1, <2>2 DEF PartInv
<1>13. /\ stopped' = stopped
       /\ \A p \in DOMAIN list : Has(r, <<0, p>>)' /\ files'[r][<<0, p>>] = list[p]
       /\ \A g, c : g # r /\ Has(g, c) => Has(g, c)' /\ files'[g][c] = files[g][c]
  <2>1. CompleteUpload(r, list)
    BY <1>1, <1>10
  <2> QED
    BY <1>12, <2>1, UploadIsComplete
<1>14. Local(r)'
  <2>1. PlaceInv(r)'
    BY <1>0, <1>1, <1>2, <1>5, <1>8 DEF PlaceInv
  <2>2. LastInv(r)'
    BY <1>0, <1>4, <1>8 DEF LastInv
  <2>3. EtagInv(r)'
    BY <1>0, <1>8, <1>9 DEF EtagInv
  <2>4. TellInv(r)' /\ HandleInv(r)'
    BY <1>3, <1>5 DEF TellInv, HandleInv
  <2> QED
    BY <1>8, <2>1, <2>2, <2>3, <2>4 DEF Local
<1>15. MetInv(r)'
  <2> SUFFICES ASSUME Reads PROVE MetInv(r)'
    BY <1>5 DEF MetInv
  <2>1. Met(at[r])' = 0 /\ Met(at[r]) = 0
    BY <1>0, <1>1, <1>8 DEF Met
  <2>2. \A s \in Ranks : Count(s)' >= Started(r) + 0
    BY <1>1, <1>2, <1>8, <2>1 DEF MetInv
  <2> QED
    BY <1>3, <1>5, <2>1, <2>2 DEF MetInv
<1>16. ASSUME NEW s \in Ranks \ {r} PROVE Stored(s)' = Stored(s) /\ Parts(s)' = Parts(s)
  <2>1. at'[s] = at[s] /\ n'[s] = n[s]
    BY <1>8 DEF OthersStay
  <2> QED
    BY <1>5, <2>1 DEF Stored, Parts
<1>17. DataInv'
  <2>1. Reads' = Reads /\ \A q \in Ranks : Keeper(q)' = q /\ Keeper(q) = q /\ Remover(q)' = Remover(q)
    BY <1>1, <1>3, <1>5 DEF Keeper, Remover, Pretend, Uploads
  <2>2. ASSUME Reads, NEW q \in Ranks, \A t \in Remover(q) : rep[t] = rep[q],
               NEW i \in 0..(Stored(q)' - 1)
        PROVE  Holds(q, i)'
    <3>1. CASE q = r
      <4>1. n[r] = Total(job) /\ Stored(r)' = Total(job)
        BY <1>0, <1>1, <1>2, <1>5, <1>8, <2>2 DEF PlaceInv, Stored, Closed2
      <4>2. i \in DOMAIN list /\ list[i] = Tok(job, r, i) /\ i \in 0..(Total(job) - 1)
        BY <1>11, <2>2, <3>1, <4>1
      <4>3. Off(job, r, i) = i
        <5>1. PartOf(r, i) = Off(job, r, i)
          BY <1>2, <1>3, <4>2, PartIsOffset
        <5> QED
          BY <1>3, <5>1 DEF PartOf
      <4>4. Cells(job, r, i) = {<<0, i>>} /\ File(job, r) = r
        BY <1>3, <4>3 DEF Cells, File
      <4>5. Has(r, <<0, i>>)' /\ files'[r][<<0, i>>] = Tok(job, r, i)
        BY <1>13, <4>2
      <4> QED
        BY <1>5, <3>1, <4>4, <4>5 DEF Holds
    <3>2. CASE q # r
      <4>1. Holds(q, i)
        <5>1. Stored(q)' = Stored(q)
          BY <1>16, <3>2
        <5>2. i \in 0..(Stored(q) - 1)
          BY <2>2, <5>1
        <5> QED
          BY <2>1, <2>2, <5>2 DEF Good, DataInv
      <4>2. File(job, q) = q
        BY <1>3 DEF File
      <4>3. \A c \in Cells(job, q, i) : Has(q, c)' /\ files'[q][c] = Tok(job, q, i)
        BY <1>13, <3>2, <4>1, <4>2 DEF Holds
      <4> QED
        BY <1>5, <4>2, <4>3 DEF Holds
    <3> QED
      BY <3>1, <3>2
  <2> QED
    BY <1>1, <2>1, <2>2 DEF DataInv
<1>18. ASSUME NEW s \in Ranks PROVE PartInv(s)' /\ AppendInv(s)'
  <2>1. AppendInv(s)'
    BY <1>3, <1>5 DEF AppendInv
  <2>2. Parts(s) \in Int /\ Parts(s)' \in Int /\ Parts(s)' <= Parts(s)
    <3>1. Parts(s) \in Nat
      BY <1>2, StoredIsNat
    <3>2. CASE s = r
      <4>1. Reads => n[r] = Total(job)
        BY <1>1, <1>2 DEF PlaceInv
      <4>2. Parts(r) = n[r] /\ Parts(r)' = IF Reads THEN Total(job) ELSE 0
        BY <1>0, <1>1, <1>5, <1>8 DEF Parts, Closed2
      <4> QED
        BY <1>2, <3>2, <4>1, <4>2
    <3>3. CASE s # r
      BY <1>16, <3>1, <3>3
    <3> QED
      BY <3>2, <3>3
  <2>3. PartInv(s) /\ rep' = rep /\ \A f \in Ranks : uploads[f] \subseteq uploads'[f]
    BY <1>1 DEF Good
  <2>4. PartInv(s)'
    BY <1>5, <2>2, <2>3, PartsStay
  <2> QED
    BY <2>1, <2>4
<1>19. Good'
  BY <1>8, <1>14, <1>15, <1>17, <1>18, Assemble
<1> QED
  BY <1>1, <1>13, <1>19
----------------------------------------------------------------------------
(* Who stops the test.                                                     *)

\* In a job that reads, all ranks have put all their parts.
LEMMA AllHaveCounted ==
    ASSUME SensibleJobs, Good, NEW r \in Ranks, Reads, at[r] = "count", ahead[r] = << >>, Ready(r)
    PROVE  Len(etags[r]) = MaxSent(r)
<1>1. /\ job \in JobType /\ TypeInv /\ PlaceInv(r) /\ CountInv(r) /\ LastInv(r) /\ EtagInv(r)
      /\ rep[r] \in Nat \ {0} /\ Started(r) \in Nat /\ Count(r) \in Nat /\ Pledged(r) \in Nat
      /\ n[r] \in Nat /\ Total(job) \in Nat
  BY Before
<1>2. Uploads(job)
  BY <1>1 DEF PlaceInv
<1>3. /\ AtClose(job) \in Nat /\ AtOpen(job) = AtClose(job) + 4 /\ AtRemove(job) \in Nat
      /\ AtOpen(job) + 1 <= AtRemove(job)
  <2>1. /\ AtClose(job) \in Nat /\ AtOpen(job) \in Nat /\ AtCloseRead(job) \in Nat
        /\ AtRemove(job) \in Nat /\ AtOpen(job) <= AtCloseRead(job)
        /\ AtCloseRead(job) + 1 <= AtRemove(job) /\ AtOpen(job) = AtClose(job) + 4
    BY <1>1, <1>2, PlacesInOrder
  <2> QED
    BY <2>1
<1>4. Count(r) = Started(r) + AtClose(job) + 1 /\ \A s \in Ranks : Count(s) >= Count(r)
  <2>1. LastOp(r) \in Synchronizing
    BY <1>1 DEF LastInv, Synchronizing
  <2>2. (\A s \in Ranks : Count(s) >= Count(r)) /\ Pledged(r) = Count(r)
    BY <1>1, <2>1, AllMet
  <2>3. Due(job, at[r], n[r]) = AtClose(job) + 1
    BY DEF Due
  <2>4. Pledged(r) = Started(r) + (AtClose(job) + 1)
    BY <1>1, <2>3 DEF CountInv
  <2> QED
    BY <1>1, <1>3, <2>2, <2>4
<1>5. ASSUME NEW s \in Ranks PROVE Sent(s, r) = Total(job)
  <2>1. /\ PlaceInv(s) /\ CountInv(s) /\ MetInv(s) /\ TellInv(s) /\ rep[s] \in Nat \ {0}
        /\ Started(s) \in Nat /\ Count(s) \in Nat /\ Pledged(s) \in Nat /\ Count(s) <= Pledged(s)
    BY <1>1, Before, PledgedIsNat
  <2>2. Count(s) >= Count(r)
    BY <1>4
  <2>3. rep[s] = rep[r]
    <3>1. rep[s] >= rep[r]
      <4>1. Count(s) >= Begin(job, rep[r])
        BY <1>1, <1>3, <1>4, <2>1, <2>2 DEF Started
      <4> QED
        BY <1>1, <2>1, <4>1, NotBehind
    <3>2. ASSUME rep[r] < rep[s] PROVE FALSE
      <4>1. Count(r) >= Started(r) + AtRemove(job)
        BY <1>1, <2>1, <3>2, NotFarBehind
      <4> QED
        BY <1>1, <1>3, <1>4, <4>1
    <3> QED
      BY <1>1, <2>1, <3>1, <3>2
  <2>4. Started(s) = Started(r)
    BY <2>3 DEF Started
  <2>5. at[s] \in {"count", "complete"} \cup Closed2
    <3>1. Pledged(s) >= Started(s) + AtClose(job) + 1
      BY <1>1, <1>3, <1>4, <2>1, <2>2, <2>4
    <3> QED
      BY <1>1, <2>1, <3>1, Position
  <2>6. at[s] \in {"count", "complete", "open"}
    <3>1. ASSUME at[s] \in {"read", "close_read", "remove"} PROVE FALSE
      <4>1. Count(r) >= Started(s) + AtOpen(job)
        BY <2>1, <3>1 DEF MetInv, Met
      <4> QED
        BY <1>1, <1>3, <1>4, <2>4, <4>1
    <3> QED
      BY <2>5, <3>1 DEF Closed2
  <2>7. calls[s][Started(s) + AtClose(job) + 1].value = Total(job)
    BY <1>2, <2>1, <2>6 DEF TellInv
  <2> QED
    BY <1>4, <2>4, <2>7 DEF Sent
<1>6. MaxSent(r) = Total(job)
  <2>1. \A s \in Ranks : Sent(s, r) \in Nat
    BY <1>1, <1>5
  <2>2. \E s \in Ranks : MaxSent(r) = Sent(s, r)
    BY <2>1, MaxIsLargest
  <2> QED
    BY <1>5, <2>2
<1>7. Len(etags[r]) = Total(job)
  <2>1. n[r] = Total(job)
    BY <1>1 DEF PlaceInv
  <2>2. etags[r] = Etags(r, n[r])
    BY <1>1, <1>2 DEF EtagInv, Uploads
  <2>3. Len(Etags(r, n[r])) = n[r]
    BY <1>1, EtagsAre
  <2> QED
    BY <2>1, <2>2, <2>3
<1> QED
  BY <1>6, <1>7

\* A write only stops the test where NetCDF would define a dimension again.
LEMMA WriteStops ==
    ASSUME SensibleJobs, Good, NEW r \in Ranks, write(r), job.api # "S3", stopped'
    PROVE  job.big /\ job.api = "NCMPI" /\ UNCHANGED <<job, wrong>>
<1> DEFINE access == "WRITE"
<1>1. /\ at[r] = "write" /\ ~stopped /\ job' = job /\ Xfer(r, access, "close")
  BY DEF write, At
<1>2. access \in {"WRITE", ReadAccess} /\ at[r] = (IF access = "WRITE" THEN "write" ELSE "read")
      /\ access = "WRITE"
  BY <1>1
<1> HIDE DEF access
<1>3. \/ stopped' /\ job.big /\ job.api = "NCMPI" /\ UNCHANGED <<n, files, wrong, h, at, ahead, calls>>
      \/ Does(r, access, "close")
  BY <1>1, <1>2, XferMeans
<1>4. ASSUME Does(r, access, "close") PROVE FALSE
  <2>1. PICK ops \in Seq(Collectives) : \E cells : Access(r, access, cells, ops, "close")
    BY <1>4 DEF Does
  <2>2. PICK cells : Access(r, access, cells, ops, "close")
    BY <2>1
  <2>3. \E place \in After(r, access, "close") : GoAfter(r, ops, place)
    BY <1>2, <2>2 DEF Access
  <2> QED
    BY <1>1, <2>3 DEF GoAfter
<1> QED
  BY <1>1, <1>3, <1>4

\* Why a rank may stop the test.
Reason == \/ job.deadline /\ job.api = "S3" /\ ~job.filePerProc
          \/ job.big /\ job.api = "NCMPI"

\* Every step keeps the invariant, unless it stops the test for a reason.
LEMMA RankStep ==
    ASSUME SensibleJobs, Good, ~stopped, wrong \in [Ranks -> BOOLEAN], NEW r \in Ranks, RankNext(r)
    PROVE  job' = job /\ wrong' = wrong /\ (stopped' => Reason) /\ (~stopped' => Good')
<1>1. CASE Collective(r)
  BY <1>1, CollectiveStep DEF Collective
<1>2. CASE s3_connect(r)
  BY <1>2, ConnectStep DEF s3_connect, GoAfter
<1>3. CASE create(r)
  <2>1. job' = job /\ wrong' = wrong /\ \E ops \in Seq(Collectives) : GoAfter(r, ops, "write")
    BY <1>3, CreateMeans
  <2>2. ~stopped'
    BY <2>1 DEF GoAfter
  <2> QED
    BY <1>3, <2>1, <2>2, CreateStep
<1>4. CASE write(r)
  <2>1. CASE job.api = "S3"
    BY <1>4, <2>1, S3PutMeans, S3PutStep
  <2>2. CASE job.api # "S3" /\ stopped'
    BY <1>4, <2>2, WriteStops DEF Reason
  <2>3. CASE job.api # "S3" /\ ~stopped'
    BY <1>4, <2>3, WriteMeans, WriteStep
  <2> QED
    BY <2>1, <2>2, <2>3
<1>5. CASE close(r)
  <2>1. job' = job /\ wrong' = wrong
    BY <1>5 DEF close
  <2>2. CASE job.api # "S3"
    <3>1. ~stopped'
      BY <1>5, <2>2 DEF close, EMC_Close, GoAfter
    <3> QED
      BY <1>5, <2>1, <2>2, <3>1, CloseStep
  <2>3. CASE job.api = "S3" /\ job.filePerProc
    BY <1>5, <2>1, <2>3, CloseOwnStep
  <2>4. CASE job.api = "S3" /\ ~job.filePerProc
    <3>1. ~stopped'
      BY <1>5, <2>4 DEF close, S3_Close
    <3> QED
      BY <1>5, <2>1, <2>4, <3>1, CountStep DEF Shared
  <2> QED
    BY <2>2, <2>3, <2>4
<1>6. CASE Gather(r)
  <2>1. /\ job' = job /\ wrong' = wrong /\ at[r] = "count" /\ ahead[r] = << >> /\ Ready(r)
        /\ stopped' => Len(etags[r]) # MaxSent(r)
    BY <1>6 DEF Gather, At, ERR
  <2>2. PlaceInv(r)
    BY Before
  <2>3. stopped' => ~Reads
    BY <2>1, AllHaveCounted
  <2>4. stopped' => Reason
    BY <2>1, <2>2, <2>3 DEF PlaceInv, Uploads, Reason, Reads
  <2> QED
    BY <1>6, <2>1, <2>4, GatherStep
<1>7. CASE Complete(r)
  <2>1. job' = job /\ wrong' = wrong /\ at[r] = "complete" /\ (r # 0 => ~stopped')
    BY <1>7 DEF Complete, At
  <2>2. PlaceInv(r)
    BY Before
  <2>3. stopped' => ~Reads
    BY <1>7, <2>1, CompleteMeans
  <2>4. stopped' => Reason
    BY <2>1, <2>2, <2>3 DEF PlaceInv, Uploads, Reason, Reads
  <2> QED
    BY <1>7, <2>1, <2>4, CompleteStep
<1>8. CASE open(r)
  <2>1. job' = job /\ wrong' = wrong /\ ~stopped'
    <3>1. job' = job /\ wrong' = wrong
      BY <1>8 DEF open, parts
    <3>2. HDF5_Open(r, "read") \/ NCMPI_Open(r, "read") \/ MPIIO_Open(r, "read") \/ S3_Open(r)
      BY <1>8 DEF open
    <3>3. UNCHANGED stopped
      BY <3>2 DEF HDF5_Open, NCMPI_Open, MPIIO_Open, S3_Open, GoAfter
    <3> QED
      BY <3>1, <3>3
  <2> QED
    BY <1>8, <2>1, OpenStep
<1>9. CASE read(r)
  <2>1. job' = job /\ wrong' = wrong /\ (stopped' => Reason)
    BY <1>9, ReadMeans DEF Reason
  <2> QED
    BY <1>9, <2>1, ReadStep
<1>10. CASE CloseRead(r)
  BY <1>10, CloseReadStep DEF CloseRead, GoAfter
<1>11. CASE RemoveFile(r)
  BY <1>11, RemoveStep DEF RemoveFile, GoAfter
<1> QED
  BY <1>1, <1>2, <1>3, <1>4, <1>5, <1>6, <1>7, <1>8, <1>9, <1>10, <1>11 DEF RankNext
----------------------------------------------------------------------------
(* The theorems.                                                           *)

\* The invariant holds at first.
LEMMA InitKeeps ==
    ASSUME SensibleJobs, Init
    PROVE  Inv
<1>1. /\ job \in Jobs /\ job \in JobType
      /\ at = [r \in Ranks |-> IF Object(job) THEN "s3_connect" ELSE "create"]
      /\ calls = NoCalls /\ ahead = [r \in Ranks |-> << >>]
      /\ rep = [r \in Ranks |-> 1] /\ n = [r \in Ranks |-> 0]
      /\ h = [r \in Ranks |-> NoHandle] /\ uploads = [f \in Ranks |-> {}]
      /\ etags = [r \in Ranks |-> << >>] /\ wrong = [r \in Ranks |-> FALSE]
      /\ stopped = FALSE
  BY JobIs DEF Init, Object
<1>2. \A C : << >> \in Seq(C)
  BY EmptySeq
<1>3. Len(<< >>) = 0
  BY EmptySeq
<1>4. calls \in CallsIn(Values) /\ \A r \in Ranks : Count(r) = 0
  <2>1. calls = [r \in Ranks |-> << >>]
    BY <1>1 DEF NoCalls
  <2> DEFINE C == [op : Collectives, value : Values]
  <2>2. << >> \in Seq(C)
    BY <1>2
  <2> HIDE DEF C
  <2>3. calls \in [Ranks -> Seq(C)]
    BY <2>1, <2>2
  <2> QED
    BY <1>3, <2>1, <2>3 DEF CallsIn, Count, C
<1>5. TypeInv
  <2>1. ahead \in [Ranks -> Seq(Collectives)] /\ etags \in [Ranks -> Seq(Tokens)]
    BY <1>1, <1>2
  <2>2. NoHandle \in Handles
    BY DEF NoHandle, Handles
  <2>3. at \in [Ranks -> Places]
    BY <1>1 DEF Places
  <2> QED
    BY <1>1, <1>4, <2>1, <2>2, <2>3 DEF TypeInv
<1>6. ASSUME NEW r \in Ranks PROVE Local(r) /\ MetInv(r) /\ PartInv(r) /\ AppendInv(r)
  <2>1. /\ at[r] = (IF Object(job) THEN "s3_connect" ELSE "create") /\ ahead[r] = << >>
        /\ rep[r] = 1 /\ n[r] = 0 /\ h[r] = NoHandle /\ etags[r] = << >>
    BY <1>1
  <2>2. job.repetitions \in Nat \ {0} /\ Started(r) = Optional(Object(job))
    <3>1. Begin(job, 1) = Optional(Object(job))
      BY <1>1, RepetitionsFollow
    <3> QED
      BY <1>1, <2>1, <3>1, JobParts DEF Started
  <2>3. PlaceInv(r)
    BY <2>1, <2>2 DEF PlaceInv
  <2>4. CountInv(r)
    <3>1. Pledged(r) = 0
      BY <1>3, <1>4, <2>1 DEF Pledged
    <3> QED
      BY <2>1, <2>2, <3>1 DEF CountInv, Due, Optional
  <2>5. LastInv(r) /\ EtagInv(r) /\ TellInv(r)
    BY <2>1 DEF LastInv, EtagInv, TellInv
  <2>6. HandleInv(r)
    BY <2>1 DEF HandleInv, HDF5Inv, NCMPIInv, NoHandle
  <2>7. MetInv(r)
    BY <1>4, <2>1, <2>2 DEF MetInv, Met, Optional
  <2>8. PartInv(r) /\ AppendInv(r)
    BY <2>1 DEF PartInv, AppendInv, Parts, Closed2
  <2> QED
    BY <2>3, <2>4, <2>5, <2>6, <2>7, <2>8 DEF Local
<1>7. DataInv
  <2>1. \A q \in Ranks : Stored(q) = 0
    BY <1>1 DEF Stored, Closed2
  <2> QED
    BY <2>1 DEF DataInv
<1> QED
  BY <1>1, <1>5, <1>6, <1>7 DEF Inv, Good, ReadBack, GivesUpForAReason

\* It holds when nothing changes.
LEMMA StutterKeeps ==
    ASSUME SensibleJobs, Inv, UNCHANGED vars
    PROVE  Inv'
<1>1. /\ job' = job /\ at' = at /\ calls' = calls /\ ahead' = ahead /\ rep' = rep /\ n' = n
      /\ files' = files /\ h' = h /\ uploads' = uploads /\ etags' = etags
      /\ wrong' = wrong /\ stopped' = stopped
  BY DEF vars, loop, parts
<1>2. ReadBack' /\ GivesUpForAReason' /\ (wrong \in [Ranks -> BOOLEAN])'
  BY <1>1 DEF Inv, ReadBack, GivesUpForAReason
<1>3. ASSUME ~stopped PROVE Good'
  <2>1. Good
    BY <1>3 DEF Inv
  <2>2. TypeInv /\ TypeInv'
    BY <1>1, <2>1 DEF Good, TypeInv
  <2>3. /\ Reads' = Reads /\ Shared' = Shared /\ S' = S /\ T' = T
        /\ \A r : Started(r)' = Started(r) /\ Count(r)' = Count(r)
    BY <1>1 DEF Reads, Shared, S, T, Started, Count
  <2>4. ASSUME NEW r \in Ranks PROVE Local(r)' /\ MetInv(r)' /\ PartInv(r)' /\ AppendInv(r)'
    <3>1. Local(r) /\ MetInv(r) /\ PartInv(r) /\ AppendInv(r)
      BY <2>1 DEF Good
    <3>2. PlaceInv(r)'
      BY <1>1, <2>3, <3>1 DEF Local, PlaceInv
    <3>3. CountInv(r)'
      BY <1>1, <2>3, <3>1 DEF Local, CountInv, Pledged
    <3>4. LastInv(r)'
      BY <1>1, <2>3, <3>1 DEF Local, LastInv, LastOp
    <3>5. \A k : Etags(r, k)' = Etags(r, k)
      BY <1>1 DEF Etags
    <3>6. EtagInv(r)' /\ TellInv(r)'
      BY <1>1, <2>3, <3>1, <3>5 DEF Local, EtagInv, TellInv
    <3>7. HandleInv(r)'
      BY <1>1, <2>3, <3>1 DEF Local, HandleInv, HDF5Inv, NCMPIInv
    <3>8. MetInv(r)'
      <4>1. CountsGrow
        BY <2>2, <2>3, PledgedIsNat DEF CountsGrow
      <4> QED
        BY <1>1, <2>2, <3>1, <4>1, MetStays
    <3>9. PartInv(r)'
      <4>1. Parts(r) \in Int /\ Parts(r)' \in Int /\ Parts(r)' <= Parts(r)
        <5>1. Parts(r)' = Parts(r)
          BY <1>1, <2>3 DEF Parts
        <5> QED
          BY <2>2, <5>1, StoredIsNat
      <4> QED
        BY <1>1, <3>1, <4>1, PartsStay
    <3>10. AppendInv(r)'
      BY <1>1, <3>1 DEF AppendInv, Exists
    <3> QED
      BY <3>2, <3>3, <3>4, <3>6, <3>7, <3>8, <3>9, <3>10 DEF Local
  <2>5. DataInv'
    <3>1. DataInv
      BY <2>1 DEF Good
    <3>2. \A q \in Ranks : Stored(q) \in Int /\ Stored(q)' \in Int /\ Stored(q)' <= Stored(q)
      <4>1. \A q \in Ranks : Stored(q)' = Stored(q)
        BY <1>1 DEF Stored
      <4> QED
        BY <2>2, <4>1, StoredIsNat
    <3> QED
      BY <1>1, <2>2, <3>1, <3>2, DataStays
  <2> QED
    BY <2>2, <2>4, <2>5 DEF Good
<1> QED
  BY <1>1, <1>2, <1>3 DEF Inv

\* It holds after every step.
LEMMA NextKeeps ==
    ASSUME SensibleJobs, Inv, Next
    PROVE  Inv'
<1>1. CASE Terminating
  BY <1>1, StutterKeeps DEF Terminating
<1>2. ASSUME NEW r \in Ranks, RankNext(r) PROVE Inv'
  <2>1. ~stopped
    BY <1>2 DEF RankNext, Collective, s3_connect, create, write, close, Gather, Complete, open, read,
                CloseRead, RemoveFile, At
  <2>2. Good /\ wrong \in [Ranks -> BOOLEAN] /\ ReadBack
    BY <2>1 DEF Inv
  <2>3. job' = job /\ wrong' = wrong /\ (stopped' => Reason) /\ (~stopped' => Good')
    BY <1>2, <2>1, <2>2, RankStep
  <2>4. ReadBack' /\ (wrong \in [Ranks -> BOOLEAN])'
    BY <2>2, <2>3 DEF ReadBack
  <2>5. GivesUpForAReason'
    BY <2>3 DEF GivesUpForAReason, Reason
  <2> QED
    BY <2>3, <2>4, <2>5 DEF Inv
<1> QED
  BY <1>1, <1>2 DEF Next

\* The inductive invariant: where a rank is and how far it has got say which
\* collectives it has called, no two transfers share a cell of a file, and while
\* one rank reads, all have closed what they wrote.
THEOREM LayoutInvariant ==
    ASSUME SensibleJobs
    PROVE  Spec => []Inv
<1>1. Init => Inv
  BY InitKeeps
<1>2. Inv /\ [Next]_vars => Inv'
  BY NextKeeps, StutterKeeps
<1> QED
  BY <1>1, <1>2, PTL DEF Spec

\* Whatever rank's place a rank takes, it reads what that rank has written at
\* that offset: aiori-HDF5.c, aiori-NCMPI.c, aiori-MPIIO.c, aiori-S3-4c.c.
THEOREM TransfersAreReadBack ==
    ASSUME SensibleJobs
    PROVE  Spec => []ReadBack
<1>1. Inv => ReadBack
  BY DEF Inv
<1> QED
  BY <1>1, LayoutInvariant, PTL

\* A backend only stops the test when the parts of an upload do not match or
\* when NetCDF would define a dimension again.
THEOREM StopsForAReason ==
    ASSUME SensibleJobs
    PROVE  Spec => []GivesUpForAReason
<1>1. Inv => GivesUpForAReason
  BY DEF Inv
<1> QED
  BY <1>1, LayoutInvariant, PTL
=============================================================================
