----------------------------- MODULE MpiProofs -----------------------------
(***************************************************************************)
(* What a call of a collective, and the return of one, mean: lemmas about   *)
(* Mpi that the proofs of its users rest on.                                *)
(***************************************************************************)
EXTENDS Mpi, FiniteSets, Functions, FiniteSetTheorems, WellFoundedInduction, TLAPS

\* A set of numbers has a least element.
LEMMA LeastNumber ==
    ASSUME NEW T \in SUBSET Nat, T # {}
    PROVE  \E x \in T : \A y \in T : x <= y
<1> DEFINE R == OpToRel(<, Nat)
<1>1. IsWellFoundedOn(R, Nat)
  BY NatLessThanWellFounded
<1>2. \A x, y \in Nat : <<x, y>> \in R <=> x < y
  BY DEF OpToRel
<1> HIDE DEF R
<1>3. PICK x \in T : \A y \in T : ~ (<<y, x>> \in R)
  BY <1>1, WFMin
<1>4. ASSUME NEW y \in T PROVE x <= y
  <2>1. x \in Nat /\ y \in Nat /\ ~(<<y, x>> \in R)
    BY <1>3
  <2>2. ~(y < x)
    BY <1>2, <2>1
  <2> QED
    BY <2>1, <2>2
<1> QED
  BY <1>4

\* So what holds of 0, and of n + 1 when it holds of n, holds of every number.
LEMMA InductionOverNat ==
    ASSUME NEW P, 0 \in P, \A n \in P \cap Nat : n + 1 \in P
    PROVE  Nat \subseteq P
<1> SUFFICES ASSUME Nat \ P # {} PROVE FALSE
  OBVIOUS
<1>1. PICK n \in Nat \ P : \A m \in Nat \ P : n <= m
  BY LeastNumber
<1>2. n - 1 \in Nat
  BY <1>1
<1>3. n - 1 \in P
  BY <1>1, <1>2
<1>4. (n - 1) + 1 \in P
  BY <1>2, <1>3
<1> QED
  BY <1>1, <1>4

\* The numbers that the ranks have got have a largest one.
LEMMA LargestExists ==
    ASSUME NEW f \in [Ranks -> Nat]
    PROVE  \E s \in Ranks : \A t \in Ranks : f[t] <= f[s]
<1> USE MpiAssumption DEF Ranks
<1> DEFINE P == {n \in Nat : \E u \in Nat : \A s \in Ranks : s < n => f[s] <= u}
<1>1. 0 \in P
  OBVIOUS
<1>2. ASSUME NEW n \in P PROVE n + 1 \in P
  <2>0. n \in Nat
    OBVIOUS
  <2> SUFFICES \E u \in Nat : \A s \in Ranks : s < n + 1 => f[s] <= u
    BY <2>0
  <2>1. PICK u \in Nat : \A s \in Ranks : s < n => f[s] <= u
    OBVIOUS
  <2>2. CASE n \in Ranks
    <3>1. u + f[n] \in Nat /\ u <= u + f[n] /\ f[n] <= u + f[n]
      BY <2>2
    <3>2. \A s \in Ranks : s < n + 1 => f[s] <= u + f[n]
      <4> SUFFICES ASSUME NEW s \in Ranks, s < n + 1 PROVE f[s] <= u + f[n]
        OBVIOUS
      <4>1. CASE s = n
        BY <2>2, <3>1, <4>1
      <4>2. CASE s < n
        BY <2>1, <2>2, <4>2
      <4> QED
        BY <2>0, <4>1, <4>2
    <3> QED
      BY <3>1, <3>2
  <2>3. CASE n \notin Ranks
    <3>1. \A s \in Ranks : s < n + 1 => s < n
      BY <2>0, <2>3
    <3> QED
      BY <2>1, <3>1
  <2> QED
    BY <2>2, <2>3
<1>3. Nat \subseteq P
  <2> HIDE DEF P
  <2> QED
    BY <1>1, <1>2, InductionOverNat
<1> DEFINE U == {u \in Nat : \A s \in Ranks : f[s] <= u}
<1>4. U # {}
  <2>1. N \in P
    BY <1>3
  <2>2. PICK u \in Nat : \A s \in Ranks : s < N => f[s] <= u
    BY <2>1
  <2>3. \A s \in Ranks : f[s] <= u
    BY <2>2
  <2> HIDE DEF P
  <2> QED
    BY <2>3
<1>5. PICK u \in U : \A w \in U : u <= w
  <2> HIDE DEF U
  <2>1. U \in SUBSET Nat
    BY DEF U
  <2> QED
    BY <1>4, <2>1, LeastNumber
<1>6. \E s \in Ranks : f[s] = u
  <2> SUFFICES ASSUME \A s \in Ranks : f[s] # u PROVE FALSE
    OBVIOUS
  <2>1. \A s \in Ranks : f[s] <= u - 1
    BY <1>5
  <2>2. u - 1 \in Nat
    <3>1. 0 \in Ranks
      OBVIOUS
    <3> QED
      BY <1>5, <2>1, <3>1
  <2> QED
    BY <1>5, <2>1, <2>2
<1> QED
  BY <1>5, <1>6

\* The calls of all ranks, whatever values they pass.
Collectives == Synchronizing \cup {"Bcast", "Reduce", "Gather"}
CallsIn(V) == [Ranks -> Seq([op : Collectives, value : V])]

\* A rank calls: its calls get one longer, nothing else changes.
LEMMA SendStep ==
    ASSUME NEW V, calls \in CallsIn(V), NEW r \in Ranks, NEW op \in Collectives, NEW value \in V,
           Send(r, op, value)
    PROVE  /\ calls' \in CallsIn(V)
           /\ Count(r)' = Count(r) + 1
           /\ calls'[r][Count(r) + 1] = [op |-> op, value |-> value]
           /\ \A k \in 1..Count(r) : calls'[r][k] = calls[r][k]
           /\ \A s \in Ranks \ {r} : calls'[s] = calls[s] /\ Count(s)' = Count(s)
<1> DEFINE c == [op |-> op, value |-> value]
<1>1. calls[r] \in Seq([op : Collectives, value : V]) /\ c \in [op : Collectives, value : V]
  BY DEF CallsIn
<1>2. calls' = [calls EXCEPT ![r] = Append(calls[r], c)]
  BY DEF Send
<1> HIDE DEF c
<1>3. /\ Append(calls[r], c) \in Seq([op : Collectives, value : V])
      /\ Len(Append(calls[r], c)) = Len(calls[r]) + 1
      /\ Append(calls[r], c)[Len(calls[r]) + 1] = c
      /\ \A k \in 1..Len(calls[r]) : Append(calls[r], c)[k] = calls[r][k]
  BY <1>1
<1> QED
  BY <1>2, <1>3 DEF CallsIn, Count, c

\* How long the calls are.
LEMMA CountIsNat ==
    ASSUME NEW V, calls \in CallsIn(V), NEW r \in Ranks
    PROVE  Count(r) \in Nat /\ DOMAIN calls[r] = 1..Count(r)
BY DEF CallsIn, Count

\* What has been called stays called, as it was.
LEMMA CallsStay ==
    ASSUME NEW V, calls \in CallsIn(V), NEW r \in Ranks, NEW op \in Collectives, NEW value \in V,
           Send(r, op, value) \/ UNCHANGED calls
    PROVE  \A s \in Ranks : /\ Count(s)' >= Count(s)
                            /\ \A k \in 1..Count(s) : calls'[s][k] = calls[s][k]
<1>1. \A s \in Ranks : Count(s) \in Nat
  BY CountIsNat
<1>2. CASE Send(r, op, value)
  <2>1. /\ Count(r)' = Count(r) + 1 /\ \A k \in 1..Count(r) : calls'[r][k] = calls[r][k]
        /\ \A s \in Ranks \ {r} : calls'[s] = calls[s] /\ Count(s)' = Count(s)
    BY <1>2, SendStep
  <2>2. \A s \in Ranks \ {r} : /\ Count(s)' >= Count(s)
                               /\ \A k \in 1..Count(s) : calls'[s][k] = calls[s][k]
    BY <1>1, <2>1
  <2>3. Count(r)' >= Count(r)
    BY <1>1, <2>1
  <2> QED
    BY <2>1, <2>2, <2>3
<1>3. CASE UNCHANGED calls
  BY <1>1, <1>3 DEF Count
<1> QED
  BY <1>2, <1>3

\* Who goes on after an operation in which nobody goes on before everybody is there
\* has met that operation of every rank.
LEMMA ReadyMeans ==
    ASSUME NEW r \in Ranks, Ready(r), Count(r) > 0, calls[r][Count(r)].op \in Synchronizing
    PROVE  \A s \in Ranks : /\ Count(s) >= Count(r)
                            /\ calls[s][Count(r)].op = calls[r][Count(r)].op
BY DEF Ready, ReadyIn, Synchronizing

\* Who goes on after a Bcast has met that of rank 0.
LEMMA BcastMeans ==
    ASSUME NEW r \in Ranks, Ready(r), Count(r) > 0, calls[r][Count(r)].op = "Bcast"
    PROVE  Count(0) >= Count(r) /\ calls[0][Count(r)].op = "Bcast"
BY DEF Ready, ReadyIn, Synchronizing

\* Everybody gets the largest of the values in an Allreduce of numbers.
LEMMA MaxIsLargest ==
    ASSUME NEW r \in Ranks, \A s \in Ranks : Sent(s, r) \in Nat
    PROVE  /\ \E s \in Ranks : MaxSent(r) = Sent(s, r)
           /\ \A s \in Ranks : Sent(s, r) <= MaxSent(r)
<1> DEFINE f == [s \in Ranks |-> Sent(s, r)]
<1>1. PICK s \in Ranks : \A t \in Ranks : f[t] <= f[s]
  <2>1. f \in [Ranks -> Nat]
    OBVIOUS
  <2> HIDE DEF f
  <2> QED
    BY <2>1, LargestExists
<1>2. \E v \in {Sent(t, r) : t \in Ranks} : \A t \in Ranks : Sent(t, r) <= v
  BY <1>1
<1> QED
  BY <1>2 DEF MaxSent, MaxSentIn
----------------------------------------------------------------------------
(* Sums over the ranks.                                                    *)

\* What a fold adds up over a set: one of its elements, and the rest.
Pick(s) == CHOOSE x \in s : TRUE
Adds(v, g, s) == IF s = {} THEN 0 ELSE v[Pick(s)] + g[s \ {Pick(s)}]

Sums(v, S) == CHOOSE g : g = [s \in SUBSET S |-> Adds(v, g, s)]

\* Adding up a function is such a sum.
LEMMA FoldIsSums ==
    ASSUME NEW v
    PROVE  FoldFunction(LAMBDA a, b : a + b, 0, v) = Sums(v, DOMAIN v)[DOMAIN v]
BY DEF FoldFunction, FoldFunctionOnSet, MapThenFoldSet, Sums, Adds, Pick

\* What grows by the value of an element with each element is the sum.
LEMMA SumIs ==
    ASSUME NEW v, IsFiniteSet(DOMAIN v), NEW h, h = [s \in SUBSET (DOMAIN v) |-> h[s]],
           h[{}] = 0,
           \A s \in SUBSET (DOMAIN v) : \A x \in s : h[s] = v[x] + h[s \ {x}]
    PROVE  FoldFunction(LAMBDA a, b : a + b, 0, v) = h[DOMAIN v]
<1> DEFINE S == DOMAIN v
           g == Sums(v, S)
           P == {n \in Nat : \A s \in SUBSET S : Cardinality(s) = n => g[s] = h[s]}
<1>1. ASSUME NEW s \in SUBSET S PROVE h[s] = Adds(v, h, s)
  <2>1. s # {} => Pick(s) \in s
    BY DEF Pick
  <2> QED
    BY <2>1 DEF Adds
<1>2. h = [s \in SUBSET S |-> Adds(v, h, s)]
  BY <1>1
<1>3. g = [s \in SUBSET S |-> Adds(v, g, s)]
  BY <1>2 DEF Sums
<1>4. \A s \in SUBSET S : IsFiniteSet(s) /\ Cardinality(s) \in Nat
  BY FS_Subset, FS_CardinalityType
<1> HIDE DEF g
<1>5. 0 \in P
  <2>1. \A s \in SUBSET S : Cardinality(s) = 0 => s = {}
    BY <1>4, FS_EmptySet
  <2> QED
    BY <1>3, <2>1 DEF Adds
<1>6. ASSUME NEW n \in P \cap Nat PROVE n + 1 \in P
  <2>1. n \in Nat /\ n + 1 \in Nat
    OBVIOUS
  <2>2. \A s \in SUBSET S : Cardinality(s) = n => g[s] = h[s]
    OBVIOUS
  <2>3. ASSUME NEW s \in SUBSET S, Cardinality(s) = n + 1 PROVE g[s] = h[s]
    <3>1. s # {}
      <4> SUFFICES ASSUME s = {} PROVE FALSE
        OBVIOUS
      <4>1. Cardinality(s) = 0
        BY FS_EmptySet
      <4> QED
        BY <2>1, <2>3, <4>1
    <3>2. Pick(s) \in s
      BY <3>1 DEF Pick
    <3>3. Cardinality(s \ {Pick(s)}) = n
      <4>1. Cardinality(s \ {Pick(s)}) = Cardinality(s) - 1
        BY <1>4, <3>2, FS_RemoveElement
      <4> QED
        BY <2>1, <2>3, <4>1
    <3>4. g[s \ {Pick(s)}] = h[s \ {Pick(s)}] /\ s \ {Pick(s)} \in SUBSET S
      BY <2>2, <3>3
    <3>5. g[s] = v[Pick(s)] + g[s \ {Pick(s)}]
      BY <1>3, <3>1 DEF Adds
    <3> QED
      BY <3>2, <3>4, <3>5
  <2> QED
    BY <2>1, <2>3
<1>7. Nat \subseteq P
  <2> HIDE DEF P
  <2> QED
    BY <1>5, <1>6, InductionOverNat
<1>8. g[S] = h[S]
  BY <1>4, <1>7
<1> QED
  BY <1>8, FoldIsSums DEF g

\* All ranks add the same.
LEMMA SumOfEquals ==
    ASSUME NEW v, DOMAIN v = Ranks, NEW c \in Nat, \A r \in Ranks : v[r] = c
    PROVE  FoldFunction(LAMBDA a, b : a + b, 0, v) = N * c
<1> DEFINE h == [s \in SUBSET Ranks |-> Cardinality(s) * c]
<1>1. IsFiniteSet(Ranks) /\ Cardinality(Ranks) = N
  BY MpiAssumption, FS_Interval DEF Ranks
<1>2. h = [s \in SUBSET Ranks |-> h[s]] /\ h[{}] = 0
  BY FS_EmptySet
<1>3. ASSUME NEW s \in SUBSET Ranks, NEW x \in s PROVE h[s] = v[x] + h[s \ {x}]
  <2>1. IsFiniteSet(s) /\ Cardinality(s) \in Nat
    BY <1>1, FS_Subset, FS_CardinalityType
  <2>2. Cardinality(s \ {x}) = Cardinality(s) - 1
    BY <2>1, FS_RemoveElement
  <2>3. \A k \in Nat : k * c = c + (k - 1) * c
    OBVIOUS
  <2>4. s \ {x} \in SUBSET Ranks /\ x \in Ranks
    OBVIOUS
  <2>5. h[s] = Cardinality(s) * c /\ h[s \ {x}] = Cardinality(s \ {x}) * c
    BY <2>4
  <2> HIDE DEF h
  <2> QED
    BY <2>1, <2>2, <2>3, <2>4, <2>5
<1>4. h[Ranks] = N * c
  BY <1>1
<1> HIDE DEF h
<1> QED
  BY <1>1, <1>2, <1>3, <1>4, SumIs

\* How many have a one.
LEMMA SumOfOnes ==
    ASSUME NEW v, DOMAIN v = Ranks, NEW T \in SUBSET Ranks,
           \A r \in Ranks : v[r] = IF r \in T THEN 1 ELSE 0
    PROVE  FoldFunction(LAMBDA a, b : a + b, 0, v) = Cardinality(T)
<1> DEFINE h == [s \in SUBSET Ranks |-> Cardinality(s \cap T)]
<1>1. IsFiniteSet(Ranks) /\ IsFiniteSet(T)
  <2>1. IsFiniteSet(Ranks)
    <3>1. 0 \in Int /\ N - 1 \in Int
      BY MpiAssumption
    <3> QED
      BY <3>1, FS_Interval DEF Ranks
  <2> QED
    BY <2>1, FS_Subset
<1>2. h = [s \in SUBSET Ranks |-> h[s]]
  OBVIOUS
<1>3. h[{}] = 0
  <2>1. {} \cap T = {} /\ Cardinality({}) = 0
    BY FS_EmptySet
  <2> QED
    BY <2>1
<1>4. ASSUME NEW s \in SUBSET Ranks, NEW x \in s PROVE h[s] = v[x] + h[s \ {x}]
  <2>1. IsFiniteSet(s \cap T) /\ Cardinality(s \cap T) \in Nat
    BY <1>1, FS_Subset, FS_CardinalityType
  <2>2. Cardinality((s \cap T) \ {x}) = IF x \in s \cap T THEN Cardinality(s \cap T) - 1 ELSE Cardinality(s \cap T)
    BY <2>1, FS_RemoveElement
  <2>3. (s \ {x}) \cap T = (s \cap T) \ {x}
    OBVIOUS
  <2>4. s \ {x} \in SUBSET Ranks /\ x \in Ranks
    OBVIOUS
  <2>5. h[s] = Cardinality(s \cap T) /\ h[s \ {x}] = Cardinality((s \cap T) \ {x})
    BY <2>3, <2>4
  <2> HIDE DEF h
  <2> QED
    BY <2>1, <2>2, <2>4, <2>5
<1>5. h[Ranks] = Cardinality(T)
  <2>1. Ranks \cap T = T
    OBVIOUS
  <2> QED
    BY <2>1
<1> HIDE DEF h
<1> QED
  BY <1>1, <1>2, <1>3, <1>4, <1>5, SumIs
----------------------------------------------------------------------------
(* The ranks that -C leads to.                                             *)

\* Quotient and remainder.
LEMMA DivMod ==
    ASSUME NEW d \in Nat \ {0}, NEW n \in Nat
    PROVE  n \div d \in Nat /\ n % d \in 0..(d - 1) /\ n = d * (n \div d) + (n % d)
OBVIOUS

\* They are the only ones.
LEMMA DivModUnique ==
    ASSUME NEW d \in Nat \ {0}, NEW q \in Int, NEW p \in Int,
           NEW a \in 0..(d - 1), NEW b \in 0..(d - 1), d * q + a = d * p + b
    PROVE  q = p /\ a = b
<1>1. ASSUME q < p PROVE FALSE
  <2>1. d * p >= d * (q + 1)
    BY <1>1
  <2>2. d * (q + 1) = d * q + d
    OBVIOUS
  <2> QED
    BY <2>1, <2>2
<1>2. ASSUME p < q PROVE FALSE
  <2>1. d * q >= d * (p + 1)
    BY <1>2
  <2>2. d * (p + 1) = d * p + d
    OBVIOUS
  <2> QED
    BY <2>1, <2>2
<1> QED
  BY <1>1, <1>2

\* A rotation of the ranks leads to every one of them.
LEMMA RotationReachesAll ==
    ASSUME NEW c \in Nat, NEW p \in Ranks
    PROVE  \E r \in Ranks : (r + c) % N = p
<1> DEFINE k == c \div N
           a == c % N
           r == IF p >= a THEN p - a ELSE p - a + N
           j == IF p >= a THEN k ELSE k + 1
<1>0. N \in Nat \ {0} /\ p \in 0..(N - 1)
  BY MpiAssumption DEF Ranks
<1>1. k \in Nat /\ a \in 0..(N - 1) /\ c = N * k + a
  BY <1>0, DivMod
<1> HIDE DEF k, a
<1>2. r \in 0..(N - 1) /\ j \in Nat
  BY <1>0, <1>1
<1>3. r + c = N * j + p
  <2>1. N * (k + 1) = N * k + N
    BY <1>0, <1>1
  <2> QED
    BY <1>0, <1>1, <2>1
<1> HIDE DEF r, j
<1> DEFINE i == (r + c) \div N
           b == (r + c) % N
<1>4. i \in Nat /\ b \in 0..(N - 1) /\ r + c = N * i + b
  <2>1. r + c \in Nat
    BY <1>2
  <2> QED
    BY <1>0, <2>1, DivMod
<1> HIDE DEF i, b
<1>5. b = p
  <2>1. N * i + b = N * j + p /\ i \in Int /\ j \in Int
    BY <1>2, <1>3, <1>4
  <2>2. \A x, y \in Int : \A u, v \in 0..(N - 1) : N * x + u = N * y + v => u = v
    BY <1>0, DivModUnique
  <2>3. b \in 0..(N - 1) /\ p \in 0..(N - 1)
    BY <1>0, <1>4
  <2> QED
    BY <2>1, <2>2, <2>3
<1> QED
  BY <1>2, <1>5 DEF b, Ranks
=============================================================================
