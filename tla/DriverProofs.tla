---------------------------- MODULE DriverProofs ----------------------------
(***************************************************************************)
(* Proofs about the program around the tests (Driver): whatever script is   *)
(* read, each test gets the parameters written before its RUN, and all       *)
(* ranks find out the same about the nodes.                                  *)
(***************************************************************************)
EXTENDS Driver, MpiProofs

Test == [numTasks : Int, verbose : Int, summary_every_test : Int, dryRun : Int,
         writeFile : BOOLEAN, readFile : BOOLEAN, api : Apis]

Settings == [test : Test, module : [Apis -> Int]]

\* A queue has got a test, and a structure for each backend.
IsQueue(q) ==
    /\ DOMAIN q = {"tests", "backend_options", "structs", "table"}
    /\ q.tests \in Seq(Test) /\ Len(q.tests) > 0
    /\ q.backend_options \in Seq(Nat) /\ Len(q.backend_options) = Len(q.tests)
    /\ q.structs \in [Apis -> Seq(Int)] /\ \A a \in Apis : Len(q.structs[a]) > 0
    /\ q.table \in Nat

\* What the directives write to.
LatestTest(q) == q.tests[Len(q.tests)]
LatestModule(q, a) == q.structs[a][Len(q.structs[a])]

\* The structure and the test are what the script has said so far, and a table of
\* options that is going to be used points to that test.
UpToDate(q, s, ready) ==
    /\ LatestTest(q) = s.test
    /\ \A a \in Apis : LatestModule(q, a) = s.module[a]
    /\ ready => q.table = Len(q.tests)

\* While the script is read, there is a test for each RUN, and one for what
\* follows the last one.
Parsing ==
    /\ IsQueue(queue)
    /\ UpToDate(queue, written, ~runflag)
    /\ Len(wanted) = IF runflag THEN tail ELSE tail - 1
    /\ runflag => wanted[tail] = written
    /\ \A k \in DOMAIN wanted : queue.tests[k] = wanted[k].test

ParserInv ==
    /\ script \in Scripts /\ line \in Nat \ {0}
    /\ runflag \in BOOLEAN
    /\ written \in Settings /\ wanted \in Seq(Settings)
    /\ DOMAIN at = Ranks
    /\ at[0] = "script" => Parsing
    /\ OptionsAsWritten

----------------------------------------------------------------------------
(* The operators on the queue.                                             *)

\* To append a copy of the last element.
LEMMA AppendLast ==
    ASSUME NEW S, NEW s \in Seq(S), Len(s) > 0
    PROVE  /\ Append(s, s[Len(s)]) \in Seq(S)
           /\ Len(Append(s, s[Len(s)])) = Len(s) + 1
           /\ Append(s, s[Len(s)])[Len(s) + 1] = s[Len(s)]
<1>1. s[Len(s)] \in S
  OBVIOUS
<1> QED
  BY <1>1

\* The copy of the options that a test keeps is like the one before it.
LEMMA UpdateModuleOptions ==
    ASSUME NEW q, IsQueue(q)
    PROVE  LET u == airoi_update_module_options(q)
               api == LatestTest(q).api
           IN /\ IsQueue(u)
              /\ u.tests = q.tests /\ u.table = q.table
              /\ \A a \in Apis : LatestModule(u, a) = LatestModule(q, a)
              /\ u.structs[api][u.backend_options[Len(u.tests)]] = LatestModule(q, api)
<1> DEFINE n == Len(q.tests)
           api == q.tests[n].api
           u == airoi_update_module_options(q)
<1>1. n \in Nat \ {0} /\ q.tests[n] \in Test
  BY DEF IsQueue
<1>2. api \in Apis
  BY <1>1 DEF Test
<1>3. /\ DOMAIN u = DOMAIN q
      /\ u.tests = q.tests /\ u.table = q.table
      /\ u.structs = [q.structs EXCEPT ![api] = Append(@, @[Len(@)])]
      /\ u.backend_options = [q.backend_options EXCEPT ![n] = Len(q.structs[api]) + 1]
  BY DEF airoi_update_module_options, IsQueue
<1> HIDE DEF u
<1>4. /\ u.structs \in [Apis -> Seq(Int)]
      /\ Len(u.structs[api]) = Len(q.structs[api]) + 1
      /\ u.structs[api][Len(q.structs[api]) + 1] = LatestModule(q, api)
      /\ \A a \in Apis \ {api} : u.structs[a] = q.structs[a]
  <2> DEFINE s == q.structs[api]
             copy == Append(s, s[Len(s)])
  <2>1. s \in Seq(Int) /\ Len(s) > 0 /\ Len(s) \in Nat
    BY <1>2 DEF IsQueue
  <2>2. /\ copy \in Seq(Int) /\ Len(copy) = Len(s) + 1
        /\ copy[Len(s) + 1] = LatestModule(q, api)
    BY <2>1, AppendLast DEF LatestModule
  <2>3. u.structs = [q.structs EXCEPT ![api] = copy]
    BY <1>3
  <2> HIDE DEF copy
  <2> QED
    BY <1>2, <2>2, <2>3 DEF IsQueue
<1>5. \A a \in Apis : Len(u.structs[a]) > 0 /\ LatestModule(u, a) = LatestModule(q, a)
  <2>1. Len(q.structs[api]) \in Nat
    BY <1>2 DEF IsQueue
  <2>2. Len(u.structs[api]) > 0 /\ LatestModule(u, api) = LatestModule(q, api)
    BY <1>4, <2>1 DEF LatestModule
  <2>3. \A a \in Apis \ {api} :
            Len(u.structs[a]) > 0 /\ LatestModule(u, a) = LatestModule(q, a)
    BY <1>4 DEF IsQueue, LatestModule
  <2> QED
    BY <2>2, <2>3
<1>6. /\ u.backend_options \in Seq(Nat) /\ Len(u.backend_options) = n
      /\ u.backend_options[n] = Len(q.structs[api]) + 1
  BY <1>1, <1>2, <1>3 DEF IsQueue
<1>7. u.structs[api][u.backend_options[n]] = LatestModule(q, api)
  BY <1>4, <1>6
<1>8. IsQueue(u)
  BY <1>3, <1>4, <1>5, <1>6 DEF IsQueue
<1> QED
  BY <1>3, <1>5, <1>7, <1>8 DEF u, LatestTest

\* A new test is like the one before it.
LEMMA NewTest ==
    ASSUME NEW q, IsQueue(q), NEW table \in Nat
    PROVE  LET c == CreateTest(q, table)
           IN /\ IsQueue(c)
              /\ c.tests = Append(q.tests, LatestTest(q)) /\ c.table = table
              /\ \A a \in Apis : LatestModule(c, a) = LatestModule(q, a)
<1> DEFINE n == Len(q.tests)
           u == airoi_update_module_options(q)
           c == CreateTest(q, table)
<1>1. /\ IsQueue(u) /\ u.tests = q.tests
      /\ \A a \in Apis : LatestModule(u, a) = LatestModule(q, a)
  BY UpdateModuleOptions
<1> HIDE DEF u
<1>2. c = [u EXCEPT !.tests = Append(@, @[Len(@)]),
                    !.backend_options = Append(@, 0), !.table = table]
  BY DEF CreateTest, u
<1> HIDE DEF c
<1>3. /\ DOMAIN c = {"tests", "backend_options", "structs", "table"}
      /\ c.tests = Append(u.tests, LatestTest(u))
      /\ c.backend_options = Append(u.backend_options, 0)
      /\ c.structs = u.structs /\ c.table = table
  BY <1>1, <1>2 DEF IsQueue, LatestTest
<1>4. /\ c.tests \in Seq(Test) /\ Len(c.tests) = Len(u.tests) + 1
      /\ c.backend_options \in Seq(Nat) /\ Len(c.backend_options) = Len(u.tests) + 1
  BY <1>1, <1>3, AppendLast DEF IsQueue, LatestTest
<1>5. IsQueue(c) /\ \A a \in Apis : LatestModule(c, a) = LatestModule(u, a)
  BY <1>1, <1>3, <1>4 DEF IsQueue, LatestModule
<1> QED
  BY <1>1, <1>3, <1>5 DEF c, LatestTest

\* What a directive says fits the test.
LEMMA DirectiveFits ==
    ASSUME NEW d \in Directives, NEW t \in Test
    PROVE  IF d.kind = "module" THEN d.value \in Int /\ d.api \in Apis
           ELSE [t EXCEPT ![d.kind] = d.value] \in Test
<1>1. d.kind \in {"numTasks", "verbose", "summary_every_test", "dryRun"} => d.value \in Int
  BY DEF Directives
<1>2. d.kind \in {"writeFile", "readFile"} => d.value \in BOOLEAN
  BY DEF Directives
<1>3. d.kind = "api" => d.value \in Apis
  BY DEF Directives
<1>4. d.kind = "module" => d.value \in Int /\ d.api \in Apis
  BY DEF Directives
<1>5. d.kind \in {"numTasks", "verbose", "summary_every_test", "dryRun", "writeFile",
                 "readFile", "api", "module"}
  BY DEF Directives
<1> QED
  BY <1>1, <1>2, <1>3, <1>4, <1>5 DEF Test

\* What the script says so far, after a directive.
AfterDirective(s, d) ==
    IF d.kind = "module" THEN [s EXCEPT !.module[d.api] = d.value]
    ELSE [s EXCEPT !.test[d.kind] = d.value]

\* A directive changes what it names, in the last test or in the latest structure of
\* its backend, and nothing else.
LEMMA DirectiveWritten ==
    ASSUME NEW q, IsQueue(q), NEW s \in Settings, NEW d \in Directives, UpToDate(q, s, TRUE)
    PROVE  LET r == DecodeDirective(q, d)
           IN /\ IsQueue(r) /\ AfterDirective(s, d) \in Settings
              /\ UpToDate(r, AfterDirective(s, d), TRUE)
              /\ Len(r.tests) = Len(q.tests)
              /\ \A k \in 1..(Len(q.tests) - 1) : r.tests[k] = q.tests[k]
<1> DEFINE r == DecodeDirective(q, d)
           n == Len(q.tests)
           z == AfterDirective(s, d)
<1>1. /\ n \in Nat \ {0} /\ q.tests[n] \in Test /\ q.tests[n] = s.test
      /\ q.table = n
  BY DEF IsQueue, UpToDate, LatestTest
<1>2. CASE d.kind = "module"
  <2> DEFINE m == q.structs[d.api]
  <2>1. d.value \in Int /\ d.api \in Apis
    BY <1>1, <1>2, DirectiveFits
  <2>2. m \in Seq(Int) /\ Len(m) \in Nat \ {0}
    BY <2>1 DEF IsQueue
  <2>3. /\ DOMAIN r = DOMAIN q
        /\ r.tests = q.tests /\ r.backend_options = q.backend_options /\ r.table = q.table
        /\ r.structs = [q.structs EXCEPT ![d.api] = [m EXCEPT ![Len(m)] = d.value]]
    BY <1>2 DEF DecodeDirective, IsQueue
  <2>4. /\ z.test = s.test /\ z.module = [s.module EXCEPT ![d.api] = d.value]
        /\ z \in Settings
    BY <1>2, <2>1 DEF AfterDirective, Settings
  <2> HIDE DEF r, z
  <2>5. LET w == [m EXCEPT ![Len(m)] = d.value]
        IN w \in Seq(Int) /\ Len(w) = Len(m) /\ w[Len(m)] = d.value
    BY <2>1, <2>2
  <2>6. /\ r.structs \in [Apis -> Seq(Int)]
        /\ Len(r.structs[d.api]) = Len(m) /\ r.structs[d.api][Len(m)] = d.value
        /\ \A a \in Apis \ {d.api} : r.structs[a] = q.structs[a]
    BY <2>1, <2>3, <2>5 DEF IsQueue
  <2>7. IsQueue(r)
    BY <2>2, <2>3, <2>6 DEF IsQueue
  <2>8. LatestModule(r, d.api) = z.module[d.api]
    BY <2>1, <2>4, <2>6 DEF LatestModule, Settings
  <2>9. \A a \in Apis \ {d.api} : LatestModule(r, a) = z.module[a]
    BY <2>1, <2>4, <2>6 DEF LatestModule, Settings, UpToDate
  <2> QED
    BY <1>1, <2>3, <2>4, <2>7, <2>8, <2>9 DEF r, z, UpToDate, LatestTest
<1>3. CASE d.kind # "module"
  <2> DEFINE new == [s.test EXCEPT ![d.kind] = d.value]
  <2>1. new \in Test
    BY <1>1, <1>3, DirectiveFits
  <2>2. /\ DOMAIN r = DOMAIN q
        /\ r.backend_options = q.backend_options /\ r.table = q.table
        /\ r.structs = q.structs
        /\ r.tests = [q.tests EXCEPT ![n] = new]
    BY <1>1, <1>3 DEF DecodeDirective, IsQueue, Nobody
  <2>3. /\ z.test = new /\ z.module = s.module
    BY <1>3, <2>1 DEF AfterDirective, Settings
  <2>4. z \in Settings
    BY <1>3, <2>1 DEF AfterDirective, Settings
  <2> HIDE DEF r, z, new
  <2>5. /\ r.tests \in Seq(Test) /\ Len(r.tests) = n /\ r.tests[n] = new
        /\ \A k \in 1..(n - 1) : r.tests[k] = q.tests[k]
    BY <1>1, <2>1, <2>2 DEF IsQueue
  <2>6. IsQueue(r)
    BY <1>1, <2>2, <2>5 DEF IsQueue
  <2> QED
    BY <1>1, <2>2, <2>3, <2>4, <2>5, <2>6 DEF r, z, UpToDate, LatestTest, LatestModule
<1> QED
  BY <1>2, <1>3

----------------------------------------------------------------------------
(* ParserInv is inductive.                                                 *)

\* The first test is like the command line says.
LEMMA ParserInit == Init => ParserInv
<1> SUFFICES ASSUME Init PROVE ParserInv
  OBVIOUS
<1> USE MpiAssumption DEF tail
<1>1. PICK api \in Apis :
          /\ queue = FirstTest(api)
          /\ written = [test |-> init_IOR_Param_t(api), module |-> [a \in Apis |-> 0]]
  BY DEF Init
<1>2. init_IOR_Param_t(api) \in Test
  BY DEF init_IOR_Param_t, Test
<1>3. IsQueue(queue) /\ tail = 1 /\ queue.tests[1] = init_IOR_Param_t(api)
      /\ queue.table = 1 /\ \A a \in Apis : LatestModule(queue, a) = 0
  <2>1. /\ DOMAIN queue = {"tests", "backend_options", "structs", "table"}
        /\ queue.tests = <<init_IOR_Param_t(api)>> /\ queue.backend_options = <<0>>
        /\ queue.structs = [a \in Apis |-> <<0>>] /\ queue.table = 1
    BY <1>1 DEF FirstTest
  <2> QED
    BY <1>2, <2>1 DEF IsQueue, LatestModule
<1>4. written \in Settings /\ UpToDate(queue, written, TRUE)
  BY <1>1, <1>2, <1>3 DEF Settings, UpToDate, LatestTest
<1>5. /\ script \in Scripts /\ line = 1 /\ runflag = FALSE /\ wanted = << >>
      /\ at = [r \in Ranks |-> "script"] /\ 0 \in Ranks
  BY DEF Init, Ranks
<1>6. Parsing
  BY <1>3, <1>4, <1>5 DEF Parsing, UpToDate
<1> QED
  BY <1>4, <1>5, <1>6 DEF ParserInv, OptionsAsWritten, Parsed

\* A line leaves the script and the ranks alone.
LEMMA ReadingStep ==
    ASSUME ParserInv, Reading, Comment \/ Run \/ ParseLine,
           Parsing', (runflag \in BOOLEAN /\ written \in Settings /\ wanted \in Seq(Settings))'
    PROVE  ParserInv'
<1>1. script' = script /\ at' = at /\ at[0] = "script" /\ line' = line + 1
  BY DEF Reading, ranks
<1> QED
  BY <1>1 DEF ParserInv, OptionsAsWritten, Parsed

\* A RUN asks for a test with what has been written so far; after another RUN that
\* is a new one.
LEMMA RunStep == ASSUME ParserInv, Run PROVE ParserInv'
<1> USE DEF tail
<1>1. /\ Reading /\ Parsing /\ at[0] = "script"
      /\ runflag \in BOOLEAN /\ written \in Settings /\ wanted \in Seq(Settings)
  BY DEF Run, Reading, ParserInv
<1>2. /\ wanted' = Append(wanted, written) /\ written' = written /\ runflag' = TRUE
      /\ wanted' \in Seq(Settings)
  BY <1>1 DEF Run
<1>3. CASE runflag
  <2>1. /\ IsQueue(queue)' /\ queue'.tests = Append(queue.tests, LatestTest(queue))
        /\ \A a \in Apis : LatestModule(queue', a) = LatestModule(queue, a)
    BY <1>1, <1>3, NewTest DEF Run, Parsing, Nobody
  <2>2. /\ tail \in Nat \ {0} /\ Len(wanted) = tail /\ Len(wanted') = tail + 1
        /\ tail' = tail + 1 /\ LatestTest(queue)' = LatestTest(queue)
        /\ LatestTest(queue) = written.test
    BY <1>1, <1>2, <1>3, <2>1 DEF Parsing, IsQueue, LatestTest, UpToDate
  <2>3. \A k \in DOMAIN wanted' : queue'.tests[k] = wanted'[k].test
    BY <1>1, <1>2, <2>1, <2>2 DEF Parsing, IsQueue, LatestTest, UpToDate
  <2>4. wanted'[tail'] = written'
    BY <1>1, <1>2, <2>2
  <2>5. UpToDate(queue, written, ~runflag)'
    BY <1>1, <1>2, <2>1, <2>2 DEF Parsing, UpToDate
  <2>6. Parsing'
    BY <1>2, <2>1, <2>2, <2>3, <2>4, <2>5 DEF Parsing
  <2> QED
    BY <1>1, <1>2, <2>6, ReadingStep
<1>4. CASE ~runflag
  <2>1. queue' = queue
    BY <1>4 DEF Run
  <2>2. /\ tail \in Nat \ {0} /\ Len(wanted) = tail - 1 /\ Len(wanted') = tail
        /\ queue.tests[tail] = written.test
    BY <1>1, <1>2, <1>4 DEF Parsing, IsQueue, LatestTest, UpToDate
  <2>3. \A k \in DOMAIN wanted' : queue'.tests[k] = wanted'[k].test
    BY <1>1, <1>2, <2>1, <2>2 DEF Parsing
  <2>4. wanted'[tail'] = written'
    BY <1>1, <1>2, <2>1, <2>2
  <2>5. UpToDate(queue, written, ~runflag)'
    BY <1>1, <1>2, <2>1 DEF Parsing, UpToDate
  <2>6. Parsing'
    BY <1>1, <1>2, <2>1, <2>2, <2>3, <2>4, <2>5 DEF Parsing
  <2> QED
    BY <1>1, <1>2, <2>6, ReadingStep
<1> QED
  BY <1>3, <1>4

\* A directive is written to the last test, which is a new one after a RUN.
LEMMA ParseLineStep == ASSUME ParserInv, ParseLine PROVE ParserInv'
<1> USE DEF tail
<1> DEFINE d == script[line]
           q == IF runflag THEN NextTest(queue) ELSE queue
<1>1. /\ Reading /\ Parsing /\ at[0] = "script"
      /\ runflag \in BOOLEAN /\ written \in Settings /\ wanted \in Seq(Settings)
  BY DEF ParseLine, Reading, ParserInv
<1>2. d \in Directives
  <2>1. script \in Scripts /\ line \in DOMAIN script /\ d.kind \notin {"run", "comment", "stop"}
    BY DEF ParseLine, Reading, NextLine, ParserInv
  <2>2. d \in Directives \cup [kind : {"run", "stop", "comment"}]
    BY <2>1, DriverAssumption
  <2> QED
    BY <2>1, <2>2
<1>3. /\ IsQueue(q) /\ UpToDate(q, written, TRUE)
      /\ Len(wanted) = Len(q.tests) - 1
      /\ \A k \in DOMAIN wanted : q.tests[k] = wanted[k].test
  <2>1. CASE ~runflag
    BY <1>1, <2>1 DEF Parsing, UpToDate
  <2>2. CASE runflag
    <3>1. tail + 1 \in Nat /\ q = CreateTest(queue, tail + 1) /\ IsQueue(queue)
      BY <1>1, <2>2 DEF NextTest, Parsing, IsQueue
    <3> HIDE DEF q
    <3>2. /\ IsQueue(q) /\ q.tests = Append(queue.tests, LatestTest(queue))
          /\ q.table = tail + 1
          /\ \A a \in Apis : LatestModule(q, a) = LatestModule(queue, a)
      BY <3>1, NewTest
    <3>3. Len(q.tests) = tail + 1 /\ LatestTest(q) = LatestTest(queue) /\ tail \in Nat \ {0}
      BY <3>1, <3>2 DEF IsQueue, LatestTest
    <3>4. UpToDate(q, written, TRUE)
      BY <1>1, <3>2, <3>3 DEF UpToDate, Parsing
    <3>5. queue.tests \in Seq(Test) /\ LatestTest(queue) \in Test
      BY <3>1, <3>3 DEF IsQueue, LatestTest
    <3>6. \A k \in 1..tail : q.tests[k] = queue.tests[k]
      BY <3>2, <3>5
    <3>7. Len(wanted) = tail /\ DOMAIN wanted = 1..tail
      BY <1>1, <2>2 DEF Parsing
    <3>8. \A k \in DOMAIN wanted : q.tests[k] = wanted[k].test
      BY <1>1, <3>6, <3>7 DEF Parsing
    <3>9. Len(wanted) = Len(q.tests) - 1
      BY <3>3, <3>7
    <3> QED
      BY <3>2, <3>4, <3>8, <3>9
  <2> QED
    BY <1>1, <2>1, <2>2
<1>4. /\ queue' = DecodeDirective(q, d) /\ runflag' = FALSE
      /\ written' = AfterDirective(written, d) /\ wanted' = wanted
  BY DEF ParseLine, AfterDirective
<1> HIDE DEF q
<1>5. /\ IsQueue(queue)' /\ written' \in Settings /\ UpToDate(queue', written', TRUE)
      /\ tail' = Len(q.tests)
      /\ \A k \in 1..(Len(q.tests) - 1) : queue'.tests[k] = q.tests[k]
  BY <1>1, <1>2, <1>3, <1>4, DirectiveWritten
<1>6. Parsing'
  BY <1>1, <1>3, <1>4, <1>5 DEF Parsing, UpToDate
<1> QED
  BY <1>1, <1>4, <1>5, <1>6, ReadingStep

\* At the end of the script each test has what has been asked for, and the last one
\* keeps the latest structure of its backend.
LEMMA ScriptIsWritten ==
    ASSUME ParserInv, ReadConfigScript PROVE ParserInv' /\ tail' \in Nat \ {0}
<1> USE DEF tail
<1> DEFINE u == airoi_update_module_options(queue)
           n == Len(queue.tests)
           api == LatestTest(queue).api
<1>1. /\ Parsing /\ IsQueue(queue) /\ UNCHANGED <<script, line, runflag, written>>
      /\ runflag \in BOOLEAN /\ written \in Settings /\ wanted \in Seq(Settings)
  BY DEF ReadConfigScript, ParserInv, Parsing
<1>2. /\ IsQueue(u) /\ u.tests = queue.tests
      /\ u.structs[api][u.backend_options[n]] = LatestModule(queue, api)
  BY <1>1, UpdateModuleOptions
<1> HIDE DEF u
<1>3. /\ queue'.tests = [k \in 1..n |-> CheckRunSettings(queue.tests[k])]
      /\ queue'.structs = u.structs /\ queue'.backend_options = u.backend_options
  <2>1. queue' = [u EXCEPT !.tests = [k \in DOMAIN @ |-> CheckRunSettings(@[k])]]
    BY DEF ReadConfigScript, u
  <2>2. DOMAIN queue.tests = 1..n
    BY <1>1 DEF IsQueue
  <2> QED
    BY <1>2, <2>1, <2>2 DEF IsQueue
<1>4. n \in Nat \ {0} /\ LatestTest(queue) \in Test /\ api \in Apis
  <2>1. n \in Nat \ {0} /\ LatestTest(queue) \in Test
    BY <1>1 DEF IsQueue, LatestTest
  <2> QED
    BY <2>1 DEF Test
<1>5. /\ wanted' \in Seq(Settings) /\ Len(wanted') = n /\ wanted'[n] = written
      /\ \A k \in 1..n : queue.tests[k] = wanted'[k].test
  <2>1. CASE runflag
    BY <1>1, <2>1 DEF ReadConfigScript, Parsing
  <2>2. CASE ~runflag
    <3>1. wanted' = Append(wanted, written) /\ Len(wanted) = n - 1
      BY <1>1, <2>2 DEF ReadConfigScript, Parsing
    <3>2. /\ wanted' \in Seq(Settings) /\ Len(wanted') = n /\ wanted'[n] = written
          /\ \A k \in 1..(n - 1) : wanted'[k] = wanted[k]
      BY <1>1, <1>4, <3>1
    <3>3. \A k \in 1..(n - 1) : queue.tests[k] = wanted'[k].test
      BY <1>1, <3>1, <3>2 DEF Parsing
    <3>4. queue.tests[n] = wanted'[n].test
      BY <1>1, <3>2 DEF Parsing, UpToDate, LatestTest
    <3> QED
      BY <1>4, <3>2, <3>3, <3>4
  <2> QED
    BY <1>1, <2>1, <2>2
<1>6. queue'.tests = [k \in DOMAIN wanted' |-> CheckRunSettings(wanted'[k].test)]
  BY <1>3, <1>5
<1>7. tail' = n /\ queue'.tests[n].api = api
  <2>1. queue'.tests[n] = CheckRunSettings(LatestTest(queue)) /\ tail' = n
    BY <1>3, <1>4, <1>5, <1>6 DEF LatestTest
  <2> QED
    BY <1>4, <2>1 DEF CheckRunSettings, Test
<1>8. LatestModule(queue, api) = wanted'[n].module[api]
  BY <1>1, <1>4, <1>5 DEF Parsing, UpToDate
<1>9. OptionsAsWritten'
  BY <1>2, <1>3, <1>6, <1>7, <1>8 DEF OptionsAsWritten
<1>10. at' = [r \in Ranks |-> "nodes"] /\ 0 \in Ranks
  BY MpiAssumption DEF ReadConfigScript, Ranks
<1> QED
  BY <1>1, <1>4, <1>5, <1>7, <1>9, <1>10 DEF ParserInv

\* The tests run after the script has been read, and nobody reads on.
LEMMA RanksStep ==
    ASSUME ParserInv, (\E r \in Ranks : RankNext(r)) \/ UNCHANGED vars
    PROVE  ParserInv'
<1>1. CASE UNCHANGED vars
  BY <1>1 DEF vars, parser, ranks, ParserInv, Parsing, OptionsAsWritten, Parsed, tail, UpToDate,
     LatestTest, LatestModule, IsQueue
<1>2. ASSUME NEW r \in Ranks, RankNext(r) PROVE ParserInv'
  <2>1. UNCHANGED parser
    BY <1>2 DEF RankNext, Collective, GetNumNodes, GetNumTasksOnNode0, QueryNodeMapping, Header,
       test_initialize, TestIoSys, test_finalize, Finish
  <2>2. at' = at \/ (/\ at[r] # "script" /\ at'[r] # "script"
                    /\ at' = [at EXCEPT ![r] = at'[r]])
    <3>0. ASSUME NEW place, place # "script", Go(r, place)
          PROVE  at'[r] # "script" /\ at' = [at EXCEPT ![r] = at'[r]]
      BY <3>0, <1>2 DEF Go, ParserInv
    <3>1. CASE Collective(r)
      BY <3>1 DEF Collective
    <3>2. CASE GetNumNodes(r) \/ GetNumTasksOnNode0(r)
      BY <3>0, <3>2 DEF GetNumNodes, GetNumTasksOnNode0, At, GoAfter, GoSending
    <3>3. CASE QueryNodeMapping(r)
      BY <3>0, <3>3 DEF QueryNodeMapping, At, GoAfter, GoSending
    <3>4. CASE Header(r) \/ test_initialize(r)
      BY <3>0, <3>4 DEF Header, test_initialize, At, GoAfter, NextOf
    <3>5. CASE TestIoSys(r) \/ test_finalize(r) \/ Finish(r)
      BY <3>0, <3>5 DEF TestIoSys, test_finalize, Finish, At, GoAfter, NextOf
    <3> QED
      BY <1>2, <3>1, <3>2, <3>3, <3>4, <3>5 DEF RankNext
  <2>3. DOMAIN at' = Ranks /\ (at'[0] = "script" <=> at[0] = "script")
    BY <2>2, MpiAssumption DEF ParserInv, Ranks
  <2> QED
    BY <2>1, <2>3 DEF parser, ParserInv, Parsing, OptionsAsWritten, Parsed, tail, UpToDate,
       LatestTest, LatestModule, IsQueue
<1> QED
  BY <1>1, <1>2

\* Whoever makes the step.
LEMMA ParserStep == ParserInv /\ [Next]_vars => ParserInv'
<1>1. ASSUME ParserInv, Comment PROVE ParserInv'
  <2>1. Reading /\ UNCHANGED <<queue, runflag, written, wanted>>
    BY <1>1 DEF Comment
  <2>2. Parsing'
    BY <1>1, <2>1 DEF Reading, ParserInv, Parsing, tail, UpToDate, LatestTest, LatestModule,
       IsQueue
  <2> QED
    BY <1>1, <2>1, <2>2, ReadingStep DEF ParserInv
<1> QED
  BY <1>1, RunStep, ParseLineStep, ScriptIsWritten, RanksStep DEF Next, ParserNext, Terminating

----------------------------------------------------------------------------
\* Whatever script is read, each test has the parameters written before its RUN, and
\* the last one the options of its backend.
THEOREM OptionsAreAsWritten == Spec => []OptionsAsWritten
<1>1. ParserInv => OptionsAsWritten
  BY DEF ParserInv
<1> QED
  BY <1>1, ParserInit, ParserStep, PTL DEF Spec

----------------------------------------------------------------------------
(* The nodes.                                                              *)

\* Where a rank finds out about them, and where it knows.
Early == {"nodes", "count_nodes", "nodes_counted", "count_tasks", "tasks_counted"}
Mapping == {"root_host", "same_as_root", "node_map", "mapped"}
Later == {"header", "participate", "TestIoSys", "finalize", "summary", "done"}

\* The calls that a rank has made or has ahead there; each test has three.
Due(place, k) ==
    CASE place = "count_nodes" -> 1
      [] place = "nodes_counted" -> 2
      [] place = "count_tasks" -> 3
      [] place = "tasks_counted" -> 4
      [] place = "root_host" -> 2 + 3 * k
      [] place = "same_as_root" -> 3 + 3 * k
      [] place = "node_map" -> 4 + 3 * k
      [] place = "mapped" -> 5 + 3 * k
      [] OTHER -> 0

\* Each node counts by its first rank.  Is rank 1 where rank 0 is?
First(r) == IF r = Min(Node(r)) THEN 1 ELSE 0
Near == N > 1 => 1 \in Node(0)

\* A call of which somebody needs the result passes what it should.
Fits(r, i, call) ==
    /\ i = 2 => call = [op |-> "Allreduce", value |-> First(r)]
    /\ i = 4 => call = [op |-> "Allreduce", value |-> Node0(r)]
    /\ \A k \in 1..tail :
          /\ i = 4 + 3 * k => call = [op |-> "Gather", value |-> host[r] = host[0]]
          /\ i = 5 + 3 * k => call.op = "Bcast" /\ (r = 0 => call.value = Near)

\* Where a rank may be inside a call whose result nobody needs.
MayWait(r) ==
    \/ at[r] \in {"count_nodes", "count_tasks", "same_as_root"}
    \/ at[r] = "root_host" /\ current[r] = 1

PlaceInv(r) ==
    /\ at[r] \in {"script"} \cup Early \cup Mapping \cup Later
    /\ at[r] = "script" <=> at[0] = "script"
    /\ at[r] \in {"script"} \cup Early => current[r] = 1
    /\ at[r] \in Mapping => current[r] \in 1..tail
    /\ at[r] \in Later => Count(r) >= 5 + 3 * tail
    /\ at[r] \notin Later =>
          /\ Count(r) + Len(ahead[r]) = Due(at[r], current[r])
          /\ Len(ahead[r]) <= IF MayWait(r) THEN 1 ELSE 0

Knows(r) ==
    /\ at[r] \in {"count_tasks", "tasks_counted"} \cup Mapping \cup Later =>
          numNodes[r] = Cardinality(Range(host))
    /\ at[r] \in Mapping \cup Later => numTasksOnNode0[r] = Cardinality(Node(0))
    /\ at[r] \in Later => tasksBlockMapping[r] = Near

CallsFit(r) == \A i \in 1..Count(r) : Fits(r, i, calls[r][i])

Values == Int \cup BOOLEAN

NodesType ==
    /\ host \in [Ranks -> Nat]
    /\ at = [r \in Ranks |-> at[r]]
    /\ ahead \in [Ranks -> Seq(Collectives)]
    /\ calls \in CallsIn(Values)
    /\ current = [r \in Ranks |-> current[r]]
    /\ numNodes = [r \in Ranks |-> numNodes[r]]
    /\ numTasksOnNode0 = [r \in Ranks |-> numTasksOnNode0[r]]
    /\ tasksBlockMapping = [r \in Ranks |-> tasksBlockMapping[r]]
    /\ Parsed => tail \in Nat \ {0}

NodesInv == NodesType /\ \A r \in Ranks : PlaceInv(r) /\ Knows(r) /\ CallsFit(r)

----------------------------------------------------------------------------
(* What the ranks add up.                                                  *)

LEMMA RanksAreFinite == IsFiniteSet(Ranks) /\ 0 \in Ranks /\ Ranks \subseteq Nat
<1>1. 0 \in Int /\ N - 1 \in Int
  BY MpiAssumption
<1>2. IsFiniteSet(Ranks)
  BY <1>1, FS_Interval DEF Ranks
<1> QED
  BY <1>2, MpiAssumption DEF Ranks

\* The first rank of a node is on it.
LEMMA FirstOfNode ==
    ASSUME NEW r \in Ranks
    PROVE  Min(Node(r)) \in Node(r)
<1>1. Node(r) \in SUBSET Nat /\ r \in Node(r)
  BY RanksAreFinite DEF Node
<1>2. \E x \in Node(r) : \A y \in Node(r) : x <= y
  BY <1>1, LeastNumber
<1> QED
  BY <1>2 DEF Min

\* There are as many nodes as first ranks.
LEMMA NodesHaveFirsts ==
    ASSUME host \in [Ranks -> Nat]
    PROVE  Cardinality({r \in Ranks : r = Min(Node(r))}) = Cardinality(Range(host))
<1> DEFINE S == {r \in Ranks : r = Min(Node(r))}
           f == [r \in S |-> host[r]]
<1>1. f \in [S -> Range(host)]
  BY DEF Range
<1>2. ASSUME NEW a \in S, NEW b \in S, f[a] = f[b] PROVE a = b
  <2>1. Node(a) = Node(b)
    BY <1>2 DEF Node
  <2> QED
    BY <2>1
<1>3. ASSUME NEW h \in Range(host) PROVE \E r \in S : f[r] = h
  <2>1. PICK s \in Ranks : host[s] = h
    BY DEF Range
  <2> DEFINE r == Min(Node(s))
  <2>2. r \in Ranks /\ host[r] = host[s]
    BY FirstOfNode DEF Node
  <2>3. Node(r) = Node(s)
    BY <2>2 DEF Node
  <2> QED
    BY <2>1, <2>2, <2>3
<1> HIDE DEF f
<1>4. f \in Bijection(S, Range(host))
  BY <1>1, <1>2, <1>3 DEF Bijection, Injection, Surjection, IsInjective
<1>5. IsFiniteSet(S)
  BY RanksAreFinite, FS_Subset
<1> HIDE DEF S
<1> QED
  BY <1>4, <1>5, FS_Bijection DEF ExistsBijection, S

\* What everybody gets when each has counted for its node.
LEMMA SumOfFirsts ==
    ASSUME host \in [Ranks -> Nat], NEW r \in Ranks,
           \A s \in Ranks : Sent(s, r) = First(s)
    PROVE  Sum(r) = Cardinality(Range(host))
<1> DEFINE v == [s \in Ranks |-> Sent(s, r)]
           T == {s \in Ranks : s = Min(Node(s))}
<1>1. DOMAIN v = Ranks /\ T \in SUBSET Ranks /\ \A s \in Ranks : v[s] = IF s \in T THEN 1 ELSE 0
  BY DEF First
<1> HIDE DEF v, T
<1>2. FoldFunction(LAMBDA a, b : a + b, 0, v) = Cardinality(T)
  BY <1>1, SumOfOnes
<1> QED
  BY <1>2, NodesHaveFirsts DEF Sum, v, T

\* The sum when only rank 0 has something to add.
LEMMA SumOfOne ==
    ASSUME NEW v, DOMAIN v = Ranks, NEW c \in Nat, v[0] = c, \A r \in Ranks \ {0} : v[r] = 0
    PROVE  FoldFunction(LAMBDA a, b : a + b, 0, v) = c
<1> DEFINE h == [s \in SUBSET Ranks |-> IF 0 \in s THEN c ELSE 0]
<1>1. h = [s \in SUBSET Ranks |-> h[s]] /\ h[{}] = 0
  OBVIOUS
<1>2. ASSUME NEW s \in SUBSET Ranks, NEW x \in s PROVE h[s] = v[x] + h[s \ {x}]
  <2>1. CASE x = 0
    <3>1. v[x] = c /\ h[s] = c /\ h[s \ {x}] = 0
      BY <2>1
    <3> QED
      BY <3>1
  <2>2. CASE x # 0
    <3>1. v[x] = 0 /\ h[s] = h[s \ {x}] /\ h[s] \in Nat
      BY <2>2
    <3> QED
      BY <3>1
  <2> QED
    BY <2>1, <2>2
<1>3. h[Ranks] = c
  BY RanksAreFinite
<1> HIDE DEF h
<1> QED
  BY <1>1, <1>2, <1>3, RanksAreFinite, SumIs

LEMMA Node0IsNat == \A r \in Ranks : Node0(r) \in Nat
<1>1. IsFiniteSet(Node(0))
  BY RanksAreFinite, FS_Subset DEF Node
<1> QED
  BY <1>1, FS_CardinalityType DEF Node0

LEMMA SumOfNode0 ==
    ASSUME NEW r \in Ranks, \A s \in Ranks : Sent(s, r) = Node0(s)
    PROVE  Sum(r) = Cardinality(Node(0))
<1> DEFINE v == [s \in Ranks |-> Sent(s, r)]
           c == Cardinality(Node(0))
<1>1. c \in Nat
  BY Node0IsNat, RanksAreFinite DEF Node0
<1>2. DOMAIN v = Ranks /\ v[0] = c /\ \A s \in Ranks \ {0} : v[s] = 0
  BY RanksAreFinite DEF Node0
<1> HIDE DEF v, c
<1>3. FoldFunction(LAMBDA a, b : a + b, 0, v) = c
  BY <1>1, <1>2, SumOfOne
<1> QED
  BY <1>3 DEF Sum, v, c

----------------------------------------------------------------------------
(* Steps of a rank.                                                        *)

\* Only rank r may have moved, and nothing is different for the others.
Rest(r) ==
    /\ UNCHANGED <<queue, host>>
    /\ NodesType'
    /\ at'[r] # "script"
    /\ \A s \in Ranks \ {r} :
          /\ at'[s] = at[s] /\ ahead'[s] = ahead[s] /\ calls'[s] = calls[s]
          /\ current'[s] = current[s] /\ numNodes'[s] = numNodes[s]
          /\ numTasksOnNode0'[s] = numTasksOnNode0[s]
          /\ tasksBlockMapping'[s] = tasksBlockMapping[s]

\* What is right about a call stays right.
LEMMA FitsStays ==
    ASSUME UNCHANGED <<queue, host>>, NEW r \in Ranks, NEW i, NEW c
    PROVE  Fits(r, i, c)' <=> Fits(r, i, c)
BY DEF Fits, First, Near, Node0, Node, tail

LEMMA OthersStay ==
    ASSUME NodesInv, NEW r \in Ranks, Rest(r), at[r] # "script",
           (PlaceInv(r) /\ Knows(r) /\ CallsFit(r))'
    PROVE  NodesInv'
<1> SUFFICES ASSUME NEW s \in Ranks \ {r} PROVE (PlaceInv(s) /\ Knows(s) /\ CallsFit(s))'
  BY DEF NodesInv, Rest
<1>1. PlaceInv(s) /\ Knows(s) /\ CallsFit(s) /\ Count(s)' = Count(s)
  BY DEF NodesInv, Rest, Count
<1>2. at'[0] # "script" /\ at[0] # "script" /\ at[s] # "script"
  <2>1. PlaceInv(r) /\ PlaceInv(s) /\ PlaceInv(0)
    BY RanksAreFinite DEF NodesInv
  <2>2. at[0] # "script" /\ at[s] # "script"
    BY <2>1 DEF PlaceInv
  <2> QED
    BY <2>2, RanksAreFinite DEF Rest
<1>3. PlaceInv(s)'
  BY <1>1, <1>2 DEF PlaceInv, MayWait, Rest, tail
<1>4. Knows(s)'
  BY <1>1 DEF Knows, Rest, Node, Near
<1>5. CallsFit(s)'
  <2>1. calls'[s] = calls[s]
    BY DEF Rest
  <2> QED
    BY <1>1, <2>1, FitsStays DEF CallsFit, Rest
<1> QED
  BY <1>3, <1>4, <1>5

\* A rank goes on without a call, and the calls it has made are those from before.
LEMMA GoAfterStep ==
    ASSUME NodesInv, NEW r \in Ranks, NEW place, NEW ops \in Seq(Collectives),
           GoAfter(r, ops, place)
    PROVE  /\ at' = [s \in Ranks |-> at'[s]] /\ at'[r] = place
           /\ ahead' \in [Ranks -> Seq(Collectives)] /\ ahead'[r] = ops
           /\ \A s \in Ranks \ {r} : at'[s] = at[s] /\ ahead'[s] = ahead[s]
           /\ calls' = calls /\ Count(r)' = Count(r)
           /\ (UNCHANGED <<queue, host>> => CallsFit(r)')
<1>1. CallsFit(r) /\ calls' = calls /\ Count(r)' = Count(r)
  BY DEF GoAfter, NodesInv, Count
<1>2. UNCHANGED <<queue, host>> => CallsFit(r)'
  BY <1>1, FitsStays DEF CallsFit
<1>3. at = [s \in Ranks |-> at[s]] /\ ahead \in [Ranks -> Seq(Collectives)]
  BY DEF NodesInv, NodesType
<1>4. at' = [at EXCEPT ![r] = place] /\ ahead' = [ahead EXCEPT ![r] = ops]
  BY DEF GoAfter, Go
<1> QED
  BY <1>1, <1>2, <1>3, <1>4

\* A rank calls, and what it passes fits.
LEMMA CallFits ==
    ASSUME NodesInv, NEW r \in Ranks, NEW op \in Collectives, NEW value \in Values,
           Send(r, op, value), UNCHANGED <<queue, host>>,
           Fits(r, Count(r) + 1, [op |-> op, value |-> value])
    PROVE  /\ calls' \in CallsIn(Values) /\ Count(r)' = Count(r) + 1
           /\ \A s \in Ranks \ {r} : calls'[s] = calls[s]
           /\ CallsFit(r)'
<1>1. /\ calls' \in CallsIn(Values) /\ Count(r)' = Count(r) + 1
      /\ calls'[r][Count(r) + 1] = [op |-> op, value |-> value]
      /\ \A k \in 1..Count(r) : calls'[r][k] = calls[r][k]
      /\ \A s \in Ranks \ {r} : calls'[s] = calls[s]
  BY SendStep DEF NodesInv, NodesType
<1>2. Count(r) \in Nat
  BY CountIsNat DEF NodesInv, NodesType
<1>3. ASSUME NEW i \in 1..(Count(r) + 1) PROVE Fits(r, i, calls'[r][i])
  <2>1. CASE i = Count(r) + 1
    BY <1>1, <2>1
  <2>2. CASE i # Count(r) + 1
    <3>1. i \in 1..Count(r)
      BY <1>2, <2>2
    <3> QED
      BY <1>1, <3>1 DEF NodesInv, CallsFit
  <2> QED
    BY <2>1, <2>2
<1>4. CallsFit(r)'
  BY <1>1, <1>3, FitsStays DEF CallsFit
<1> QED
  BY <1>1, <1>4

LEMMA GoSendingStep ==
    ASSUME NodesInv, NEW r \in Ranks, NEW place, NEW op \in Collectives, NEW value \in Values,
           GoSending(r, op, value, place), UNCHANGED <<queue, host>>,
           Fits(r, Count(r) + 1, [op |-> op, value |-> value])
    PROVE  /\ at' = [s \in Ranks |-> at'[s]] /\ at'[r] = place
           /\ \A s \in Ranks \ {r} : at'[s] = at[s] /\ calls'[s] = calls[s]
           /\ ahead' = ahead
           /\ calls' \in CallsIn(Values) /\ Count(r)' = Count(r) + 1
           /\ CallsFit(r)'
<1>1. at' = [at EXCEPT ![r] = place] /\ ahead' = ahead /\ Send(r, op, value)
  BY DEF GoSending, Go
<1>2. at = [s \in Ranks |-> at[s]]
  BY DEF NodesInv, NodesType
<1> QED
  BY <1>1, <1>2, CallFits

\* The numbers of the calls that need no value.
LEMMA OtherCallsFit ==
    ASSUME NodesInv, Parsed, NEW r \in Ranks, NEW i \in Nat, NEW c,
           i \in {1, 3, 5} \/ (\E k \in 1..tail : i = 3 + 3 * k) \/ i > 5 + 3 * tail
    PROVE  Fits(r, i, c)
<1>1. tail \in Nat \ {0}
  BY DEF NodesInv, NodesType
<1>2. i # 2 /\ i # 4
  BY <1>1
<1>3. ASSUME NEW k \in 1..tail PROVE i # 4 + 3 * k /\ i # 5 + 3 * k
  BY <1>1
<1> QED
  BY <1>2, <1>3 DEF Fits

\* A rank makes a call that it has ahead: of a communicator, a Bcast of a name, or
\* one after the header.
LEMMA CollectiveStep ==
    ASSUME NodesInv, NEW r \in Ranks, Collective(r)
    PROVE  NodesInv'
<1> DEFINE op == Head(ahead[r])
<1>1. /\ NodesType /\ PlaceInv(r) /\ Knows(r) /\ CallsFit(r)
      /\ ahead[r] # << >> /\ Call(r, op) /\ ahead' = [ahead EXCEPT ![r] = Tail(@)]
      /\ UNCHANGED <<queue, host, at, current, found>>
  BY DEF NodesInv, Collective, parser
<1>2. ahead[r] \in Seq(Collectives)
  BY <1>1 DEF NodesType
<1>3. op \in Collectives /\ Len(Tail(ahead[r])) = Len(ahead[r]) - 1 /\ Len(ahead[r]) \in Nat \ {0}
      /\ Tail(ahead[r]) \in Seq(Collectives)
  BY <1>1, <1>2
<1> HIDE DEF op
<1>4. Count(r) \in Nat
  BY <1>1, CountIsNat DEF NodesType
<1>5. at[r] \notin Later => MayWait(r) /\ Len(ahead[r]) = 1
  <2>1. at[r] \notin Later => Len(ahead[r]) <= IF MayWait(r) THEN 1 ELSE 0
    BY <1>1 DEF PlaceInv
  <2>2. Len(ahead[r]) \in Nat /\ Len(ahead[r]) # 0
    BY <1>3
  <2>3. ASSUME at[r] \notin Later PROVE MayWait(r)
    BY <2>1, <2>2, <2>3
  <2>4. ASSUME at[r] \notin Later PROVE Len(ahead[r]) = 1
    <3> DEFINE n == Len(ahead[r])
    <3>1. n <= IF MayWait(r) THEN 1 ELSE 0
      BY <2>1, <2>4
    <3>2. n <= 1
      <4> HIDE DEF n
      <4> QED
        BY <2>3, <2>4, <3>1
    <3>3. n \in Nat /\ n # 0
      BY <2>2
    <3> HIDE DEF n
    <3>4. n = 1
      BY <3>2, <3>3
    <3> QED
      BY <3>4 DEF n
  <2> QED
    BY <2>3, <2>4
<1>6. at[r] # "script" /\ at[0] # "script"
  BY <1>1, <1>5 DEF PlaceInv, MayWait, Later
<1>7. tail \in Nat \ {0}
  BY <1>1, <1>6 DEF NodesType, Parsed
<1>8. \/ Count(r) + 1 \in {1, 3, 5}
      \/ \E k \in 1..tail : Count(r) + 1 = 3 + 3 * k
      \/ Count(r) + 1 > 5 + 3 * tail
  <2>1. CASE at[r] \in Later
    BY <1>1, <1>4, <1>7, <2>1 DEF PlaceInv
  <2>2. CASE at[r] \notin Later
    <3>1. Count(r) + 1 = Due(at[r], current[r]) /\ MayWait(r)
      BY <1>1, <1>5, <2>2 DEF PlaceInv
    <3>2. CASE at[r] \in {"count_nodes", "count_tasks"}
      BY <3>1, <3>2 DEF Due
    <3>3. CASE at[r] = "root_host"
      BY <3>1, <3>3 DEF Due, MayWait
    <3>4. CASE at[r] = "same_as_root"
      BY <1>1, <3>1, <3>4 DEF PlaceInv, Due, Mapping
    <3> QED
      BY <3>1, <3>2, <3>3, <3>4 DEF MayWait
  <2> QED
    BY <2>1, <2>2
<1>9. Fits(r, Count(r) + 1, [op |-> op, value |-> 0])
  BY <1>4, <1>6, <1>8, OtherCallsFit DEF Parsed
<1>10. /\ calls' \in CallsIn(Values) /\ Count(r)' = Count(r) + 1
       /\ \A s \in Ranks \ {r} : calls'[s] = calls[s]
       /\ CallsFit(r)'
  BY <1>1, <1>3, <1>9, CallFits DEF Call, Values
<1>11. /\ ahead' \in [Ranks -> Seq(Collectives)] /\ Len(ahead'[r]) = Len(ahead[r]) - 1
       /\ \A s \in Ranks \ {r} : ahead'[s] = ahead[s]
  BY <1>1, <1>3 DEF NodesType
<1>12. Rest(r)
  BY <1>1, <1>6, <1>10, <1>11 DEF Rest, NodesType, found, tail, Parsed
<1>13. PlaceInv(r)'
  BY <1>1, <1>3, <1>4, <1>7, <1>10, <1>11 DEF PlaceInv, MayWait, tail
<1>14. Knows(r)'
  BY <1>1 DEF Knows, Node, Near, found
<1> QED
  BY <1>6, <1>10, <1>12, <1>13, <1>14, OthersStay

----------------------------------------------------------------------------
(* The nodes are counted.                                                  *)

\* Where a rank has made all its calls it has made those that are due.
LEMMA CallsDue ==
    ASSUME NodesInv, NEW r \in Ranks, NEW place \in Early \cup Mapping, At(r, place)
    PROVE  /\ at[r] = place /\ at[0] # "script" /\ tail \in Nat \ {0}
           /\ ahead[r] = << >> /\ Len(ahead[r]) = 0 /\ Ready(r)
           /\ Count(r) = Due(place, current[r]) /\ Count(r) \in Nat
           /\ PlaceInv(r) /\ Knows(r) /\ CallsFit(r)
           /\ current[r] \in 1..tail /\ (place \in Early => current[r] = 1)
<1>1. at[r] = place /\ ahead[r] = << >> /\ Ready(r) /\ PlaceInv(r) /\ Knows(r) /\ CallsFit(r)
  BY DEF At, NodesInv
<1>2. Count(r) \in Nat /\ Len(ahead[r]) = 0
  BY <1>1, CountIsNat DEF NodesInv, NodesType
<1>3. at[r] # "script" /\ at[r] \notin Later
  BY <1>1 DEF Early, Mapping, Later
<1>4. at[0] # "script" /\ tail \in Nat \ {0}
  BY <1>1, <1>3 DEF NodesInv, NodesType, PlaceInv, Parsed
<1>5. Count(r) = Due(place, current[r])
  BY <1>1, <1>2, <1>3 DEF PlaceInv
<1>6. current[r] \in 1..tail /\ (place \in Early => current[r] = 1)
  BY <1>1, <1>4 DEF PlaceInv
<1> QED
  BY <1>1, <1>2, <1>4, <1>5, <1>6

\* An Allreduce ends when all have called it, each with its value.
LEMMA AllHavePassed ==
    ASSUME NodesInv, NEW r \in Ranks, NEW i \in {2, 4}, Ready(r), Count(r) = i
    PROVE  \A s \in Ranks : Fits(s, i, calls[s][i])
<1>1. \A s \in Ranks : Count(s) \in Nat /\ CallsFit(s)
  BY CountIsNat DEF NodesInv, NodesType
<1>2. calls[r][i].op = "Allreduce"
  <2>1. i \in 1..Count(r)
    OBVIOUS
  <2>2. Fits(r, i, calls[r][i])
    BY <1>1, <2>1 DEF CallsFit
  <2>3. CASE i = 2
    BY <2>2, <2>3 DEF Fits
  <2>4. CASE i = 4
    BY <2>2, <2>4 DEF Fits
  <2> QED
    BY <2>3, <2>4
<1>3. \A s \in Ranks : Count(s) >= i
  BY <1>2, ReadyMeans DEF Synchronizing
<1> QED
  BY <1>1, <1>3 DEF CallsFit

LEMMA GetNumNodesStep ==
    ASSUME NodesInv, NEW r \in Ranks, GetNumNodes(r)
    PROVE  NodesInv'
<1>1. /\ UNCHANGED <<queue, host, current, numTasksOnNode0, tasksBlockMapping>>
      /\ NodesType
  BY DEF GetNumNodes, parser, NodesInv
<1>2. CASE At(r, "nodes") /\ GoAfter(r, <<"CommSplit">>, "count_nodes") /\ UNCHANGED numNodes
  <2>1. /\ at[r] = "nodes" /\ at[0] # "script" /\ Count(r) = 0 /\ current[r] = 1
        /\ PlaceInv(r)
    BY <1>2, CallsDue DEF Early, Due
  <2>2. <<"CommSplit">> \in Seq(Collectives) /\ Len(<<"CommSplit">>) = 1
    BY DEF Collectives, Synchronizing
  <2>3. /\ at' = [s \in Ranks |-> at'[s]] /\ at'[r] = "count_nodes"
        /\ ahead' \in [Ranks -> Seq(Collectives)] /\ Len(ahead'[r]) = 1
        /\ \A s \in Ranks \ {r} : at'[s] = at[s] /\ ahead'[s] = ahead[s]
        /\ calls' = calls /\ Count(r)' = 0 /\ CallsFit(r)'
    BY <1>1, <1>2, <2>1, <2>2, GoAfterStep
  <2>4. Rest(r) /\ at'[0] # "script"
    BY <1>1, <1>2, <2>1, <2>3, RanksAreFinite DEF Rest, NodesType, tail, Parsed
  <2>5. PlaceInv(r)'
    BY <1>1, <2>1, <2>3, <2>4 DEF PlaceInv, MayWait, Due, Early, Mapping, Later
  <2>6. Knows(r)'
    BY <2>3 DEF Knows, Mapping, Later
  <2> QED
    BY <2>1, <2>3, <2>4, <2>5, <2>6, OthersStay
<1>3. CASE /\ At(r, "count_nodes")
           /\ GoSending(r, "Allreduce", IF r = Min(Node(r)) THEN 1 ELSE 0, "nodes_counted")
           /\ UNCHANGED numNodes
  <2>1. /\ at[r] = "count_nodes" /\ at[0] # "script" /\ Count(r) = 1 /\ current[r] = 1
        /\ PlaceInv(r) /\ Len(ahead[r]) = 0 /\ tail \in Nat
    BY <1>3, CallsDue DEF Early, Due
  <2>2. "Allreduce" \in Collectives /\ First(r) \in Values
    BY DEF Collectives, Synchronizing, First, Values
  <2>3. Fits(r, 2, [op |-> "Allreduce", value |-> First(r)])
    BY <2>1 DEF Fits
  <2>4. /\ at' = [s \in Ranks |-> at'[s]] /\ at'[r] = "nodes_counted"
        /\ \A s \in Ranks \ {r} : at'[s] = at[s] /\ calls'[s] = calls[s]
        /\ ahead' = ahead
        /\ calls' \in CallsIn(Values) /\ Count(r)' = 2 /\ CallsFit(r)'
    <3>1. GoSending(r, "Allreduce", First(r), "nodes_counted")
      BY <1>3 DEF First
    <3>2. Count(r) + 1 = 2
      BY <2>1
    <3>3. Fits(r, Count(r) + 1, [op |-> "Allreduce", value |-> First(r)])
      BY <2>3, <3>2
    <3> QED
      BY <1>1, <2>2, <3>1, <3>2, <3>3, GoSendingStep
  <2>5. Rest(r) /\ at'[0] # "script"
    BY <1>1, <1>3, <2>1, <2>4, RanksAreFinite DEF Rest, NodesType, tail, Parsed
  <2>6. PlaceInv(r)'
    BY <1>1, <2>1, <2>4, <2>5 DEF PlaceInv, MayWait, Due, Early, Mapping, Later
  <2>7. Knows(r)'
    BY <2>4 DEF Knows, Mapping, Later
  <2> QED
    BY <2>1, <2>4, <2>5, <2>6, <2>7, OthersStay
<1>4. CASE /\ At(r, "nodes_counted")
           /\ numNodes' = [numNodes EXCEPT ![r] = Sum(r)]
           /\ GoAfter(r, <<"CommSplit">>, "count_tasks")
  <2>1. /\ at[r] = "nodes_counted" /\ at[0] # "script" /\ Count(r) = 2 /\ current[r] = 1
        /\ PlaceInv(r) /\ Ready(r)
    BY <1>4, CallsDue DEF Early, Due
  <2>2. <<"CommSplit">> \in Seq(Collectives) /\ Len(<<"CommSplit">>) = 1
    BY DEF Collectives, Synchronizing
  <2>3. /\ at' = [s \in Ranks |-> at'[s]] /\ at'[r] = "count_tasks"
        /\ ahead' \in [Ranks -> Seq(Collectives)] /\ Len(ahead'[r]) = 1
        /\ \A s \in Ranks \ {r} : at'[s] = at[s] /\ ahead'[s] = ahead[s]
        /\ calls' = calls /\ Count(r)' = 2 /\ CallsFit(r)'
    BY <1>1, <1>4, <2>1, <2>2, GoAfterStep
  <2>4. Sum(r) = Cardinality(Range(host))
    <3>1. \A s \in Ranks : calls[s][2] = [op |-> "Allreduce", value |-> First(s)]
      BY <2>1, AllHavePassed DEF Fits
    <3>2. ASSUME NEW s \in Ranks PROVE Sent(s, r) = First(s)
      <4> DEFINE c == calls[s][2]
                 v == First(s)
      <4>1. c = [op |-> "Allreduce", value |-> v]
        BY <3>1
      <4> HIDE DEF c, v
      <4>2. c.value = v
        BY <4>1
      <4> QED
        BY <2>1, <4>2 DEF Sent, c, v
    <3> QED
      BY <1>1, <3>2, SumOfFirsts DEF NodesType
  <2>5. /\ numNodes'[r] = Cardinality(Range(host)) /\ numNodes' = [s \in Ranks |-> numNodes'[s]]
        /\ \A s \in Ranks \ {r} : numNodes'[s] = numNodes[s]
    <3> DEFINE n == Sum(r)
    <3>1. numNodes = [s \in Ranks |-> numNodes[s]] /\ numNodes' = [numNodes EXCEPT ![r] = n]
      BY <1>1, <1>4 DEF NodesType
    <3> HIDE DEF n
    <3>2. /\ numNodes'[r] = n /\ numNodes' = [s \in Ranks |-> numNodes'[s]]
          /\ \A s \in Ranks \ {r} : numNodes'[s] = numNodes[s]
      BY <3>1
    <3> QED
      BY <2>4, <3>2 DEF n
  <2>6. Rest(r) /\ at'[0] # "script"
    BY <1>1, <2>1, <2>3, <2>5, RanksAreFinite DEF Rest, NodesType, tail, Parsed
  <2>7. PlaceInv(r)'
    BY <1>1, <2>1, <2>3, <2>6 DEF PlaceInv, MayWait, Due, Early, Mapping, Later
  <2>8. Knows(r)'
    BY <1>1, <2>3, <2>5 DEF Knows, Mapping, Later
  <2> QED
    BY <2>1, <2>3, <2>6, <2>7, <2>8, OthersStay
<1> QED
  BY <1>2, <1>3, <1>4 DEF GetNumNodes

LEMMA GetNumTasksOnNode0Step ==
    ASSUME NodesInv, NEW r \in Ranks, GetNumTasksOnNode0(r)
    PROVE  NodesInv'
<1>1. /\ UNCHANGED <<queue, host, current, numNodes, tasksBlockMapping>>
      /\ NodesType
  BY DEF GetNumTasksOnNode0, parser, NodesInv
<1>2. CASE /\ At(r, "count_tasks") /\ GoSending(r, "Allreduce", Node0(r), "tasks_counted")
           /\ UNCHANGED numTasksOnNode0
  <2>1. /\ at[r] = "count_tasks" /\ at[0] # "script" /\ Count(r) = 3 /\ current[r] = 1
        /\ PlaceInv(r) /\ Knows(r) /\ Len(ahead[r]) = 0 /\ tail \in Nat
    BY <1>2, CallsDue DEF Early, Due
  <2>2. "Allreduce" \in Collectives /\ Node0(r) \in Values
    BY Node0IsNat DEF Collectives, Synchronizing, Values
  <2>3. Count(r) + 1 = 4 /\ Fits(r, Count(r) + 1, [op |-> "Allreduce", value |-> Node0(r)])
    <3>1. Fits(r, 4, [op |-> "Allreduce", value |-> Node0(r)])
      BY <2>1 DEF Fits
    <3> QED
      BY <2>1, <3>1
  <2>4. /\ at' = [s \in Ranks |-> at'[s]] /\ at'[r] = "tasks_counted"
        /\ \A s \in Ranks \ {r} : at'[s] = at[s] /\ calls'[s] = calls[s]
        /\ ahead' = ahead
        /\ calls' \in CallsIn(Values) /\ Count(r)' = 4 /\ CallsFit(r)'
    BY <1>1, <1>2, <2>2, <2>3, GoSendingStep
  <2>5. Rest(r) /\ at'[0] # "script"
    BY <1>1, <1>2, <2>1, <2>4, RanksAreFinite DEF Rest, NodesType, tail, Parsed
  <2>6. PlaceInv(r)'
    BY <1>1, <2>1, <2>4, <2>5 DEF PlaceInv, MayWait, Due, Early, Mapping, Later
  <2>7. Knows(r)'
    BY <1>1, <2>1, <2>4 DEF Knows, Mapping, Later
  <2> QED
    BY <2>1, <2>4, <2>5, <2>6, <2>7, OthersStay
<1>3. CASE /\ At(r, "tasks_counted")
           /\ numTasksOnNode0' = [numTasksOnNode0 EXCEPT ![r] = Sum(r)]
           /\ GoAfter(r, <<"Bcast">>, "root_host")
  <2>1. /\ at[r] = "tasks_counted" /\ at[0] # "script" /\ Count(r) = 4 /\ current[r] = 1
        /\ PlaceInv(r) /\ Knows(r) /\ Ready(r) /\ tail \in Nat \ {0}
    BY <1>3, CallsDue DEF Early, Due
  <2>2. <<"Bcast">> \in Seq(Collectives) /\ Len(<<"Bcast">>) = 1
    BY DEF Collectives
  <2>3. /\ at' = [s \in Ranks |-> at'[s]] /\ at'[r] = "root_host"
        /\ ahead' \in [Ranks -> Seq(Collectives)] /\ Len(ahead'[r]) = 1
        /\ \A s \in Ranks \ {r} : at'[s] = at[s] /\ ahead'[s] = ahead[s]
        /\ calls' = calls /\ Count(r)' = 4 /\ CallsFit(r)'
    BY <1>1, <1>3, <2>1, <2>2, GoAfterStep
  <2>4. Sum(r) = Cardinality(Node(0))
    <3>1. \A s \in Ranks : calls[s][4] = [op |-> "Allreduce", value |-> Node0(s)]
      BY <2>1, AllHavePassed DEF Fits
    <3>2. ASSUME NEW s \in Ranks PROVE Sent(s, r) = Node0(s)
      <4> DEFINE c == calls[s][4]
                 v == Node0(s)
      <4>1. c = [op |-> "Allreduce", value |-> v]
        BY <3>1
      <4> HIDE DEF c, v
      <4>2. c.value = v
        BY <4>1
      <4> QED
        BY <2>1, <4>2 DEF Sent, c, v
    <3> QED
      BY <3>2, SumOfNode0
  <2>5. /\ numTasksOnNode0'[r] = Cardinality(Node(0))
        /\ numTasksOnNode0' = [s \in Ranks |-> numTasksOnNode0'[s]]
        /\ \A s \in Ranks \ {r} : numTasksOnNode0'[s] = numTasksOnNode0[s]
    <3> DEFINE n == Sum(r)
    <3>1. /\ numTasksOnNode0 = [s \in Ranks |-> numTasksOnNode0[s]]
          /\ numTasksOnNode0' = [numTasksOnNode0 EXCEPT ![r] = n]
      BY <1>1, <1>3 DEF NodesType
    <3> HIDE DEF n
    <3>2. /\ numTasksOnNode0'[r] = n /\ numTasksOnNode0' = [s \in Ranks |-> numTasksOnNode0'[s]]
          /\ \A s \in Ranks \ {r} : numTasksOnNode0'[s] = numTasksOnNode0[s]
      BY <3>1
    <3> QED
      BY <2>4, <3>2 DEF n
  <2>6. Rest(r) /\ at'[0] # "script"
    BY <1>1, <2>1, <2>3, <2>5, RanksAreFinite DEF Rest, NodesType, tail, Parsed
  <2>7. PlaceInv(r)'
    BY <1>1, <2>1, <2>3, <2>6 DEF PlaceInv, MayWait, Due, Early, Mapping, Later, tail
  <2>8. Knows(r)'
    BY <1>1, <2>1, <2>3, <2>5 DEF Knows, Mapping, Later, Node
  <2> QED
    BY <2>1, <2>3, <2>6, <2>7, <2>8, OthersStay
<1> QED
  BY <1>2, <1>3 DEF GetNumTasksOnNode0

\* Rank 0 is told by rank 1 itself.
LEMMA Rank1HasSaid ==
    ASSUME NodesInv, N > 1, Ready(0), NEW k \in 1..tail, tail \in Nat, Count(0) = 4 + 3 * k
    PROVE  Sent(1, 0) = (host[1] = host[0])
<1> DEFINE i == 4 + 3 * k
<1>1. i \in Nat /\ i > 0 /\ 0 \in Ranks /\ 1 \in Ranks
  BY RanksAreFinite, MpiAssumption DEF Ranks
<1>2. \A s \in Ranks : Count(s) \in Nat /\ CallsFit(s)
  BY CountIsNat DEF NodesInv, NodesType
<1>3. ASSUME NEW s \in Ranks, Count(s) >= i
      PROVE  calls[s][i].op = "Gather" /\ calls[s][i].value = (host[s] = host[0])
  <2>1. i \in 1..Count(s)
    BY <1>1, <1>2, <1>3
  <2>2. Fits(s, i, calls[s][i])
    BY <1>2, <2>1 DEF CallsFit
  <2> DEFINE c == calls[s][i]
             v == host[s] = host[0]
  <2>3. c = [op |-> "Gather", value |-> v]
    BY <2>2 DEF Fits
  <2> HIDE DEF c, v
  <2>4. c.op = "Gather" /\ c.value = v
    BY <2>3
  <2> QED
    BY <2>4 DEF c, v
<1>4. calls[0][i].op = "Gather"
  BY <1>1, <1>3
<1>5. Count(1) >= i
  <2> HIDE DEF i
  <2> QED
    BY <1>1, <1>4 DEF Ready, ReadyIn, Synchronizing, i
<1>6. calls[1][i].value = (host[1] = host[0])
  BY <1>1, <1>3, <1>5
<1> QED
  BY <1>6 DEF Sent

\* Everybody is told by rank 0.
LEMMA Rank0HasSaid ==
    ASSUME NodesInv, NEW r \in Ranks, Ready(r), NEW k \in 1..tail, tail \in Nat,
           Count(r) = 5 + 3 * k
    PROVE  Sent(0, r) = Near
<1> DEFINE i == 5 + 3 * k
<1>1. i \in Nat /\ i > 0 /\ 0 \in Ranks
  BY RanksAreFinite
<1>2. \A s \in Ranks : Count(s) \in Nat /\ CallsFit(s)
  BY CountIsNat DEF NodesInv, NodesType
<1>3. ASSUME NEW s \in Ranks, Count(s) >= i
      PROVE  calls[s][i].op = "Bcast" /\ (s = 0 => calls[s][i].value = Near)
  <2>1. i \in 1..Count(s)
    BY <1>1, <1>2, <1>3
  <2>2. Fits(s, i, calls[s][i])
    BY <1>2, <2>1 DEF CallsFit
  <2> QED
    BY <2>2 DEF Fits
<1>4. calls[r][i].op = "Bcast"
  BY <1>1, <1>3
<1>5. Count(0) >= i
  <2> HIDE DEF i
  <2> QED
    BY <1>1, <1>4, BcastMeans DEF i
<1>6. calls[0][i].value = Near
  BY <1>1, <1>3, <1>5
<1> QED
  BY <1>6 DEF Sent

\* What rank 0 says about rank 1 is right.
LEMMA RootSaysRight ==
    ASSUME NodesInv, NEW r \in Ranks, At(r, "node_map"), r = 0
    PROVE  (IF r = 0 /\ N > 1 THEN Sent(1, 0) ELSE TRUE) = Near
<1>1. /\ Count(0) = 4 + 3 * current[0] /\ Ready(0) /\ current[0] \in 1..tail /\ tail \in Nat
  BY CallsDue DEF Mapping, Due
<1>2. CASE N > 1
  <2>1. Sent(1, 0) = (host[1] = host[0])
    BY <1>1, <1>2, Rank1HasSaid
  <2>2. 1 \in Ranks
    BY <1>2, MpiAssumption DEF Ranks
  <2>3. (host[1] = host[0]) = Near
    BY <1>2, <2>2 DEF Near, Node
  <2> QED
    BY <1>2, <2>1, <2>3
<1>3. CASE ~(N > 1)
  BY <1>3 DEF Near
<1> QED
  BY <1>2, <1>3

LEMMA QueryNodeMappingStep ==
    ASSUME NodesInv, NEW r \in Ranks, QueryNodeMapping(r)
    PROVE  NodesInv'
<1>1. /\ UNCHANGED <<queue, host, numNodes, numTasksOnNode0>>
      /\ NodesType
  BY DEF QueryNodeMapping, parser, NodesInv
<1>2. CASE /\ At(r, "root_host") /\ GoAfter(r, <<"Bcast">>, "same_as_root")
           /\ UNCHANGED <<current, tasksBlockMapping>>
  <2>1. /\ at[r] = "root_host" /\ at[0] # "script" /\ Count(r) = 2 + 3 * current[r]
        /\ current[r] \in 1..tail /\ PlaceInv(r) /\ Knows(r)
    BY <1>2, CallsDue DEF Mapping, Due
  <2>2. <<"Bcast">> \in Seq(Collectives) /\ Len(<<"Bcast">>) = 1
    BY DEF Collectives
  <2>3. /\ at' = [s \in Ranks |-> at'[s]] /\ at'[r] = "same_as_root"
        /\ ahead' \in [Ranks -> Seq(Collectives)] /\ Len(ahead'[r]) = 1
        /\ \A s \in Ranks \ {r} : at'[s] = at[s] /\ ahead'[s] = ahead[s]
        /\ calls' = calls /\ Count(r)' = Count(r) /\ CallsFit(r)'
    BY <1>1, <1>2, <2>2, GoAfterStep
  <2>4. Rest(r) /\ at'[0] # "script"
    BY <1>1, <1>2, <2>1, <2>3, RanksAreFinite DEF Rest, NodesType, tail, Parsed
  <2>5. PlaceInv(r)'
    BY <1>2, <1>1, <2>1, <2>3, <2>4 DEF PlaceInv, MayWait, Due, Early, Mapping, Later, tail
  <2>6. Knows(r)'
    BY <1>1, <2>1, <2>3 DEF Knows, Mapping, Later, Node
  <2> QED
    BY <2>1, <2>3, <2>4, <2>5, <2>6, OthersStay
<1>3. CASE /\ At(r, "same_as_root")
           /\ GoSending(r, "Gather", host[r] = host[0], "node_map")
           /\ UNCHANGED <<current, tasksBlockMapping>>
  <2>1. /\ at[r] = "same_as_root" /\ at[0] # "script" /\ Count(r) = 3 + 3 * current[r]
        /\ current[r] \in 1..tail /\ PlaceInv(r) /\ Knows(r) /\ Len(ahead[r]) = 0
        /\ tail \in Nat
    BY <1>3, CallsDue DEF Mapping, Due
  <2> DEFINE v == host[r] = host[0]
  <2>2. "Gather" \in Collectives /\ v \in Values
    BY DEF Collectives, Values
  <2>3. Fits(r, Count(r) + 1, [op |-> "Gather", value |-> v])
    <3>1. \A k \in 1..tail : /\ Count(r) + 1 # 5 + 3 * k
                             /\ Count(r) + 1 # 2 /\ Count(r) + 1 # 4
      BY <2>1
    <3> QED
      BY <2>1, <3>1 DEF Fits
  <2>4. GoSending(r, "Gather", v, "node_map")
    BY <1>3
  <2> HIDE DEF v
  <2>5. /\ at' = [s \in Ranks |-> at'[s]] /\ at'[r] = "node_map"
        /\ \A s \in Ranks \ {r} : at'[s] = at[s] /\ calls'[s] = calls[s]
        /\ ahead' = ahead
        /\ calls' \in CallsIn(Values) /\ Count(r)' = Count(r) + 1 /\ CallsFit(r)'
    BY <1>1, <2>2, <2>3, <2>4, GoSendingStep
  <2>6. Rest(r) /\ at'[0] # "script"
    BY <1>1, <1>3, <2>1, <2>5, RanksAreFinite DEF Rest, NodesType, tail, Parsed
  <2>7. PlaceInv(r)'
    BY <1>3, <1>1, <2>1, <2>5, <2>6 DEF PlaceInv, MayWait, Due, Early, Mapping, Later, tail
  <2>8. Knows(r)'
    BY <1>1, <2>1, <2>5 DEF Knows, Mapping, Later, Node
  <2> QED
    BY <2>1, <2>5, <2>6, <2>7, <2>8, OthersStay
<1>4. CASE /\ At(r, "node_map")
           /\ GoSending(r, "Bcast", IF r = 0 /\ N > 1 THEN Sent(1, 0) ELSE TRUE, "mapped")
           /\ UNCHANGED <<current, tasksBlockMapping>>
  <2>1. /\ at[r] = "node_map" /\ at[0] # "script" /\ Count(r) = 4 + 3 * current[r]
        /\ current[r] \in 1..tail /\ PlaceInv(r) /\ Knows(r) /\ Len(ahead[r]) = 0
        /\ tail \in Nat
    BY <1>4, CallsDue DEF Mapping, Due
  <2> DEFINE v == IF r = 0 /\ N > 1 THEN Sent(1, 0) ELSE TRUE
  <2>2. r = 0 => v = Near
    BY <1>4, RootSaysRight
  <2>3. GoSending(r, "Bcast", v, "mapped") /\ (r # 0 => v = TRUE)
    BY <1>4
  <2> HIDE DEF v
  <2>4. "Bcast" \in Collectives /\ v \in Values
    BY <2>2, <2>3 DEF Collectives, Values, Near
  <2>5. Fits(r, Count(r) + 1, [op |-> "Bcast", value |-> v])
    <3>1. \A k \in 1..tail : /\ Count(r) + 1 # 4 + 3 * k
                             /\ Count(r) + 1 # 2 /\ Count(r) + 1 # 4
      BY <2>1
    <3> QED
      BY <2>1, <2>2, <3>1 DEF Fits
  <2>6. /\ at' = [s \in Ranks |-> at'[s]] /\ at'[r] = "mapped"
        /\ \A s \in Ranks \ {r} : at'[s] = at[s] /\ calls'[s] = calls[s]
        /\ ahead' = ahead
        /\ calls' \in CallsIn(Values) /\ Count(r)' = Count(r) + 1 /\ CallsFit(r)'
    BY <1>1, <2>3, <2>4, <2>5, GoSendingStep
  <2>7. Rest(r) /\ at'[0] # "script"
    BY <1>1, <1>4, <2>1, <2>6, RanksAreFinite DEF Rest, NodesType, tail, Parsed
  <2>8. PlaceInv(r)'
    BY <1>4, <1>1, <2>1, <2>6, <2>7 DEF PlaceInv, MayWait, Due, Early, Mapping, Later, tail
  <2>9. Knows(r)'
    BY <1>1, <2>1, <2>6 DEF Knows, Mapping, Later, Node
  <2> QED
    BY <2>1, <2>6, <2>7, <2>8, <2>9, OthersStay
<1>5. CASE /\ At(r, "mapped")
           /\ tasksBlockMapping' = [tasksBlockMapping EXCEPT ![r] = Sent(0, r)]
           /\ current' = [current EXCEPT ![r] = IF current[r] = tail THEN 1 ELSE @ + 1]
           /\ GoAfter(r, << >>, IF current[r] = tail THEN "header" ELSE "root_host")
  <2> DEFINE k == IF current[r] = tail THEN 1 ELSE current[r] + 1
             place == IF current[r] = tail THEN "header" ELSE "root_host"
             said == Sent(0, r)
  <2>1. /\ at[r] = "mapped" /\ at[0] # "script" /\ Count(r) = 5 + 3 * current[r]
        /\ current[r] \in 1..tail /\ PlaceInv(r) /\ Knows(r) /\ Ready(r) /\ tail \in Nat \ {0}
    BY <1>5, CallsDue DEF Mapping, Due
  <2>2. << >> \in Seq(Collectives) /\ Len(<< >>) = 0
    OBVIOUS
  <2>3. said = Near
    BY <2>1, Rank0HasSaid
  <2>4. GoAfter(r, << >>, place)
    BY <1>5
  <2>5. /\ current' = [current EXCEPT ![r] = k]
        /\ tasksBlockMapping' = [tasksBlockMapping EXCEPT ![r] = said]
    BY <1>5
  <2>6. /\ place \in {"header", "root_host"} /\ (place = "header" => current[r] = tail)
        /\ (place = "root_host" => k = current[r] + 1 /\ k \in 1..tail)
    BY <2>1
  <2> HIDE DEF k, place, said
  <2>7. /\ at' = [s \in Ranks |-> at'[s]] /\ at'[r] = place
        /\ ahead' \in [Ranks -> Seq(Collectives)] /\ Len(ahead'[r]) = 0
        /\ \A s \in Ranks \ {r} : at'[s] = at[s] /\ ahead'[s] = ahead[s]
        /\ calls' = calls /\ Count(r)' = Count(r) /\ CallsFit(r)'
    BY <1>1, <2>2, <2>4, GoAfterStep
  <2>8. /\ current' = [s \in Ranks |-> current'[s]] /\ current'[r] = k
        /\ tasksBlockMapping' = [s \in Ranks |-> tasksBlockMapping'[s]]
        /\ tasksBlockMapping'[r] = Near
        /\ \A s \in Ranks \ {r} : /\ current'[s] = current[s]
                                  /\ tasksBlockMapping'[s] = tasksBlockMapping[s]
    <3>1. /\ current = [s \in Ranks |-> current[s]]
          /\ tasksBlockMapping = [s \in Ranks |-> tasksBlockMapping[s]]
      BY <1>1 DEF NodesType
    <3> QED
      BY <2>3, <2>5, <3>1
  <2>9. Rest(r) /\ at'[0] # "script"
    BY <1>1, <2>1, <2>6, <2>7, <2>8, RanksAreFinite DEF Rest, NodesType, tail, Parsed
  <2>10. PlaceInv(r)'
    <3>1. tail' = tail /\ at'[r] # "script"
      BY <1>1, <2>6, <2>7 DEF tail
    <3>2. CASE place = "header"
      BY <2>1, <2>6, <2>7, <2>9, <3>1, <3>2 DEF PlaceInv, Early, Mapping, Later
    <3>3. CASE place = "root_host"
      <4>1. Count(r)' + Len(ahead'[r]) = Due("root_host", k)
        BY <2>1, <2>6, <2>7, <3>3 DEF Due
      <4>2. Len(ahead'[r]) <= IF MayWait(r)' THEN 1 ELSE 0
        BY <2>7
      <4> QED
        BY <2>6, <2>7, <2>8, <2>9, <3>1, <3>3, <4>1, <4>2 DEF PlaceInv, Early, Mapping, Later
    <3> QED
      BY <2>6, <3>2, <3>3
  <2>11. Knows(r)'
    <3>1. Near' = Near /\ Node(0)' = Node(0)
      BY <1>1 DEF Near, Node
    <3> QED
      BY <1>1, <2>1, <2>6, <2>7, <2>8, <3>1 DEF Knows, Mapping, Later
  <2> QED
    BY <2>1, <2>7, <2>9, <2>10, <2>11, OthersStay
<1> QED
  BY <1>2, <1>3, <1>4, <1>5 DEF QueryNodeMapping

----------------------------------------------------------------------------
(* Nobody finds out anything more.                                         *)

\* After the header the ranks only go on to other places, with calls ahead.
LEMMA LaterStep ==
    ASSUME NodesInv, NEW r \in Ranks, NEW from \in Later, At(r, from),
           NEW place \in Later, NEW ops \in Seq(Collectives), GoAfter(r, ops, place),
           UNCHANGED <<queue, host, found>>,
           UNCHANGED current \/ current' = [current EXCEPT ![r] = @ + 1]
    PROVE  NodesInv'
<1>1. NodesType /\ PlaceInv(r) /\ Knows(r) /\ at[r] = from
  BY DEF NodesInv, At
<1>2. at[r] # "script" /\ at[0] # "script" /\ Count(r) >= 5 + 3 * tail
  BY <1>1 DEF PlaceInv, Later
<1>3. /\ at' = [s \in Ranks |-> at'[s]] /\ at'[r] = place
      /\ ahead' \in [Ranks -> Seq(Collectives)]
      /\ \A s \in Ranks \ {r} : at'[s] = at[s] /\ ahead'[s] = ahead[s]
      /\ calls' = calls /\ Count(r)' = Count(r) /\ CallsFit(r)'
  BY GoAfterStep
<1>4. /\ current' = [s \in Ranks |-> current'[s]]
      /\ \A s \in Ranks \ {r} : current'[s] = current[s]
  <2>1. current = [s \in Ranks |-> current[s]]
    BY <1>1 DEF NodesType
  <2> QED
    BY <2>1
<1>5. place # "script" /\ place \notin Early \cup Mapping
  BY DEF Later, Early, Mapping
<1>6. Rest(r) /\ at'[0] # "script"
  BY <1>1, <1>2, <1>3, <1>4, <1>5, RanksAreFinite DEF Rest, NodesType, tail, Parsed, found
<1>7. PlaceInv(r)'
  BY <1>2, <1>3, <1>5, <1>6 DEF PlaceInv, tail
<1>8. Knows(r)'
  BY <1>1, <1>3 DEF Knows, Node, Near, found
<1> QED
  BY <1>2, <1>3, <1>6, <1>7, <1>8, OthersStay

LEMMA TestsStep ==
    ASSUME NodesInv, NEW r \in Ranks,
           \/ Header(r) \/ test_initialize(r) \/ TestIoSys(r) \/ test_finalize(r) \/ Finish(r)
    PROVE  NodesInv'
<1>1. /\ NextOf(r) \in Later
      /\ {"header", "participate", "TestIoSys", "finalize", "summary", "done"} \subseteq Later
  BY DEF NextOf, Later
<1>2. /\ << >> \in Seq(Collectives) /\ <<"CommCreate">> \in Seq(Collectives)
      /\ <<"Barrier">> \in Seq(Collectives) /\ <<"Barrier", "CommCreate">> \in Seq(Collectives)
  BY DEF Collectives, Synchronizing
<1>3. CallsOf(r) \in Seq(Collectives)
  BY <1>2 DEF CallsOf
<1>4. UNCHANGED <<queue, host, found>>
  BY DEF Header, test_initialize, TestIoSys, test_finalize, Finish, parser
<1>5. CASE Header(r)
  <2>1. At(r, "header") /\ GoAfter(r, <<"CommCreate">>, "participate") /\ UNCHANGED current
    BY <1>5 DEF Header
  <2> QED
    BY <1>1, <1>2, <1>4, <2>1, LaterStep
<1>6. CASE test_initialize(r)
  <2>1. /\ At(r, "participate")
        /\ \/ GoAfter(r, CallsOf(r), NextOf(r)) /\ current' = [current EXCEPT ![r] = @ + 1]
           \/ GoAfter(r, << >>, "TestIoSys") /\ UNCHANGED current
    BY <1>6 DEF test_initialize
  <2> QED
    BY <1>1, <1>2, <1>3, <1>4, <2>1, LaterStep
<1>7. CASE TestIoSys(r)
  <2>1. At(r, "TestIoSys") /\ GoAfter(r, << >>, "finalize") /\ UNCHANGED current
    BY <1>7 DEF TestIoSys
  <2> QED
    BY <1>1, <1>2, <1>4, <2>1, LaterStep
<1>8. CASE test_finalize(r)
  <2>1. /\ At(r, "finalize") /\ GoAfter(r, CallsOf(r), NextOf(r))
        /\ current' = [current EXCEPT ![r] = @ + 1]
    BY <1>8 DEF test_finalize
  <2> QED
    BY <1>1, <1>3, <1>4, <2>1, LaterStep
<1>9. CASE Finish(r)
  <2>1. At(r, "summary") /\ GoAfter(r, << >>, "done") /\ UNCHANGED current
    BY <1>9 DEF Finish
  <2> QED
    BY <1>1, <1>2, <1>4, <2>1, LaterStep
<1> QED
  BY <1>5, <1>6, <1>7, <1>8, <1>9

\* As long as the script is read nobody has called anything.
LEMMA ScriptStep ==
    ASSUME NodesInv, Comment \/ Run \/ ParseLine
    PROVE  NodesInv'
<1>1. at[0] = "script" /\ UNCHANGED <<host, ranks>>
  BY DEF Comment, Run, ParseLine, Reading
<1>2. NodesType'
  BY <1>1 DEF NodesInv, NodesType, ranks, found, Parsed
<1>3. ASSUME NEW r \in Ranks PROVE PlaceInv(r)' /\ Knows(r)' /\ CallsFit(r)'
  <2>1. /\ PlaceInv(r) /\ at[r] = "script" /\ at'[r] = "script" /\ at'[0] = "script"
        /\ Count(r)' = Count(r) /\ ahead' = ahead /\ current' = current
    BY <1>1 DEF NodesInv, PlaceInv, ranks, Count
  <2>2. Count(r) \in Nat /\ Len(ahead[r]) \in Nat
    BY CountIsNat DEF NodesInv, NodesType
  <2>3. Count(r) = 0
    BY <2>1, <2>2 DEF PlaceInv, Later, Due
  <2>4. CallsFit(r)'
    <3>1. 1..Count(r)' = {}
      BY <2>1, <2>3
    <3> QED
      BY <3>1 DEF CallsFit
  <2>5. PlaceInv(r)'
    BY <2>1 DEF PlaceInv, MayWait, Early, Mapping, Later
  <2>6. Knows(r)'
    BY <2>1 DEF Knows, Mapping, Later
  <2> QED
    BY <2>4, <2>5, <2>6
<1> QED
  BY <1>2, <1>3 DEF NodesInv

\* Then all go on together.
LEMMA ScriptEnds ==
    ASSUME NodesInv, ReadConfigScript, tail' \in Nat \ {0}
    PROVE  NodesInv'
<1>1. /\ at[0] = "script" /\ at' = [r \in Ranks |-> "nodes"]
      /\ UNCHANGED <<host, ahead, calls, current, found>>
  BY DEF ReadConfigScript
<1>2. NodesType'
  BY <1>1 DEF NodesInv, NodesType, found, Parsed
<1>3. ASSUME NEW r \in Ranks PROVE PlaceInv(r)' /\ Knows(r)' /\ CallsFit(r)'
  <2>1. /\ PlaceInv(r) /\ at[r] = "script" /\ at'[r] = "nodes" /\ at'[0] = "nodes"
        /\ Count(r)' = Count(r) /\ ahead' = ahead /\ current' = current
    BY <1>1, RanksAreFinite DEF NodesInv, PlaceInv, Count
  <2>2. Count(r) \in Nat /\ Len(ahead[r]) \in Nat
    BY CountIsNat DEF NodesInv, NodesType
  <2>3. Count(r) = 0 /\ Len(ahead[r]) = 0 /\ current[r] = 1
    BY <2>1, <2>2 DEF PlaceInv, Later, Due
  <2>4. CallsFit(r)'
    <3>1. 1..Count(r)' = {}
      BY <2>1, <2>3
    <3> QED
      BY <3>1 DEF CallsFit
  <2>5. PlaceInv(r)'
    BY <2>1, <2>3 DEF PlaceInv, MayWait, Early, Mapping, Later, Due
  <2>6. Knows(r)'
    BY <2>1 DEF Knows, Mapping, Later
  <2> QED
    BY <2>4, <2>5, <2>6
<1> QED
  BY <1>2, <1>3 DEF NodesInv

LEMMA NodesInit == Init => NodesInv
<1> SUFFICES ASSUME Init PROVE NodesInv
  OBVIOUS
<1>1. /\ host \in Hosts
      /\ at = [r \in Ranks |-> "script"]
      /\ ahead = [r \in Ranks |-> << >>]
      /\ calls = [r \in Ranks |-> << >>]
      /\ current = [r \in Ranks |-> 1]
      /\ numNodes = [r \in Ranks |-> 0]
      /\ numTasksOnNode0 = [r \in Ranks |-> 0]
      /\ tasksBlockMapping = [r \in Ranks |-> FALSE]
  BY DEF Init, NoCalls
<1>2. host \in [Ranks -> Nat]
  BY <1>1, DriverAssumption
<1>3. at[0] = "script"
  BY <1>1, RanksAreFinite
<1>4. calls \in CallsIn(Values)
  BY <1>1 DEF CallsIn
<1>5. NodesType
  BY <1>1, <1>2, <1>3, <1>4 DEF NodesType, Parsed
<1>6. ASSUME NEW r \in Ranks PROVE PlaceInv(r) /\ Knows(r) /\ CallsFit(r)
  <2>1. at[r] = "script" /\ Count(r) = 0 /\ Len(ahead[r]) = 0 /\ current[r] = 1
    BY <1>1 DEF Count
  <2>2. PlaceInv(r)
    BY <1>3, <2>1 DEF PlaceInv, MayWait, Early, Mapping, Later, Due
  <2>3. Knows(r)
    BY <2>1 DEF Knows, Mapping, Later
  <2>4. CallsFit(r)
    <3>1. 1..Count(r) = {}
      BY <2>1
    <3> QED
      BY <3>1 DEF CallsFit
  <2> QED
    BY <2>2, <2>3, <2>4
<1> QED
  BY <1>5, <1>6 DEF NodesInv

----------------------------------------------------------------------------
\* Whatever nodes the ranks lie on, and in whatever order they call, every rank
\* finds out how many nodes there are, how many ranks are on the first one, and
\* whether rank 1 is (GetNumNodes, GetNumTasksOnNode0, QueryNodeMapping).
THEOREM RanksAgreeOnNodes == Spec => []NodesAgree
<1>1. ParserInv /\ NodesInv /\ [Next]_vars => NodesInv'
  <2>1. ASSUME NodesInv, UNCHANGED vars PROVE NodesInv'
    <3>1. UNCHANGED <<host, at, ahead, calls, current, numNodes, numTasksOnNode0,
                      tasksBlockMapping, queue>>
      BY <2>1 DEF vars, parser, ranks, found
    <3>2. NodesType'
      BY <2>1, <3>1 DEF NodesInv, NodesType, Parsed, tail
    <3>3. ASSUME NEW r \in Ranks PROVE PlaceInv(r)' /\ Knows(r)' /\ CallsFit(r)'
      <4>1. PlaceInv(r) /\ Knows(r) /\ CallsFit(r) /\ Count(r)' = Count(r)
        BY <2>1, <3>1 DEF NodesInv, Count
      <4>2. PlaceInv(r)'
        BY <3>1, <4>1 DEF PlaceInv, MayWait, tail
      <4>3. Knows(r)'
        BY <3>1, <4>1 DEF Knows, Node, Near
      <4>4. CallsFit(r)'
        BY <3>1, <4>1, FitsStays DEF CallsFit
      <4> QED
        BY <4>2, <4>3, <4>4
    <3> QED
      BY <3>2, <3>3 DEF NodesInv
  <2>2. ASSUME ParserInv, NodesInv, ReadConfigScript PROVE NodesInv'
    BY <2>2, ScriptIsWritten, ScriptEnds
  <2> QED
    BY <2>1, <2>2, ScriptStep, CollectiveStep, GetNumNodesStep, GetNumTasksOnNode0Step,
       QueryNodeMappingStep, TestsStep
       DEF Next, ParserNext, RankNext, Terminating
<1>2. NodesInv => NodesAgree
  BY MpiAssumption DEF NodesInv, NodesAgree, Knows, Near, Later
<1> QED
  BY <1>1, <1>2, NodesInit, ParserInit, ParserStep, PTL DEF Spec
=============================================================================
