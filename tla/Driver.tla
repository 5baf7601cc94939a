------------------------------- MODULE Driver -------------------------------
(***************************************************************************)
(* The program around the tests (ior_main): it reads a script into a queue   *)
(* of tests, finds out how the ranks lie on the nodes, runs each test on the *)
(* ranks it asks for, and rank 0 writes one JSON document about it all.      *)
(* What a test does to its files is the subject of TestIoSys; here it is one *)
(* step and what it prints.                                                 *)
(***************************************************************************)
EXTENDS Mpi, FiniteSets, FiniteSetsExt, Functions, SequencesExt

CONSTANTS
    Apis,     \* the backends; each has one option of its own
    Talkative, \* those whose initialize prints a line (AIO: max_pending)
    NoStatfs,  \* those that cannot tell the size of the file system (RADOS)
    Scripts,  \* what may be between IOR START and the end of the file
    Hosts     \* how the ranks may lie on the nodes

\* A directive is about a parameter of the test, an option that only the table
\* of options knows (dryRun), or an option of a backend (module).
Directives ==
    [kind : {"numTasks", "verbose", "summary_every_test", "dryRun"}, value : Int]
    \cup [kind : {"writeFile", "readFile"}, value : BOOLEAN]
    \cup [kind : {"api"}, value : Apis] \cup [kind : {"module"}, value : Int, api : Apis]

ASSUME DriverAssumption ==
    /\ Talkative \subseteq Apis /\ NoStatfs \subseteq Apis
    /\ \A s \in Scripts : \A i \in DOMAIN s :
          s[i] \in Directives \cup [kind : {"run", "stop", "comment"}]
    /\ Hosts \subseteq [Ranks -> Nat]

VARIABLES
    script, line,     \* the script and how far it is read
    queue,            \* of tests, and the options they will be run with
    runflag,          \* was the last line a RUN
    written, wanted,  \* what the script has said so far, and before each RUN
    host,             \* the node of each rank
    at, ahead, current,  \* of each rank; current is its test
    numNodes, numTasksOnNode0, tasksBlockMapping,  \* what a rank has found out
    verbose, doc, needNextToken  \* of rank 0: the verbosity, what it has printed

parser == <<script, line, queue, runflag, written, wanted>>
found == <<numNodes, numTasksOnNode0, tasksBlockMapping>>
printed == <<verbose, doc, needNextToken>>
ranks == <<at, ahead, calls, current, found>>
vars == <<parser, host, ranks, printed>>
-----------------------------------------------------------------------------
(* Reading the script.                                                     *)

\* What the command line sets before the script is read.
init_IOR_Param_t(api) ==
    [numTasks |-> -1, verbose |-> 0, summary_every_test |-> 0, dryRun |-> 0,
     writeFile |-> FALSE, readFile |-> FALSE, api |-> api]

Nobody == 0

\* tests: their parameters.  structs: the structures with options of a backend,
\* the latest of which the directives write to.  backend_options: the one a
\* test has got, 0 if none yet.  table: the test the other options point to.
FirstTest(api) ==
    [tests |-> <<init_IOR_Param_t(api)>>, backend_options |-> <<0>>,
     structs |-> [a \in Apis |-> <<0>>], table |-> 1]

tail == Len(queue.tests)

\* The backend copies its options: the copy is what the directives write to
\* from now on, and also what the test keeps.
airoi_update_module_options(q) ==
    LET k == Len(q.backend_options)
        api == q.tests[k].api
    IN [q EXCEPT !.structs[api] = Append(@, @[Len(@)]),
                 !.backend_options[k] = Len(q.structs[api]) + 1]

\* The test at the tail has got its options; its successor starts like it.
CreateTest(q, table) ==
    [airoi_update_module_options(q) EXCEPT
        !.tests = Append(@, @[Len(@)]), !.backend_options = Append(@, 0), !.table = table]

\* Mutant: the table of options stays where it was.
M_NextTest(q) == CreateTest(q, q.table)

NextTest(q) == CreateTest(q, tail + 1)

\* A directive after two RUNs in a row finds no table before NextTest.
DecodeDirective(q, d) ==
    CASE d.kind = "module" -> [q EXCEPT !.structs[d.api] = [@ EXCEPT ![Len(@)] = d.value]]
      [] d.kind = "dryRun" ->
            IF q.table = Nobody THEN q ELSE [q EXCEPT !.tests[q.table].dryRun = d.value]
      [] OTHER -> [q EXCEPT !.tests[Len(q.tests)][d.kind] = d.value]

NextLine == line <= Len(script) /\ script[line].kind # "stop"

Reading ==
    /\ at[0] = "script" /\ NextLine
    /\ line' = line + 1
    /\ UNCHANGED <<script, host, ranks, printed>>

Comment ==
    /\ Reading /\ script[line].kind = "comment"
    /\ UNCHANGED <<queue, runflag, written, wanted>>

\* The second of two RUNs in a row is a test like the first; the table of
\* options is not there until the next directive.
Run ==
    /\ Reading /\ script[line].kind = "run"
    /\ queue' = IF runflag THEN CreateTest(queue, Nobody) ELSE queue
    /\ runflag' = TRUE
    /\ wanted' = Append(wanted, written)
    /\ UNCHANGED written

ParseLine ==
    /\ Reading /\ script[line].kind \notin {"run", "comment"}
    /\ queue' = DecodeDirective(IF runflag THEN NextTest(queue) ELSE queue, script[line])
    /\ runflag' = FALSE
    /\ written' = IF script[line].kind = "module"
                  THEN [written EXCEPT !.module[script[line].api] = script[line].value]
                  ELSE [written EXCEPT !.test[script[line].kind] = script[line].value]
    /\ UNCHANGED wanted

\* A test that neither writes nor reads does both.
CheckRunSettings(test) ==
    IF test.writeFile \/ test.readFile THEN test
    ELSE [test EXCEPT !.writeFile = TRUE, !.readFile = TRUE]

\* What follows the last RUN is a test, too.  All ranks have read the same.
ReadConfigScript ==
    /\ at[0] = "script" /\ ~NextLine
    /\ queue' = [airoi_update_module_options(queue) EXCEPT
                    !.tests = [k \in DOMAIN @ |-> CheckRunSettings(@[k])]]
    /\ wanted' = IF runflag THEN wanted ELSE Append(wanted, written)
    /\ at' = [r \in Ranks |-> "nodes"]
    /\ UNCHANGED <<script, line, runflag, written, host, ahead, calls, current, found, printed>>
-----------------------------------------------------------------------------
(* InitTests: where are the ranks?                                         *)

At(r, place) == at[r] = place /\ ahead[r] = << >> /\ Ready(r)
Go(r, place) == at' = [at EXCEPT ![r] = place]

\* Go on to a place after some collectives of the world.
GoAfter(r, ops, place) == Go(r, place) /\ ahead' = [ahead EXCEPT ![r] = ops] /\ UNCHANGED calls
GoSending(r, op, value, place) == Go(r, place) /\ Send(r, op, value) /\ UNCHANGED ahead

Collective(r) ==
    /\ ahead[r] # << >> /\ Ready(r)
    /\ Call(r, Head(ahead[r]))
    /\ ahead' = [ahead EXCEPT ![r] = Tail(@)]
    /\ UNCHANGED <<parser, host, at, current, found, printed>>

Node(r) == {s \in Ranks : host[s] = host[r]}
Sum(r) == FoldFunction(LAMBDA a, b : a + b, 0, [s \in Ranks |-> Sent(s, r)])

\* The first rank of each node counts for one.
GetNumNodes(r) ==
    /\ \/ At(r, "nodes") /\ GoAfter(r, <<"CommSplit">>, "count_nodes") /\ UNCHANGED numNodes
       \/ /\ At(r, "count_nodes")
          /\ GoSending(r, "Allreduce", IF r = Min(Node(r)) THEN 1 ELSE 0, "nodes_counted")
          /\ UNCHANGED numNodes
       \/ /\ At(r, "nodes_counted")
          /\ numNodes' = [numNodes EXCEPT ![r] = Sum(r)]
          /\ GoAfter(r, <<"CommSplit">>, "count_tasks")
    /\ UNCHANGED <<parser, host, current, numTasksOnNode0, tasksBlockMapping, printed>>

\* Mutant: each rank adds what it knows of its own node.
M_Node0(r) == Cardinality(Node(r))

\* Rank 0 adds the tasks of its node, the others nothing.
Node0(r) == IF r = 0 THEN Cardinality(Node(0)) ELSE 0

\* DistributeHints follows.
GetNumTasksOnNode0(r) ==
    /\ \/ /\ At(r, "count_tasks") /\ GoSending(r, "Allreduce", Node0(r), "tasks_counted")
          /\ UNCHANGED numTasksOnNode0
       \/ /\ At(r, "tasks_counted")
          /\ numTasksOnNode0' = [numTasksOnNode0 EXCEPT ![r] = Sum(r)]
          /\ GoAfter(r, <<"Bcast">>, "root_host")
    /\ UNCHANGED <<parser, host, current, numNodes, tasksBlockMapping, printed>>

\* For each test.  Rank 0 collects who is on its node and says whether rank 1 is.
QueryNodeMapping(r) ==
    /\ \/ /\ At(r, "root_host")
          /\ GoAfter(r, <<"Bcast">>, "same_as_root") /\ UNCHANGED <<current, tasksBlockMapping>>
       \/ /\ At(r, "same_as_root")
          /\ GoSending(r, "Gather", host[r] = host[0], "node_map")
          /\ UNCHANGED <<current, tasksBlockMapping>>
       \/ /\ At(r, "node_map")
          /\ GoSending(r, "Bcast", IF r = 0 /\ N > 1 THEN Sent(1, 0) ELSE TRUE, "mapped")
          /\ UNCHANGED <<current, tasksBlockMapping>>
       \/ /\ At(r, "mapped")
          /\ tasksBlockMapping' = [tasksBlockMapping EXCEPT ![r] = Sent(0, r)]
          /\ current' = [current EXCEPT ![r] = IF current[r] = tail THEN 1 ELSE @ + 1]
          /\ GoAfter(r, << >>, IF current[r] = tail THEN "header" ELSE "root_host")
    /\ UNCHANGED <<parser, host, numNodes, numTasksOnNode0, printed>>

\* More tasks than there are is only a warning.
numTasks(k) == IF queue.tests[k].numTasks \in 1..N THEN queue.tests[k].numTasks ELSE N
-----------------------------------------------------------------------------
(* The JSON document is a sequence of tokens: brackets that open, with or    *)
(* without a name, brackets that close, and keys, which say <<>> or what the *)
(* object is about.  comma: is a comma printed before it.  A line is what    *)
(* somebody prints on the same stdout besides: lines of results, warnings of *)
(* a transfer and all but the first line that -v adds to a test are left out. *)

Token(token, named, about) == <<[token |-> token, named |-> named, about |-> about, comma |-> FALSE]>>

PrintStartSection == Token("{", FALSE, << >>)
PrintNamedSectionStart == Token("{", TRUE, << >>)
PrintNamedArrayStart == Token("[", TRUE, << >>)
PrintKeyVal(about) == Token("key", TRUE, about)
PrintEndSection == Token("}", FALSE, << >>)
PrintArrayEnd == Token("]", FALSE, << >>)

Opens(t) == t.token \in {"{", "["}
Closes(t) == t.token \in {"}", "]"}

\* Printed beside the protocol, which does not notice.
Line == Token("line", FALSE, << >>)
IsLine(t) == t.token = "line"

\* Before an item there is a comma, unless a bracket has just been opened; a
\* line, of which there are never two in a row, does not count.
PrintNextToken(tokens) ==
    LET before(i) == IF i > 1 /\ IsLine(tokens[i - 1]) THEN i - 2 ELSE i - 1
        next(i) == IF before(i) = 0 THEN needNextToken ELSE ~Opens(tokens[before(i)])
    IN [i \in DOMAIN tokens |->
           [tokens[i] EXCEPT !.comma = @ \/ (~Closes(tokens[i]) /\ ~IsLine(tokens[i]) /\ next(i))]]

Record(about) == PrintStartSection \o PrintKeyVal(about) \o PrintEndSection

PrintHeader == PrintStartSection \o PrintKeyVal(<< >>) \o PrintNamedArrayStart

\* The path and the sizes bring their own comma; or there is a warning.
ShowFileSystemSize(k) ==
    IF queue.tests[k].api \in NoStatfs THEN Line
    ELSE <<[PrintKeyVal(<< >>)[1] EXCEPT !.comma = TRUE]>>

ShowTestStart(k) ==
    PrintStartSection \o PrintKeyVal(<<k>>) \o ShowFileSystemSize(k)
    \o PrintNamedSectionStart \o PrintKeyVal(<< >>) \o PrintEndSection

ShowSetup ==
    PrintNamedSectionStart \o PrintKeyVal(<< >>) \o PrintEndSection \o PrintNamedArrayStart

Operations(k) ==
    LET test == queue.tests[k]
    IN (IF test.writeFile THEN <<"write">> ELSE << >>) \o (IF test.readFile THEN <<"read">> ELSE << >>)

\* One repetition: a record for each operation, with -v one for the removal.
Results(k) ==
    FlattenSeq([i \in DOMAIN Operations(k) |-> Record(<< >>)])
    \o (IF verbose > 0 THEN Record(<< >>) ELSE << >>)

\* PrintLongSummaryOneTest
Summary(k) == FlattenSeq([i \in DOMAIN Operations(k) |-> Record(<<k, Operations(k)[i]>>)])

\* With -v.  It closes the array of the results again.
PrintShortSummary == PrintArrayEnd \o PrintNamedSectionStart \o PrintKeyVal(<< >>) \o PrintEndSection

\* With -v how many take part, on a line of its own.
ShowTest(k) ==
    (IF verbose > 0 THEN Line ELSE << >>) \o ShowSetup \o Results(k) \o PrintArrayEnd
    \o (IF verbose <= 0 THEN << >>
        ELSE IF queue.tests[k].summary_every_test # 0 THEN Summary(k) ELSE PrintShortSummary)

ShowTestEnd == PrintEndSection

AllSummaries == FlattenSeq([k \in DOMAIN queue.tests |-> Summary(k)])

\* Mutant: the array of the tests is left open.
M_PrintLongSummaryAllTests == PrintNamedArrayStart \o AllSummaries \o PrintArrayEnd

PrintLongSummaryAllTests == PrintArrayEnd \o PrintNamedArrayStart \o AllSummaries \o PrintArrayEnd

\* With -v the time it finished.
PrintTestEnds == (IF verbose > 0 THEN PrintKeyVal(<< >>) ELSE << >>) \o PrintEndSection
-----------------------------------------------------------------------------
(* Running the tests.                                                      *)

\* Only rank 0 prints tokens, after what the rank itself has let out.
PrintsAfter(lines, r, tokens) ==
    IF r = 0
    THEN doc' = doc \o lines \o PrintNextToken(tokens) /\ needNextToken' = ~Opens(Last(tokens))
    ELSE doc' = doc \o lines /\ UNCHANGED needNextToken

Prints(r, tokens) == PrintsAfter(<< >>, r, tokens)

\* What initialize of the backend prints on every rank of the test.
BackendPrints(k) == IF queue.tests[k].api \in Talkative THEN Line ELSE << >>

Header(r) ==
    /\ At(r, "header")
    /\ Prints(r, PrintHeader)
    /\ GoAfter(r, <<"CommCreate">>, "participate")
    /\ UNCHANGED <<parser, host, current, found, verbose>>

\* The communicator of the next test, or the summary of all.
NextOf(r) == IF current[r] = tail THEN "summary" ELSE "participate"
CallsOf(r) == IF current[r] = tail THEN <<"Barrier">> ELSE <<"Barrier", "CommCreate">>

\* Mutant: who has no part in the test goes on at once.
M_test_initialize(r) ==
    /\ At(r, "participate")
    /\ IF r >= numTasks(current[r])
       THEN /\ GoAfter(r, Tail(CallsOf(r)), NextOf(r))
            /\ current' = [current EXCEPT ![r] = @ + 1]
            /\ UNCHANGED printed
       ELSE /\ GoAfter(r, << >>, "TestIoSys")
            /\ verbose' = IF r = 0 THEN queue.tests[current[0]].verbose ELSE verbose
            /\ PrintsAfter(BackendPrints(current[r]), r, ShowTestStart(current[r]))
            /\ UNCHANGED current
    /\ UNCHANGED <<parser, host, found>>

\* Who has no part in the test meets the others in the barrier behind it.
test_initialize(r) ==
    /\ At(r, "participate")
    /\ IF r >= numTasks(current[r])
       THEN /\ GoAfter(r, CallsOf(r), NextOf(r))
            /\ current' = [current EXCEPT ![r] = @ + 1]
            /\ UNCHANGED printed
       ELSE /\ GoAfter(r, << >>, "TestIoSys")
            /\ verbose' = IF r = 0 THEN queue.tests[current[0]].verbose ELSE verbose
            /\ PrintsAfter(BackendPrints(current[r]), r, ShowTestStart(current[r]))
            /\ UNCHANGED current
    /\ UNCHANGED <<parser, host, found>>

TestIoSys(r) ==
    /\ At(r, "TestIoSys")
    /\ Prints(r, ShowTest(current[r]))
    /\ GoAfter(r, << >>, "finalize")
    /\ UNCHANGED <<parser, host, current, found, verbose>>

test_finalize(r) ==
    /\ At(r, "finalize")
    /\ Prints(r, ShowTestEnd)
    /\ GoAfter(r, CallsOf(r), NextOf(r))
    /\ current' = [current EXCEPT ![r] = @ + 1]
    /\ UNCHANGED <<parser, host, found, verbose>>

\* The summary is always printed.
Finish(r) ==
    /\ At(r, "summary")
    /\ Prints(r, PrintLongSummaryAllTests \o PrintTestEnds)
    /\ GoAfter(r, << >>, "done")
    /\ UNCHANGED <<parser, host, current, found, verbose>>

Init ==
    /\ script \in Scripts /\ line = 1
    /\ \E api \in Apis :
          /\ queue = FirstTest(api)
          /\ written = [test |-> init_IOR_Param_t(api), module |-> [a \in Apis |-> 0]]
    /\ runflag = FALSE /\ wanted = << >>
    /\ host \in Hosts
    /\ at = [r \in Ranks |-> "script"]
    /\ ahead = [r \in Ranks |-> << >>]
    /\ calls = NoCalls
    /\ current = [r \in Ranks |-> 1]
    /\ numNodes = [r \in Ranks |-> 0]
    /\ numTasksOnNode0 = [r \in Ranks |-> 0]
    /\ tasksBlockMapping = [r \in Ranks |-> FALSE]
    /\ verbose = 0 /\ doc = << >> /\ needNextToken = FALSE

Done == \A r \in Ranks : at[r] = "done"
Terminating == Done /\ UNCHANGED vars

ParserNext == Comment \/ Run \/ ParseLine \/ ReadConfigScript

RankNext(r) ==
    \/ Collective(r) \/ GetNumNodes(r) \/ GetNumTasksOnNode0(r) \/ QueryNodeMapping(r)
    \/ Header(r) \/ test_initialize(r) \/ TestIoSys(r) \/ test_finalize(r) \/ Finish(r)

Next == ParserNext \/ (\E r \in Ranks : RankNext(r)) \/ Terminating

Spec == Init /\ [][Next]_vars
FairSpec == Spec /\ WF_vars(ParserNext) /\ \A r \in Ranks : WF_vars(RankNext(r))
-----------------------------------------------------------------------------
Parsed == at[0] # "script"

\* There is a test for each RUN, with the parameters that the script has given
\* before it, whichever way they are stored; and the last test has the options
\* of its backend.
OptionsAsWritten ==
    Parsed =>
        /\ queue.tests = [k \in DOMAIN wanted |-> CheckRunSettings(wanted[k].test)]
        /\ LET api == queue.tests[tail].api
           IN queue.structs[api][queue.backend_options[tail]] = wanted[tail].module[api]

\* Each test runs with the options of its backend that the script has given
\* before its RUN.
ModuleOptionsAsWritten ==
    Parsed =>
        \A k \in DOMAIN queue.tests :
            LET api == queue.tests[k].api
            IN queue.structs[api][queue.backend_options[k]] = wanted[k].module[api]

\* Every rank finds out the same about the nodes, and it is right.
NodesAgree ==
    \A r \in Ranks :
        at[r] \in {"header", "participate", "TestIoSys", "finalize", "summary", "done"} =>
            /\ numNodes[r] = Cardinality(Range(host))
            /\ numTasksOnNode0[r] = Cardinality(Node(0))
            /\ tasksBlockMapping[r] = (N > 1 => 1 \in Node(0))

\* Without -v, summaries in between and backends that print lines.
Quiet(k) ==
    /\ queue.tests[k].verbose = 0 /\ queue.tests[k].summary_every_test = 0
    /\ queue.tests[k].api \notin Talkative \cup NoStatfs

\* How many brackets are open after the first i tokens, and which token has
\* opened the innermost bracket around the i-th, 0 for none.
Depth(i) == Cardinality({j \in 1..i : Opens(doc[j])}) - Cardinality({j \in 1..i : Closes(doc[j])})
Around(i) == Max({0} \cup {j \in 1..(i - 1) : Opens(doc[j]) /\ Depth(j) = Depth(i - 1)})

WellFormed ==
    /\ Depth(Len(doc)) = 0
    /\ \A i \in DOMAIN doc :
          LET around == Around(i)
              bracket == IF around = 0 THEN "file" ELSE doc[around].token
          IN IF Closes(doc[i])
             THEN <<bracket, doc[i].token>> \in {<<"{", "}">>, <<"[", "]">>}
             ELSE /\ ~IsLine(doc[i]) /\ doc[i].named = (bracket = "{")
                  /\ doc[i].comma = (around # i - 1)

\* What the objects in the arrays of the document are about.
Told ==
    SelectSeq([i \in DOMAIN doc |-> IF Depth(i) = 3 THEN doc[i].about ELSE << >>],
              LAMBDA about : about # << >>)

\* When all are done there is one JSON document: its brackets, names and
\* commas are right, and in its arrays there is an object for each test, in order,
\* and a summary of each write and read.
OutputComplete ==
    Done /\ (\A k \in DOMAIN queue.tests : Quiet(k)) =>
        /\ WellFormed
        /\ Told = [k \in DOMAIN queue.tests |-> <<k>>]
                  \o FlattenSeq([k \in DOMAIN queue.tests |->
                        [i \in DOMAIN Operations(k) |-> <<k, Operations(k)[i]>>]])

\* instruction.md: with summaryFormat=JSON standard output is exactly one JSON
\* document, with several ranks and with -v as well, and no rank adds a
\* number, a banner or a line about who takes part.  It does not hold with -v, nor
\* with a backend that is Talkative or has NoStatfs.
OneDocument == Done => WellFormed

\* The program ends, whichever ranks have a part in which test.
Finishes == <>Done
=============================================================================
