----------------------------- MODULE SlimSession -----------------------------
(***************************************************************************)
(* A group of pages run by the Slim test system: the client side, which    *)
(* goes through the tables of each page and sends the instructions of a    *)
(* table as one batch, and the Slim server, which executes the batch and   *)
(* sends the results.                                                      *)
(*                                                                         *)
(* In the server two threads share the statement executor: the one that    *)
(* serves the connection (ListExecutor) and the single thread of           *)
(* StatementTimeoutExecutor that calls the fixtures.  When a call takes    *)
(* longer than the limit, the first gives up on it and goes on; the call   *)
(* itself goes on too, and what is submitted later waits behind it.        *)
(*                                                                         *)
(* The connection is in lockstep, one message each way.  The process may   *)
(* die at any moment: it crashes, or a stop request kills it.  Starting    *)
(* and releasing the process belong to MultipleTestsRunner.                *)
(***************************************************************************)
EXTENDS Naturals, Sequences

CONSTANTS
  N, K, TearDowns, SuiteTearDowns,   \* as in SuiteExecution
  Size,        \* the number of instructions of a table
  Timeouts     \* the server was started with a statement time limit

ASSUME PagesAssumption == N \in Nat /\ K \in Nat \ {0}
ASSUME TearDownAssumption ==
  TearDowns \subseteq (1..N) \X (1..K) /\ SuiteTearDowns \subseteq 1..N
ASSUME SizeAssumption == Size \in Nat \ {0}
ASSUME TimeoutsAssumption == Timeouts \in BOOLEAN

VARIABLES
  client,      \* where the test system is
  page, table, \* the table it is at
  stopTestCalled, stopSuiteCalled,
  outcome,     \* outcome[p][t]: what became of a table (history)
  request,     \* the message on its way to the server, or being executed
  replied, reply,  \* the answer on its way to the client
  server,      \* where the server's connection thread is
  results,     \* the results of the batch so far
  stopRequested,   \* of the statement executor
  calls,       \* the calls submitted to the fixture thread and not returned
  lastCall     \* the call that returned last (history)

clientVars == <<client, page, table, stopTestCalled, stopSuiteCalled, outcome>>
channelVars == <<request, replied, reply>>
serverVars == <<server, results, stopRequested, calls, lastCall>>
vars == <<clientVars, channelVars, serverVars>>

Stops == {"stopTest", "stopSuite"}
Returns == {"ok", "exception"} \cup Stops
Results == Returns \cup {"timedOut"}
TableOutcomes == {"none", "skipped", "bad", "ok"} \cup Stops
ClientStates == {"page", "table", "awaiting", "assigning", "bye", "stopped",
                 "failed"}
ServerStates == {"listen", "execute", "waiting", "finalize", "dead"}
Calls == (1..N) \X (1..K) \X (1..Size)

TypeOK ==
  /\ client \in ClientStates
  /\ page \in 1..(N + 1) /\ table \in 1..K
  /\ stopTestCalled \in BOOLEAN /\ stopSuiteCalled \in BOOLEAN
  /\ outcome \in [1..N -> [1..K -> TableOutcomes]]
  /\ request \in {"none", "table", "assign", "bye"}
  /\ replied \in BOOLEAN /\ reply \in Seq(Results)
  /\ server \in ServerStates
  /\ results \in Seq(Results) /\ Len(results) =< Size
  /\ stopRequested \in BOOLEAN
  /\ calls \in Seq(Calls)
  /\ lastCall \in Calls \cup {<<0, 0, 0>>}

Init ==
  /\ client = "page" /\ page = 1 /\ table = 1
  /\ stopTestCalled = FALSE /\ stopSuiteCalled = FALSE
  /\ outcome = [p \in 1..N |-> [t \in 1..K |-> "none"]]
  /\ request = "none" /\ replied = FALSE /\ reply = <<>>
  /\ server = "listen" /\ results = <<>> /\ stopRequested = FALSE
  /\ calls = <<>> /\ lastCall = <<0, 0, 0>>

-----------------------------------------------------------------------------
(* The client: SlimTestSystem and HtmlSlimTestSystem *)

\* initializeTest
StartPage ==
  /\ client = "page" /\ page =< N
  /\ client' = "table"
  /\ stopTestCalled' = FALSE
  /\ UNCHANGED <<page, table, stopSuiteCalled, outcome, channelVars, serverVars>>

Advance ==
  \/ table < K /\ table' = table + 1 /\ page' = page /\ client' = "table"
  \/ table = K /\ table' = 1 /\ page' = page + 1 /\ client' = "page"

\* processTable
Sends ==
  \/ ~stopTestCalled /\ ~stopSuiteCalled
  \/ stopTestCalled /\ <<page, table>> \in TearDowns
  \/ ~stopTestCalled /\ stopSuiteCalled /\ page \in SuiteTearDowns

SkipTable ==
  /\ client = "table" /\ ~Sends
  /\ outcome' = [outcome EXCEPT ![page][table] = "skipped"]
  /\ Advance
  /\ UNCHANGED <<stopTestCalled, stopSuiteCalled, channelVars, serverVars>>

\* A SyntaxError from getAssertions is reported in the table.
BadTable ==
  /\ client = "table"
  /\ outcome' = [outcome EXCEPT ![page][table] = "bad"]
  /\ Advance
  /\ UNCHANGED <<stopTestCalled, stopSuiteCalled, channelVars, serverVars>>

SendTable ==
  /\ client = "table" /\ Sends
  /\ request' = "table" /\ client' = "awaiting"
  /\ UNCHANGED <<page, table, stopTestCalled, stopSuiteCalled, outcome,
                 replied, reply, serverVars>>

Among(o) == \E i \in 1..Len(reply) : reply[i] = o

TableOutcome(o) ==
  \/ o = "stopSuite" /\ Among("stopSuite")
  \/ o = "stopTest" /\ Among("stopTest") /\ ~Among("stopSuite")
  \/ o = "ok" /\ ~Among("stopTest") /\ ~Among("stopSuite")

Consume == request' = "none" /\ replied' = FALSE /\ reply' = <<>>

SetFlags_SuiteOnly ==
  /\ stopTestCalled' = (stopTestCalled \/ Among("stopTest"))
  /\ stopSuiteCalled' = (stopSuiteCalled \/ Among("stopSuite"))

\* evaluateTables: the flags are set result by result, then what an expectation
\* wants to store is sent as a batch of assignments.
SetFlags ==
  /\ stopTestCalled' = (stopTestCalled \/ Among("stopTest") \/ Among("stopSuite"))
  /\ stopSuiteCalled' = (stopSuiteCalled \/ Among("stopSuite"))

RecordOutcome ==
  \E o \in {"ok"} \cup Stops :
    TableOutcome(o) /\ outcome' = [outcome EXCEPT ![page][table] = o]

Evaluate ==
  /\ client = "awaiting" /\ replied
  /\ SetFlags /\ RecordOutcome
  /\ Consume /\ Advance
  /\ UNCHANGED serverVars

EvaluateAndAssign ==
  /\ client = "awaiting" /\ replied /\ (Among("ok") \/ Len(reply) < Size)
  /\ SetFlags
  /\ request' = "assign" /\ replied' = FALSE /\ reply' = <<>>
  /\ client' = "assigning"
  /\ RecordOutcome
  /\ UNCHANGED <<page, table, serverVars>>

Assigned ==
  /\ client = "assigning" /\ replied
  /\ Consume /\ Advance
  /\ UNCHANGED <<stopTestCalled, stopSuiteCalled, outcome, serverVars>>

\* The connection is gone, or an expectation throws on the results: runTests
\* kills the server, announces that the test system stopped, and throws.
Fails ==
  /\ client \in {"awaiting", "assigning"} /\ (replied \/ server = "dead")
  /\ client' = "failed" /\ server' = "dead" /\ calls' = <<>>
  /\ UNCHANGED <<page, table, stopTestCalled, stopSuiteCalled, outcome,
                 channelVars, results, stopRequested, lastCall>>

SayBye ==
  /\ client = "page" /\ page > N
  /\ request' = "bye" /\ client' = "bye"
  /\ UNCHANGED <<page, table, stopTestCalled, stopSuiteCalled, outcome,
                 replied, reply, serverVars>>

\* join() waits two seconds for the process to end, then it is killed.
ByeEnds ==
  /\ client = "bye"
  /\ \/ client' = "stopped"
     \/ client' = "failed" /\ server = "dead"
  /\ server' = "dead" /\ calls' = <<>>
  /\ UNCHANGED <<page, table, stopTestCalled, stopSuiteCalled, outcome,
                 channelVars, results, stopRequested, lastCall>>

-----------------------------------------------------------------------------
(* The connection thread of the server: SlimServer and ListExecutor *)

Receive ==
  /\ server = "listen" /\ ~replied /\ request \in {"table", "assign"}
  /\ server' = "execute" /\ results' = <<>>
  /\ UNCHANGED <<clientVars, channelVars, stopRequested, calls, lastCall>>

ReceiveBye ==
  /\ server = "listen" /\ request = "bye"
  /\ server' = "dead" /\ calls' = <<>>
  /\ UNCHANGED <<clientVars, channelVars, results, stopRequested, lastCall>>

Submit_OneMore ==
  /\ server = "execute" /\ request = "table"
  /\ Len(results) =< Size /\ ~stopRequested
  /\ calls' = Append(calls, <<page, table, Len(results) + 1>>)
  /\ server' = "waiting"
  /\ UNCHANGED <<clientVars, channelVars, results, stopRequested, lastCall>>

Submit ==
  /\ server = "execute" /\ request = "table"
  /\ Len(results) < Size /\ ~stopRequested
  /\ calls' = Append(calls, <<page, table, Len(results) + 1>>)
  /\ server' = "waiting"
  /\ UNCHANGED <<clientVars, channelVars, results, stopRequested, lastCall>>

\* An assignment does not go through the fixture thread.
Assign ==
  /\ server = "execute" /\ request = "assign" /\ ~stopRequested
  /\ results' = <<"ok">> /\ server' = "finalize"
  /\ UNCHANGED <<clientVars, channelVars, stopRequested, calls, lastCall>>

BatchEnds ==
  /\ server = "execute" /\ (stopRequested \/ Len(results) = Size)
  /\ server' = "finalize"
  /\ UNCHANGED <<clientVars, channelVars, results, stopRequested, calls, lastCall>>

TimesOut_Never == FALSE /\ UNCHANGED vars

TimesOut ==
  /\ Timeouts /\ server = "waiting"
  /\ results' = Append(results, "timedOut") /\ server' = "execute"
  /\ UNCHANGED <<clientVars, channelVars, stopRequested, calls, lastCall>>

Finalize_NoReset ==
  /\ server = "finalize"
  /\ replied' = TRUE /\ reply' = results
  /\ server' = "listen" /\ results' = <<>>
  /\ UNCHANGED <<clientVars, request, stopRequested, calls, lastCall>>

\* finalizeExecution, and the results are sent.
Finalize ==
  /\ server = "finalize"
  /\ stopRequested' = FALSE
  /\ replied' = TRUE /\ reply' = results
  /\ server' = "listen" /\ results' = <<>>
  /\ UNCHANGED <<clientVars, request, calls, lastCall>>

-----------------------------------------------------------------------------
(* The fixture thread: StatementExecutor.call *)

Return(r) ==
  /\ stopRequested' = (stopRequested \/ r \in Stops)
  /\ \/ /\ server = "waiting" /\ Len(calls) = 1
        /\ results' = Append(results, r) /\ server' = "execute"
     \/ /\ ~(server = "waiting" /\ Len(calls) = 1)
        /\ UNCHANGED <<results, server>>
  /\ UNCHANGED <<clientVars, channelVars>>

\* A pool of threads in the place of the single one.
CallReturns_Any ==
  /\ calls # <<>>
  /\ \E i \in 1..Len(calls) :
       /\ lastCall' = calls[i]
       /\ calls' = SubSeq(calls, 1, i - 1) \o SubSeq(calls, i + 1, Len(calls))
  /\ \E r \in Returns : Return(r)

CallReturns ==
  /\ calls # <<>>
  /\ lastCall' = Head(calls) /\ calls' = Tail(calls)
  /\ \E r \in Returns : Return(r)

Dies ==
  /\ server # "dead" /\ server' = "dead" /\ calls' = <<>>
  /\ UNCHANGED <<clientVars, channelVars, results, stopRequested, lastCall>>

-----------------------------------------------------------------------------
ClientNext ==
  \/ StartPage \/ SkipTable \/ BadTable \/ SendTable \/ Evaluate
  \/ EvaluateAndAssign \/ Assigned \/ Fails \/ SayBye \/ ByeEnds

ConnectionNext ==
  Receive \/ ReceiveBye \/ Submit \/ Assign \/ BatchEnds \/ TimesOut \/ Finalize

Next == ClientNext \/ ConnectionNext \/ CallReturns \/ Dies

Spec == Init /\ [][Next]_vars

\* Both threads are scheduled and the time limit passes; a fixture need never
\* return.
Fairness == WF_vars(ClientNext) /\ WF_vars(ConnectionNext)

FairSpec == Spec /\ Fairness

-----------------------------------------------------------------------------
(* Properties *)

\* The documented treatment of the exceptions that stop a test or a suite is
\* what the two flags of the client achieve, whatever the server answers.
Recorded == page =< N /\ outcome[page][table] # "none"

Promise == INSTANCE SuiteExecution WITH
  page <- IF Recorded /\ table = K THEN page + 1 ELSE page,
  table <- IF ~Recorded THEN table ELSE IF table = K THEN 1 ELSE table + 1,
  broken <- client = "failed"

KeepsThePromise == Promise!Spec

\* The server leaves an instruction of a batch out only after an exception of
\* that same batch that stops the test, and says so in its answer; it never
\* leaves an assignment out.
SkippedOnlyAfterStop ==
  replied =>
    /\ request = "table" /\ Len(reply) < Size =>
         \E i \in 1..Len(reply) : reply[i] \in Stops
    /\ request = "assign" => reply # <<>>

Before(a, b) ==
  \/ a[1] < b[1]
  \/ a[1] = b[1] /\ a[2] < b[2]
  \/ a[1] = b[1] /\ a[2] = b[2] /\ a[3] < b[3]

\* Fixture calls take effect in the order of the page, each once, also when the
\* connection thread has given up on some of them.
FixturesInOrder == [][lastCall' # lastCall => Before(lastCall, lastCall')]_vars

\* With a statement time limit no fixture, however long it hangs, keeps the
\* session from its end.
SessionEnds == <>(client \in {"stopped", "failed"})

=============================================================================
