--------------------------- MODULE SuiteExecution ---------------------------
(***************************************************************************)
(* What the Slim test system promises about exceptions that stop a test or *)
(* a suite, stated over the outcomes of the tables and nothing else.       *)
(*                                                                         *)
(*   - Tables are taken page by page, in their order, each once.           *)
(*   - After an exception that stops the test, only the tear down tables   *)
(*     of that page are executed.                                          *)
(*   - After an exception that stops the suite, so it is on its page, and  *)
(*     of the later pages only a suite tear down page is executed.         *)
(*   - The execution may break off, when the connection fails.             *)
(*                                                                         *)
(* SlimSession, which decides with two flags, implements it.               *)
(***************************************************************************)
EXTENDS Naturals

CONSTANTS
  N,               \* number of pages
  K,               \* number of tables on each page
  TearDowns,       \* the tables <<p, t>> that are in the tear down of a page
  SuiteTearDowns   \* the pages that are a suite tear down

VARIABLES
  page, table,  \* the next table
  outcome,      \* outcome[p][t]
  broken        \* the execution broke off

Executed == {"ok", "stopTest", "stopSuite"}
TableOutcomes == {"none", "skipped", "bad"} \cup Executed

StoppedTest(p, t) ==
  \E u \in 1..(t - 1) : outcome[p][u] \in {"stopTest", "stopSuite"}
StoppedSuite(p) ==
  \E q \in 1..(p - 1) : \E u \in 1..K : outcome[q][u] = "stopSuite"

MustExecute(p, t) ==
  \/ StoppedTest(p, t) /\ <<p, t>> \in TearDowns
  \/ ~StoppedTest(p, t) /\ (StoppedSuite(p) => p \in SuiteTearDowns)

Init ==
  /\ page = 1 /\ table = 1
  /\ outcome = [p \in 1..N |-> [t \in 1..K |-> "none"]]
  /\ broken = FALSE

\* A table that is malformed is reported and not executed.
Take ==
  /\ page =< N /\ ~broken
  /\ \E o \in TableOutcomes \ {"none"} :
       /\ o \in Executed => MustExecute(page, table)
       /\ o = "skipped" => ~MustExecute(page, table)
       /\ outcome' = [outcome EXCEPT ![page][table] = o]
  /\ \/ table < K /\ table' = table + 1 /\ page' = page
     \/ table = K /\ table' = 1 /\ page' = page + 1
  /\ UNCHANGED broken

Break ==
  /\ ~broken /\ broken' = TRUE
  /\ UNCHANGED <<page, table, outcome>>

vars == <<page, table, outcome, broken>>

Next == Take \/ Break

Spec == Init /\ [][Next]_vars
=============================================================================
