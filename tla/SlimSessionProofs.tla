------------------------- MODULE SlimSessionProofs -------------------------
(***************************************************************************)
(* Proofs about SlimSession, for any number of pages, tables and           *)
(* instructions: that the session implements SuiteExecution, type          *)
(* correctness, what a server without a statement time limit leaves out,   *)
(* and the order in which the fixture calls return.                        *)
(***************************************************************************)
EXTENDS SlimSession, TLAPS

USE PagesAssumption, TearDownAssumption, SizeAssumption, TimeoutsAssumption

-----------------------------------------------------------------------------
(* The refinement.  The inductive invariant says what the two flags of the *)
(* client are: stopTestCalled, that a table of this page has stopped the   *)
(* test; stopSuiteCalled, that any table has stopped the suite; and that   *)
(* the tables after the current one have no outcome yet.                   *)

ClientTyped ==
  /\ client \in ClientStates
  /\ page \in 1..(N + 1) /\ table \in 1..K
  /\ stopTestCalled \in BOOLEAN /\ stopSuiteCalled \in BOOLEAN
  /\ outcome \in [1..N -> [1..K -> TableOutcomes]]

Fresh ==
  \A p \in 1..N : \A t \in 1..K :
    page < p \/ (page = p /\ table < t) => outcome[p][t] = "none"

AtTable ==
  client \in {"table", "awaiting"} => page =< N /\ outcome[page][table] = "none"

AtAssignment ==
  client = "assigning" => page =< N /\ outcome[page][table] # "none"

AtPage ==
  client = "page" => table = 1 /\ (page =< N => outcome[page][1] = "none")

TestFlag ==
  client \in {"table", "awaiting", "assigning"} =>
    (stopTestCalled <=> \E u \in 1..K : outcome[page][u] \in Stops)

SuiteFlag ==
  stopSuiteCalled <=>
    \E p \in 1..N : \E t \in 1..K : outcome[p][t] = "stopSuite"

OnlySent == client = "awaiting" => Sends

ClientInv ==
  /\ ClientTyped /\ Fresh /\ AtTable /\ AtAssignment /\ AtPage
  /\ TestFlag /\ SuiteFlag /\ OnlySent

\* What recording an outcome for the current table does.
Record(o) == outcome' = [outcome EXCEPT ![page][table] = o]

LEMMA RecordIs ==
  ASSUME ClientTyped, page =< N, NEW o \in TableOutcomes, Record(o)
  PROVE  /\ outcome' \in [1..N -> [1..K -> TableOutcomes]]
         /\ outcome'[page][table] = o
         /\ \A p \in 1..N : \A t \in 1..K :
              p # page \/ t # table => outcome'[p][t] = outcome[p][t]
<1>1. page \in 1..N /\ table \in 1..K
  BY DEF ClientTyped
<1>2. outcome \in [1..N -> [1..K -> TableOutcomes]]
  BY DEF ClientTyped
<1> QED
  BY <1>1, <1>2 DEF Record

\* Advance goes to a later table, or to the first table of the next page.
LEMMA AdvanceIs ==
  ASSUME ClientTyped, page =< N, Advance
  PROVE  /\ page' \in 1..(N + 1) /\ table' \in 1..K
         /\ client' \in {"table", "page"}
         /\ client' = "page" => table' = 1 /\ page' = page + 1
         /\ client' = "table" => page' = page /\ table' = table + 1
         /\ page' =< N => page < page' \/ (page = page' /\ table < table')
         /\ \A p \in 1..N : \A t \in 1..K :
              page' < p \/ (page' = p /\ table' < t) =>
                page < p \/ (page = p /\ table < t)
<1>1. page \in 1..N /\ table \in 1..K
  BY DEF ClientTyped
<1>2. CASE table < K /\ table' = table + 1 /\ page' = page /\ client' = "table"
  BY <1>1, <1>2
<1>3. CASE table = K /\ table' = 1 /\ page' = page + 1 /\ client' = "page"
  BY <1>1, <1>3
<1> QED
  BY <1>2, <1>3 DEF Advance

LEMMA InitClientInv == Init => ClientInv
<1> SUFFICES ASSUME Init PROVE ClientInv
  OBVIOUS
<1>1. ClientTyped
  <2>1. page \in 1..(N + 1) /\ table \in 1..K
    BY DEF Init
  <2>2. outcome \in [1..N -> [1..K -> TableOutcomes]]
    BY DEF Init, TableOutcomes
  <2> QED
    BY <2>1, <2>2 DEF Init, ClientTyped, ClientStates
<1>2. \A p \in 1..N : \A t \in 1..K : outcome[p][t] = "none"
  BY DEF Init
<1> QED
  BY <1>1, <1>2 DEF Init, ClientInv, Fresh, AtTable, AtAssignment, AtPage,
     TestFlag, SuiteFlag, OnlySent

\* Recording an outcome that does not stop anything leaves the flags true to
\* their meaning.
LEMMA QuietRecord ==
  ASSUME ClientInv, client = "table", NEW o \in {"skipped", "bad"}, Record(o),
         Advance, UNCHANGED <<stopTestCalled, stopSuiteCalled>>
  PROVE  ClientInv'
<1>1. ClientTyped /\ page =< N /\ page \in 1..N /\ table \in 1..K
  BY DEF ClientInv, AtTable, ClientTyped
<1>2. o \in TableOutcomes /\ o \notin Stops /\ o # "stopSuite"
  BY DEF TableOutcomes, Stops
<1>3. /\ outcome' \in [1..N -> [1..K -> TableOutcomes]]
      /\ outcome'[page][table] = o
      /\ \A p \in 1..N : \A t \in 1..K :
           p # page \/ t # table => outcome'[p][t] = outcome[p][t]
  BY <1>1, <1>2, RecordIs
<1>4. /\ page' \in 1..(N + 1) /\ table' \in 1..K
      /\ client' \in {"table", "page"}
      /\ client' = "page" => table' = 1 /\ page' = page + 1
      /\ client' = "table" => page' = page /\ table' = table + 1
      /\ page' =< N => page < page' \/ (page = page' /\ table < table')
      /\ \A p \in 1..N : \A t \in 1..K :
           page' < p \/ (page' = p /\ table' < t) =>
             page < p \/ (page = p /\ table < t)
  BY <1>1, AdvanceIs
<1>5. outcome[page][table] = "none"
  BY DEF ClientInv, AtTable
<1>6. ClientTyped'
  BY <1>3, <1>4 DEF ClientTyped, ClientStates, ClientInv
<1>7. Fresh'
  <2>1. \A p \in 1..N : \A t \in 1..K :
          page < p \/ (page = p /\ table < t) => outcome'[p][t] = outcome[p][t]
    BY <1>1, <1>3
  <2> QED
    BY <2>1, <1>4 DEF Fresh, ClientInv
<1>8. page' =< N => outcome'[page'][table'] = "none"
  <2>1. SUFFICES ASSUME page' =< N PROVE outcome'[page'][table'] = "none"
    OBVIOUS
  <2>2. page' \in 1..N /\ (page < page' \/ (page = page' /\ table < table'))
    BY <2>1, <1>4
  <2>3. outcome[page'][table'] = "none"
    BY <2>2, <1>4 DEF Fresh, ClientInv
  <2> QED
    BY <2>2, <2>3, <1>1, <1>3, <1>4
<1>9. AtTable' /\ AtPage' /\ AtAssignment' /\ OnlySent'
  BY <1>1, <1>4, <1>8 DEF AtTable, AtPage, AtAssignment, OnlySent
<1>10. \A p \in 1..N : \A t \in 1..K :
         /\ outcome'[p][t] \in Stops <=> outcome[p][t] \in Stops
         /\ outcome'[p][t] = "stopSuite" <=> outcome[p][t] = "stopSuite"
  <2> SUFFICES ASSUME NEW p \in 1..N, NEW t \in 1..K
               PROVE  /\ outcome'[p][t] \in Stops <=> outcome[p][t] \in Stops
                      /\ outcome'[p][t] = "stopSuite" <=> outcome[p][t] = "stopSuite"
    OBVIOUS
  <2>1. CASE p = page /\ t = table
    BY <2>1, <1>2, <1>3, <1>5 DEF Stops
  <2>2. CASE p # page \/ t # table
    BY <2>2, <1>3
  <2> QED
    BY <2>1, <2>2
<1>11. SuiteFlag'
  BY <1>10 DEF SuiteFlag, ClientInv
<1>12. TestFlag'
  <2>1. SUFFICES ASSUME client' = "table"
                 PROVE  stopTestCalled' <=> \E u \in 1..K : outcome'[page'][u] \in Stops
    BY <1>4 DEF TestFlag
  <2>2. stopTestCalled <=> \E u \in 1..K : outcome[page][u] \in Stops
    BY DEF TestFlag, ClientInv
  <2> QED
    BY <2>1, <2>2, <1>1, <1>4, <1>10
<1> QED
  BY <1>6, <1>7, <1>9, <1>11, <1>12 DEF ClientInv

\* The outcome of a table that was executed is the strongest stop among its
\* results, which is what the flags are set from.
LEMMA ExecutedRecord ==
  ASSUME ClientInv, client = "awaiting", NEW o \in {"ok"} \cup Stops,
         TableOutcome(o), Record(o), SetFlags
  PROVE  /\ outcome' \in [1..N -> [1..K -> TableOutcomes]]
         /\ outcome'[page][table] = o
         /\ \A p \in 1..N : \A t \in 1..K :
              p # page \/ t # table => outcome'[p][t] = outcome[p][t]
         /\ stopTestCalled' \in BOOLEAN /\ stopSuiteCalled' \in BOOLEAN
         /\ stopTestCalled' <=> \E u \in 1..K : outcome'[page][u] \in Stops
         /\ SuiteFlag'
<1>1. ClientTyped /\ page =< N /\ page \in 1..N /\ table \in 1..K
  BY DEF ClientInv, AtTable, ClientTyped
<1>2. o \in TableOutcomes
  BY DEF TableOutcomes, Stops
<1>3. /\ outcome' \in [1..N -> [1..K -> TableOutcomes]]
      /\ outcome'[page][table] = o
      /\ \A p \in 1..N : \A t \in 1..K :
           p # page \/ t # table => outcome'[p][t] = outcome[p][t]
  BY <1>1, <1>2, RecordIs
<1>4. outcome[page][table] = "none"
  BY DEF ClientInv, AtTable
<1>5. stopTestCalled \in BOOLEAN /\ stopSuiteCalled \in BOOLEAN
  BY DEF ClientInv, ClientTyped
<1>6. stopTestCalled' <=> stopTestCalled \/ o \in Stops
  BY DEF SetFlags, TableOutcome, Stops
<1>7. stopSuiteCalled' <=> stopSuiteCalled \/ o = "stopSuite"
  BY DEF SetFlags, TableOutcome, Stops
<1>8. stopTestCalled' \in BOOLEAN /\ stopSuiteCalled' \in BOOLEAN
  BY <1>5 DEF SetFlags, Among
<1>9. stopTestCalled' <=> \E u \in 1..K : outcome'[page][u] \in Stops
  <2>1. stopTestCalled <=> \E u \in 1..K : outcome[page][u] \in Stops
    BY DEF TestFlag, ClientInv
  <2>2. outcome[page][table] \notin Stops
    BY <1>4 DEF Stops
  <2> QED
    BY <2>1, <2>2, <1>1, <1>3, <1>6
<1>10. SuiteFlag'
  <2>1. stopSuiteCalled <=> \E p \in 1..N : \E t \in 1..K : outcome[p][t] = "stopSuite"
    BY DEF SuiteFlag, ClientInv
  <2> QED
    BY <2>1, <1>1, <1>3, <1>4, <1>7 DEF SuiteFlag
<1> QED
  BY <1>3, <1>8, <1>9, <1>10

LEMMA EvaluateInv ==
  ASSUME ClientInv, Evaluate
  PROVE  ClientInv'
<1>1. client = "awaiting" /\ SetFlags /\ Advance
  BY DEF Evaluate
<1>2. PICK o \in {"ok"} \cup Stops : TableOutcome(o) /\ Record(o)
  BY DEF Evaluate, RecordOutcome, Record
<1>3. ClientTyped /\ page =< N /\ page \in 1..N /\ table \in 1..K
  BY <1>1 DEF ClientInv, AtTable, ClientTyped
<1>4. /\ outcome' \in [1..N -> [1..K -> TableOutcomes]]
      /\ outcome'[page][table] = o
      /\ \A p \in 1..N : \A t \in 1..K :
           p # page \/ t # table => outcome'[p][t] = outcome[p][t]
      /\ stopTestCalled' \in BOOLEAN /\ stopSuiteCalled' \in BOOLEAN
      /\ stopTestCalled' <=> \E u \in 1..K : outcome'[page][u] \in Stops
      /\ SuiteFlag'
  BY <1>1, <1>2, ExecutedRecord
<1>5. /\ page' \in 1..(N + 1) /\ table' \in 1..K
      /\ client' \in {"table", "page"}
      /\ client' = "page" => table' = 1 /\ page' = page + 1
      /\ client' = "table" => page' = page /\ table' = table + 1
      /\ page' =< N => page < page' \/ (page = page' /\ table < table')
      /\ \A p \in 1..N : \A t \in 1..K :
           page' < p \/ (page' = p /\ table' < t) =>
             page < p \/ (page = p /\ table < t)
  BY <1>1, <1>3, AdvanceIs
<1>6. ClientTyped'
  BY <1>4, <1>5 DEF ClientTyped, ClientStates
<1>7. Fresh'
  <2>1. \A p \in 1..N : \A t \in 1..K :
          page < p \/ (page = p /\ table < t) => outcome'[p][t] = outcome[p][t]
    BY <1>3, <1>4
  <2> QED
    BY <2>1, <1>5 DEF Fresh, ClientInv
<1>8. page' =< N => outcome'[page'][table'] = "none"
  <2>1. SUFFICES ASSUME page' =< N PROVE outcome'[page'][table'] = "none"
    OBVIOUS
  <2>2. page' \in 1..N /\ (page < page' \/ (page = page' /\ table < table'))
    BY <2>1, <1>5
  <2>3. outcome[page'][table'] = "none"
    BY <2>2, <1>5 DEF Fresh, ClientInv
  <2> QED
    BY <2>2, <2>3, <1>3, <1>4, <1>5
<1>9. AtTable' /\ AtPage' /\ AtAssignment' /\ OnlySent'
  BY <1>3, <1>5, <1>8 DEF AtTable, AtPage, AtAssignment, OnlySent
<1>10. TestFlag'
  BY <1>4, <1>5 DEF TestFlag
<1> QED
  BY <1>4, <1>6, <1>7, <1>9, <1>10 DEF ClientInv

LEMMA EvaluateAndAssignInv ==
  ASSUME ClientInv, EvaluateAndAssign
  PROVE  ClientInv'
<1>1. client = "awaiting" /\ SetFlags /\ client' = "assigning" /\ page' = page /\ table' = table
  BY DEF EvaluateAndAssign
<1>2. PICK o \in {"ok"} \cup Stops : TableOutcome(o) /\ Record(o)
  BY DEF EvaluateAndAssign, RecordOutcome, Record
<1>3. ClientTyped /\ page =< N /\ page \in 1..N /\ table \in 1..K
  BY <1>1 DEF ClientInv, AtTable, ClientTyped
<1>4. /\ outcome' \in [1..N -> [1..K -> TableOutcomes]]
      /\ outcome'[page][table] = o
      /\ \A p \in 1..N : \A t \in 1..K :
           p # page \/ t # table => outcome'[p][t] = outcome[p][t]
      /\ stopTestCalled' \in BOOLEAN /\ stopSuiteCalled' \in BOOLEAN
      /\ stopTestCalled' <=> \E u \in 1..K : outcome'[page][u] \in Stops
      /\ SuiteFlag'
  BY <1>1, <1>2, ExecutedRecord
<1>5. ClientTyped'
  BY <1>1, <1>3, <1>4 DEF ClientTyped, ClientStates
<1>6. Fresh'
  BY <1>1, <1>3, <1>4 DEF Fresh, ClientInv
<1>7. o # "none"
  BY DEF Stops
<1>8. AtTable' /\ AtPage' /\ AtAssignment' /\ OnlySent'
  BY <1>1, <1>3, <1>4, <1>7 DEF AtTable, AtPage, AtAssignment, OnlySent
<1>9. TestFlag'
  BY <1>1, <1>4 DEF TestFlag
<1> QED
  BY <1>4, <1>5, <1>6, <1>8, <1>9 DEF ClientInv

LEMMA AssignedInv ==
  ASSUME ClientInv, Assigned
  PROVE  ClientInv'
<1>1. /\ client = "assigning" /\ Advance
      /\ UNCHANGED <<stopTestCalled, stopSuiteCalled, outcome>>
  BY DEF Assigned
<1>2. ClientTyped /\ page =< N /\ page \in 1..N /\ table \in 1..K
  BY <1>1 DEF ClientInv, AtAssignment, ClientTyped
<1>3. /\ page' \in 1..(N + 1) /\ table' \in 1..K
      /\ client' \in {"table", "page"}
      /\ client' = "page" => table' = 1 /\ page' = page + 1
      /\ client' = "table" => page' = page /\ table' = table + 1
      /\ page' =< N => page < page' \/ (page = page' /\ table < table')
      /\ \A p \in 1..N : \A t \in 1..K :
           page' < p \/ (page' = p /\ table' < t) =>
             page < p \/ (page = p /\ table < t)
  BY <1>1, <1>2, AdvanceIs
<1>4. ClientTyped'
  BY <1>1, <1>2, <1>3 DEF ClientTyped, ClientStates
<1>5. Fresh'
  BY <1>1, <1>3 DEF Fresh, ClientInv
<1>6. page' =< N => outcome'[page'][table'] = "none"
  BY <1>1, <1>3 DEF Fresh, ClientInv
<1>7. AtTable' /\ AtPage' /\ AtAssignment' /\ OnlySent'
  BY <1>2, <1>3, <1>6 DEF AtTable, AtPage, AtAssignment, OnlySent
<1>8. TestFlag' /\ SuiteFlag'
  BY <1>1, <1>3 DEF TestFlag, SuiteFlag, ClientInv
<1> QED
  BY <1>4, <1>5, <1>7, <1>8 DEF ClientInv

LEMMA StartPageInv ==
  ASSUME ClientInv, StartPage
  PROVE  ClientInv'
<1>1. /\ client = "page" /\ page =< N /\ client' = "table" /\ stopTestCalled' = FALSE
      /\ UNCHANGED <<page, table, stopSuiteCalled, outcome>>
  BY DEF StartPage
<1>2. page \in 1..N /\ table = 1 /\ outcome[page][1] = "none"
  BY <1>1 DEF ClientInv, ClientTyped, AtPage
<1>3. ClientTyped'
  BY <1>1 DEF ClientInv, ClientTyped, ClientStates
<1>4. \A u \in 1..K : outcome[page][u] = "none"
  BY <1>2 DEF ClientInv, Fresh
<1>5. TestFlag'
  BY <1>1, <1>4 DEF TestFlag, Stops
<1>6. Fresh' /\ SuiteFlag'
  BY <1>1 DEF ClientInv, Fresh, SuiteFlag
<1>7. AtTable' /\ AtPage' /\ AtAssignment' /\ OnlySent'
  BY <1>1, <1>2 DEF AtTable, AtPage, AtAssignment, OnlySent
<1> QED
  BY <1>3, <1>5, <1>6, <1>7 DEF ClientInv

\* The steps of the client that only change where it is.
LEMMA MoveInv ==
  ASSUME ClientInv, SendTable \/ Fails \/ SayBye \/ ByeEnds
  PROVE  ClientInv'
<1>1. /\ UNCHANGED <<page, table, stopTestCalled, stopSuiteCalled, outcome>>
      /\ \/ client = "table" /\ client' = "awaiting" /\ Sends
         \/ client' \in {"failed", "bye", "stopped"}
  BY DEF SendTable, Fails, SayBye, ByeEnds
<1>2. ClientTyped'
  BY <1>1 DEF ClientInv, ClientTyped, ClientStates
<1>3. Fresh' /\ SuiteFlag'
  BY <1>1 DEF ClientInv, Fresh, SuiteFlag
<1>4. AtTable' /\ AtPage' /\ AtAssignment'
  BY <1>1 DEF ClientInv, AtTable, AtPage, AtAssignment
<1>5. TestFlag'
  BY <1>1 DEF ClientInv, TestFlag
<1>6. OnlySent'
  BY <1>1 DEF OnlySent, Sends
<1> QED
  BY <1>2, <1>3, <1>4, <1>5, <1>6 DEF ClientInv

LEMMA StutterInv ==
  ASSUME ClientInv, UNCHANGED clientVars
  PROVE  ClientInv'
<1>1. UNCHANGED <<client, page, table, stopTestCalled, stopSuiteCalled, outcome>>
  BY DEF clientVars
<1>2. ClientTyped' /\ Fresh' /\ SuiteFlag' /\ TestFlag'
  BY <1>1 DEF ClientInv, ClientTyped, Fresh, SuiteFlag, TestFlag
<1>3. AtTable' /\ AtPage' /\ AtAssignment' /\ OnlySent'
  BY <1>1 DEF ClientInv, AtTable, AtPage, AtAssignment, OnlySent, Sends
<1> QED
  BY <1>2, <1>3 DEF ClientInv

\* Whatever the server and the fixtures do, the client stays where it is.
LEMMA ServerStep ==
  ConnectionNext \/ CallReturns \/ Dies => UNCHANGED clientVars
BY DEF ConnectionNext, Receive, ReceiveBye, Submit, Assign, BatchEnds, TimesOut,
   Finalize, CallReturns, Return, Dies

LEMMA NextClientInv ==
  ASSUME ClientInv, [Next]_vars
  PROVE  ClientInv'
<1>1. CASE StartPage
  BY <1>1, StartPageInv
<1>2. CASE SkipTable
  BY <1>2, QuietRecord DEF SkipTable, Record
<1>3. CASE BadTable
  BY <1>3, QuietRecord DEF BadTable, Record
<1>4. CASE SendTable \/ Fails \/ SayBye \/ ByeEnds
  BY <1>4, MoveInv
<1>5. CASE Evaluate
  BY <1>5, EvaluateInv
<1>6. CASE EvaluateAndAssign
  BY <1>6, EvaluateAndAssignInv
<1>7. CASE Assigned
  BY <1>7, AssignedInv
<1>8. CASE ConnectionNext \/ CallReturns \/ Dies
  BY <1>8, ServerStep, StutterInv
<1>9. CASE UNCHANGED vars
  BY <1>9, StutterInv DEF vars
<1> QED
  BY <1>1, <1>2, <1>3, <1>4, <1>5, <1>6, <1>7, <1>8, <1>9 DEF Next, ClientNext

-----------------------------------------------------------------------------
(* Each step of the session is a step of SuiteExecution or a stutter. *)

\* What the flags decide is what the promise asks for.
LEMMA SendsWhatItMust ==
  ASSUME ClientInv, client \in {"table", "awaiting"}
  PROVE  Sends <=> Promise!MustExecute(page, table)
<1>1. page \in 1..N /\ table \in 1..K /\ outcome[page][table] = "none"
  BY DEF ClientInv, ClientTyped, AtTable
<1>2. stopTestCalled <=> Promise!StoppedTest(page, table)
  <2>1. \A u \in 1..K : outcome[page][u] \in Stops => u \in 1..(table - 1)
    BY <1>1 DEF ClientInv, Fresh, Stops
  <2>2. 1..(table - 1) \subseteq 1..K
    BY <1>1
  <2> QED
    BY <2>1, <2>2 DEF ClientInv, TestFlag, Promise!StoppedTest, Stops
<1>3. ~stopTestCalled => (stopSuiteCalled <=> Promise!StoppedSuite(page))
  <2>1. SUFFICES ASSUME ~stopTestCalled
                 PROVE  stopSuiteCalled <=> Promise!StoppedSuite(page)
    OBVIOUS
  <2>2. \A u \in 1..K : outcome[page][u] # "stopSuite"
    BY <2>1 DEF ClientInv, TestFlag, Stops
  <2>3. \A p \in 1..N : \A t \in 1..K : outcome[p][t] = "stopSuite" => p \in 1..(page - 1)
    BY <2>2, <1>1 DEF ClientInv, Fresh
  <2>4. 1..(page - 1) \subseteq 1..N
    BY <1>1
  <2> QED
    BY <2>3, <2>4 DEF ClientInv, SuiteFlag, Promise!StoppedSuite
<1> QED
  BY <1>2, <1>3 DEF Sends, Promise!MustExecute

\* Recording the outcome of the current table, with or without moving on, is the
\* promise's Take.
LEMMA RecordTakes ==
  ASSUME ClientInv, ClientInv', client \in {"table", "awaiting"},
         client' \in {"table", "page", "assigning"},
         NEW o \in TableOutcomes \ {"none"}, Record(o),
         o \in {"ok"} \cup Stops => Sends,
         o = "skipped" => ~Sends,
         Advance \/ (client' = "assigning" /\ UNCHANGED <<page, table>>)
  PROVE  Promise!Take
<1>1. page \in 1..N /\ table \in 1..K /\ outcome[page][table] = "none"
  BY DEF ClientInv, ClientTyped, AtTable
<1>2. ~Recorded
  BY <1>1 DEF Recorded
<1>3. Sends <=> Promise!MustExecute(page, table)
  BY SendsWhatItMust
<1>4. client # "failed" /\ client' # "failed"
  OBVIOUS
<1>5. o \in Promise!TableOutcomes \ {"none"}
  BY DEF TableOutcomes, Promise!TableOutcomes, Promise!Executed, Stops
<1>6. o \in Promise!Executed => Promise!MustExecute(page, table)
  BY <1>3 DEF Promise!Executed, Stops
<1> DEFINE mp == IF Recorded /\ table = K THEN page + 1 ELSE page
           mt == IF ~Recorded THEN table ELSE IF table = K THEN 1 ELSE table + 1
<1>a. mp = page /\ mt = table
  BY <1>2
<1>b. ASSUME \/ mt < K /\ mt' = mt + 1 /\ mp' = mp
             \/ mt = K /\ mt' = 1 /\ mp' = mp + 1
      PROVE  Promise!Take
  <2>1. mp =< N
    BY <1>1, <1>a
  <2>2. (client' = "failed") = (client = "failed")
    BY <1>4
  <2>3. outcome' = [outcome EXCEPT ![mp][mt] = o]
    BY <1>a DEF Record
  <2>4. o = "skipped" => ~Promise!MustExecute(page, table)
    BY <1>3
  <2>5. \E q \in Promise!TableOutcomes \ {"none"} :
          /\ q \in Promise!Executed => Promise!MustExecute(mp, mt)
          /\ q = "skipped" => ~Promise!MustExecute(mp, mt)
          /\ outcome' = [outcome EXCEPT ![mp][mt] = q]
    BY <1>5, <1>6, <1>a, <2>3, <2>4
  <2> QED
    BY <1>4, <1>b, <2>1, <2>2, <2>5 DEF Promise!Take
<1>7. CASE Advance
  <2>1. client' \in {"table", "page"}
    BY <1>7 DEF Advance
  <2>2. ~Recorded'
    BY <2>1 DEF Recorded, ClientInv, AtTable, AtPage
  <2>3. \/ table < K /\ table' = table + 1 /\ page' = page
        \/ table = K /\ table' = 1 /\ page' = page + 1
    BY <1>7 DEF Advance
  <2>4. mp' = page' /\ mt' = table'
    BY <2>2
  <2> QED
    BY <1>a, <1>b, <2>3, <2>4
<1>8. CASE client' = "assigning" /\ UNCHANGED <<page, table>>
  <2>1. Recorded'
    BY <1>8 DEF Recorded, ClientInv, AtAssignment
  <2>2. table < K \/ table = K
    BY <1>1
  <2>3. \/ mt < K /\ mt' = mt + 1 /\ mp' = mp
        \/ mt = K /\ mt' = 1 /\ mp' = mp + 1
    BY <1>8, <1>a, <2>1, <2>2
  <2> QED
    BY <1>b, <2>3
<1> QED
  BY <1>7, <1>8

LEMMA EvaluateTakes ==
  ASSUME ClientInv, ClientInv', Evaluate \/ EvaluateAndAssign
  PROVE  Promise!Take
<1>1. client = "awaiting" /\ Sends
  BY DEF Evaluate, EvaluateAndAssign, ClientInv, OnlySent
<1>2. PICK o \in {"ok"} \cup Stops : Record(o)
  BY DEF Evaluate, EvaluateAndAssign, RecordOutcome, Record
<1>3. o \in TableOutcomes \ {"none"} /\ o # "skipped"
  BY DEF TableOutcomes, Stops
<1>4. Advance \/ (client' = "assigning" /\ UNCHANGED <<page, table>>)
  BY DEF Evaluate, EvaluateAndAssign
<1>5. client' \in {"table", "page", "assigning"}
  BY <1>4 DEF Advance
<1> QED
  BY <1>1, <1>2, <1>3, <1>4, <1>5, RecordTakes

LEMMA QuietTakes ==
  ASSUME ClientInv, ClientInv', SkipTable \/ BadTable
  PROVE  Promise!Take
<1>1. PICK o \in {"skipped", "bad"} : Record(o) /\ (o = "skipped" => ~Sends)
  BY DEF SkipTable, BadTable, Record
<1>2. o \in TableOutcomes \ {"none"} /\ o \notin {"ok"} \cup Stops
  BY DEF TableOutcomes, Stops
<1>3. client = "table" /\ Advance
  BY DEF SkipTable, BadTable
<1>4. client' \in {"table", "page", "assigning"}
  BY <1>3 DEF Advance
<1> QED
  BY <1>1, <1>2, <1>3, <1>4, RecordTakes

\* After the assignments the client moves on from a table already recorded.
LEMMA AssignedStutters ==
  ASSUME ClientInv, ClientInv', Assigned
  PROVE  UNCHANGED Promise!vars
<1>1. Recorded /\ page \in 1..N /\ table \in 1..K
  BY DEF Assigned, ClientInv, ClientTyped, AtAssignment, Recorded
<1>2. client' \in {"table", "page"}
  BY DEF Assigned, Advance
<1>3. ~Recorded'
  BY <1>2 DEF Recorded, ClientInv, AtTable, AtPage
<1>4. \/ table < K /\ table' = table + 1 /\ page' = page
      \/ table = K /\ table' = 1 /\ page' = page + 1
  BY DEF Assigned, Advance
<1>5. outcome' = outcome /\ client # "failed" /\ client' # "failed"
  BY <1>2 DEF Assigned
<1> QED
  BY <1>1, <1>3, <1>4, <1>5 DEF Promise!vars

LEMMA MoveRefines ==
  ASSUME ClientInv, StartPage \/ SendTable \/ Fails \/ SayBye \/ ByeEnds
  PROVE  Promise!Break \/ UNCHANGED Promise!vars
<1>1. UNCHANGED <<page, table, outcome>> /\ client # "failed"
  BY DEF StartPage, SendTable, Fails, SayBye, ByeEnds
<1>2. Recorded' = Recorded
  BY <1>1 DEF Recorded
<1>3. CASE client' = "failed"
  BY <1>1, <1>2, <1>3 DEF Promise!Break
<1>4. CASE client' # "failed"
  BY <1>1, <1>2, <1>4 DEF Promise!vars
<1> QED
  BY <1>3, <1>4

LEMMA StutterRefines ==
  ASSUME UNCHANGED clientVars
  PROVE  UNCHANGED Promise!vars
BY DEF clientVars, Promise!vars, Recorded

LEMMA StepRefines ==
  ASSUME ClientInv, ClientInv', [Next]_vars
  PROVE  [Promise!Next]_(Promise!vars)
<1>1. CASE SkipTable \/ BadTable
  BY <1>1, QuietTakes DEF Promise!Next
<1>2. CASE Evaluate \/ EvaluateAndAssign
  BY <1>2, EvaluateTakes DEF Promise!Next
<1>3. CASE Assigned
  BY <1>3, AssignedStutters
<1>4. CASE StartPage \/ SendTable \/ Fails \/ SayBye \/ ByeEnds
  BY <1>4, MoveRefines DEF Promise!Next
<1>5. CASE ConnectionNext \/ CallReturns \/ Dies
  BY <1>5, ServerStep, StutterRefines
<1>6. CASE UNCHANGED vars
  BY <1>6, StutterRefines DEF vars
<1> QED
  BY <1>1, <1>2, <1>3, <1>4, <1>5, <1>6 DEF Next, ClientNext

LEMMA InitRefines == Init => Promise!Init
<1> SUFFICES ASSUME Init PROVE Promise!Init
  OBVIOUS
<1>1. page =< N => outcome[page][table] = "none"
  BY DEF Init
<1>2. ~Recorded
  BY <1>1 DEF Recorded
<1> QED
  BY <1>2 DEF Init, Promise!Init

\* The flags of the client achieve the documented treatment of the exceptions
\* that stop a test or a suite, for any number of pages and tables and whatever
\* the server answers.
THEOREM KeepsItsPromise == Spec => KeepsThePromise
<1>1. Init => ClientInv
  BY InitClientInv
<1>2. ClientInv /\ [Next]_vars => ClientInv'
  BY NextClientInv
<1>3. Init => Promise!Init
  BY InitRefines
<1>4. ClientInv /\ ClientInv' /\ [Next]_vars => [Promise!Next]_(Promise!vars)
  BY StepRefines
<1> QED
  BY <1>1, <1>2, <1>3, <1>4, PTL DEF Spec, KeepsThePromise, Promise!Spec

-----------------------------------------------------------------------------
(* Type correctness.  That a batch never has more results than             *)
(* instructions needs Room: a call that is waited for has a place left.    *)

ServerTyped ==
  /\ request \in {"none", "table", "assign", "bye"}
  /\ replied \in BOOLEAN /\ reply \in Seq(Results)
  /\ server \in ServerStates
  /\ results \in Seq(Results) /\ Len(results) =< Size
  /\ stopRequested \in BOOLEAN
  /\ calls \in Seq(Calls)
  /\ lastCall \in Calls \cup {<<0, 0, 0>>}

Executing == server \in {"execute", "waiting", "finalize"}

Room == server = "waiting" => Len(results) < Size

\* The connection is in lockstep: the server executes what the client waits for.
Lockstep ==
  /\ client \in {"page", "table"} => request = "none" /\ ~replied
  /\ client = "awaiting" => request = "table"
  /\ client = "assigning" => request = "assign"
  /\ client = "bye" => request = "bye"
  /\ client \in {"failed", "stopped"} => server = "dead"
  /\ Executing => client \in {"awaiting", "assigning"} /\ ~replied

SessionInv == ClientInv /\ ServerTyped /\ Room /\ Lockstep

LEMMA InitSessionInv == Init => SessionInv
<1> SUFFICES ASSUME Init PROVE SessionInv
  OBVIOUS
<1>1. ClientInv
  BY InitClientInv
<1>2. ServerTyped
  <2>1. <<>> \in Seq(Results) /\ <<>> \in Seq(Calls) /\ Len(<<>>) =< Size
    OBVIOUS
  <2> QED
    BY <2>1 DEF Init, ServerTyped, ServerStates
<1>3. Room /\ Lockstep
  BY DEF Init, Room, Lockstep, Executing
<1> QED
  BY <1>1, <1>2, <1>3 DEF SessionInv

LEMMA ClientKeepsServerTyped ==
  ASSUME SessionInv, ClientNext
  PROVE  ServerTyped' /\ Room' /\ Lockstep'
<1>1. ServerTyped /\ Room /\ Lockstep
  BY DEF SessionInv
<1>2. <<>> \in Seq(Results) /\ <<>> \in Seq(Calls)
  OBVIOUS
<1>3. CASE StartPage
  BY <1>1, <1>3 DEF StartPage, channelVars, serverVars, ServerTyped, Room, Lockstep, Executing
<1>4. CASE SkipTable \/ BadTable
  <2>1. UNCHANGED <<channelVars, serverVars>> /\ client = "table" /\ client' \in {"table", "page"}
    BY <1>4 DEF SkipTable, BadTable, Advance
  <2> QED
    BY <1>1, <2>1 DEF channelVars, serverVars, ServerTyped, Room, Lockstep, Executing
<1>5. CASE SendTable
  BY <1>1, <1>5 DEF SendTable, serverVars, ServerTyped, Room, Lockstep, Executing
<1>6. CASE Evaluate \/ Assigned
  <2>1. Consume /\ UNCHANGED serverVars /\ client' \in {"table", "page"} /\ replied
    BY <1>6 DEF Evaluate, Assigned, Advance
  <2> QED
    BY <1>1, <1>2, <2>1 DEF Consume, serverVars, ServerTyped, Room, Lockstep, Executing
<1>7. CASE EvaluateAndAssign
  <2>1. /\ request' = "assign" /\ replied' = FALSE /\ reply' = <<>> /\ replied
        /\ client' = "assigning" /\ UNCHANGED serverVars
    BY <1>7 DEF EvaluateAndAssign
  <2> QED
    BY <1>1, <1>2, <2>1 DEF serverVars, ServerTyped, Room, Lockstep, Executing
<1>8. CASE Fails \/ ByeEnds
  <2>1. /\ UNCHANGED <<channelVars, results, stopRequested, lastCall>>
        /\ server' = "dead" /\ calls' = <<>> /\ client' \in {"failed", "stopped"}
    BY <1>8 DEF Fails, ByeEnds
  <2> QED
    BY <1>1, <1>2, <2>1 DEF channelVars, ServerTyped, ServerStates, Room, Lockstep, Executing
<1>9. CASE SayBye
  BY <1>1, <1>9 DEF SayBye, serverVars, ServerTyped, Room, Lockstep, Executing
<1> QED
  BY <1>3, <1>4, <1>5, <1>6, <1>7, <1>8, <1>9 DEF ClientNext

LEMMA ServerKeepsTyped ==
  ASSUME SessionInv, ConnectionNext \/ CallReturns \/ Dies
  PROVE  ServerTyped' /\ Room' /\ Lockstep'
<1>1. ServerTyped /\ Room /\ Lockstep
  BY DEF SessionInv
<1>2. <<>> \in Seq(Results) /\ <<>> \in Seq(Calls)
  OBVIOUS
<1>3. UNCHANGED clientVars
  BY ServerStep
<1>4. Size \in Nat /\ Size > 0
  OBVIOUS
<1>5. \A r \in Results : /\ Append(results, r) \in Seq(Results)
                         /\ Len(Append(results, r)) = Len(results) + 1
  BY <1>1 DEF ServerTyped
<1>6. CASE Receive
  <2>1. client \in {"awaiting", "assigning"}
    BY <1>6, <1>1 DEF Receive, Lockstep, SessionInv, ClientInv, ClientTyped, ClientStates
  <2>2. /\ server' = "execute" /\ results' = <<>> /\ ~replied
        /\ UNCHANGED <<client, request, replied, reply, stopRequested, calls, lastCall>>
    BY <1>6 DEF Receive, clientVars, channelVars
  <2>3. ServerTyped'
    BY <1>1, <1>2, <1>4, <2>2 DEF ServerTyped, ServerStates
  <2> QED
    BY <1>1, <2>1, <2>2, <2>3 DEF Room, Lockstep, Executing
<1>7. CASE ReceiveBye \/ Dies
  <2>1. /\ server' = "dead" /\ calls' = <<>>
        /\ UNCHANGED <<client, request, replied, reply, results, stopRequested, lastCall>>
    BY <1>7 DEF ReceiveBye, Dies, clientVars, channelVars
  <2>2. ServerTyped'
    BY <1>1, <1>2, <2>1 DEF ServerTyped, ServerStates
  <2> QED
    BY <1>1, <2>1, <2>2 DEF Room, Lockstep, Executing
<1>8. CASE Submit
  <2>1. page \in 1..N
    BY <1>1, <1>8 DEF Submit, Lockstep, Executing, SessionInv, ClientInv, ClientTyped, AtTable, AtAssignment
  <2>2. table \in 1..K
    BY DEF SessionInv, ClientInv, ClientTyped
  <2>3. Len(results) + 1 \in 1..Size
    BY <1>1, <1>4, <1>8 DEF Submit, ServerTyped
  <2>4. calls' \in Seq(Calls)
    BY <1>1, <1>8, <2>1, <2>2, <2>3 DEF Submit, Calls, ServerTyped
  <2> QED
    BY <1>1, <1>3, <1>8, <2>4 DEF Submit, clientVars, channelVars,
       ServerTyped, ServerStates, Room, Lockstep, Executing
<1>9. CASE Assign
  <2>1. results' \in Seq(Results) /\ Len(results') =< Size
    BY <1>4, <1>9 DEF Assign, Results, Returns
  <2> QED
    BY <1>1, <1>3, <1>9, <2>1 DEF Assign, clientVars, channelVars,
       ServerTyped, ServerStates, Room, Lockstep, Executing
<1>10. CASE BatchEnds
  BY <1>1, <1>3, <1>10 DEF BatchEnds, clientVars, channelVars,
     ServerTyped, ServerStates, Room, Lockstep, Executing
<1>11. CASE TimesOut
  <2>1. results' \in Seq(Results) /\ Len(results') =< Size
    BY <1>1, <1>4, <1>5, <1>11 DEF TimesOut, Results, Room, ServerTyped
  <2> QED
    BY <1>1, <1>3, <1>11, <2>1 DEF TimesOut, clientVars, channelVars,
       ServerTyped, ServerStates, Room, Lockstep, Executing
<1>12. CASE Finalize
  <2>1. /\ stopRequested' = FALSE /\ replied' = TRUE /\ reply' = results
        /\ server = "finalize" /\ server' = "listen" /\ results' = <<>>
        /\ UNCHANGED <<client, request, calls, lastCall>>
    BY <1>12 DEF Finalize, clientVars
  <2>a. results' \in Seq(Results) /\ Len(results') =< Size
    BY <1>2, <1>4, <2>1
  <2>b. reply' \in Seq(Results)
    BY <1>1, <2>1 DEF ServerTyped
  <2>2. ServerTyped'
    BY <1>1, <2>1, <2>a, <2>b DEF ServerTyped, ServerStates
  <2>3. client \in {"awaiting", "assigning"}
    BY <1>1, <2>1 DEF Lockstep, Executing
  <2> QED
    BY <1>1, <2>1, <2>2, <2>3 DEF Room, Lockstep, Executing
<1>13. CASE CallReturns
  <2>1. PICK r \in Returns : Return(r)
    BY <1>13 DEF CallReturns
  <2>2. calls' \in Seq(Calls) /\ lastCall' \in Calls
    BY <1>1, <1>13 DEF CallReturns, ServerTyped
  <2>3. stopRequested' \in BOOLEAN
    BY <1>1, <2>1 DEF Return, ServerTyped
  <2>4. r \in Results
    BY DEF Results
  <2>5. CASE server = "waiting" /\ results' = Append(results, r) /\ server' = "execute"
    <3>1. results' \in Seq(Results) /\ Len(results') =< Size
      BY <1>1, <1>4, <1>5, <2>4, <2>5 DEF Room, ServerTyped
    <3> QED
      BY <1>1, <1>3, <2>1, <2>2, <2>3, <2>5, <3>1 DEF Return, clientVars, channelVars,
         ServerTyped, ServerStates, Room, Lockstep, Executing
  <2>6. CASE UNCHANGED <<results, server>>
    BY <1>1, <1>3, <2>1, <2>2, <2>3, <2>6 DEF Return, clientVars, channelVars,
       ServerTyped, ServerStates, Room, Lockstep, Executing
  <2> QED
    BY <2>1, <2>5, <2>6 DEF Return
<1> QED
  BY <1>6, <1>7, <1>8, <1>9, <1>10, <1>11, <1>12, <1>13 DEF ConnectionNext

LEMMA StutterSession ==
  ASSUME SessionInv, UNCHANGED vars
  PROVE  ServerTyped' /\ Room' /\ Lockstep'
BY DEF SessionInv, vars, clientVars, channelVars, serverVars, ServerTyped, Room,
   Lockstep, Executing

LEMMA NextSessionInv ==
  ASSUME SessionInv, [Next]_vars
  PROVE  SessionInv'
<1>1. ClientInv'
  BY NextClientInv DEF SessionInv
<1>2. ServerTyped' /\ Room' /\ Lockstep'
  BY ClientKeepsServerTyped, ServerKeepsTyped, StutterSession DEF Next
<1> QED
  BY <1>1, <1>2 DEF SessionInv

LEMMA TypedFromInv == SessionInv => TypeOK
BY DEF SessionInv, ClientInv, ClientTyped, ServerTyped, TypeOK

\* Every variable of the session keeps its type; in particular no batch has more
\* results than instructions.
THEOREM SessionTypeCorrect == Spec => []TypeOK
<1>1. Init => SessionInv
  BY InitSessionInv
<1>2. SessionInv /\ [Next]_vars => SessionInv'
  BY NextSessionInv
<1> QED
  BY <1>1, <1>2, TypedFromInv, PTL DEF Spec

-----------------------------------------------------------------------------
(* Without a statement time limit the flag of the statement executor       *)
(* speaks of the batch that is executing: no call outlives its batch, and  *)
(* the flag is set exactly when a result of the batch stops the test.      *)

Asked == \E i \in 1..Len(results) : results[i] \in Stops

NoStragglers ==
  /\ server = "waiting" => Len(calls) = 1
  /\ server # "waiting" => calls = <<>>

FlagIsOfTheBatch ==
  /\ server = "listen" => ~stopRequested
  /\ server = "execute" => (stopRequested <=> Asked)
  /\ server = "execute" /\ request = "assign" => results = <<>>
  /\ server = "waiting" => request = "table" /\ ~stopRequested /\ ~Asked
  /\ server = "finalize" =>
       /\ request = "table" => Len(results) = Size \/ Asked
       /\ request = "assign" => results # <<>>

PlainInv == SessionInv /\ NoStragglers /\ FlagIsOfTheBatch /\ SkippedOnlyAfterStop

LEMMA InitPlainInv == Init => PlainInv
<1> SUFFICES ASSUME Init PROVE PlainInv
  OBVIOUS
<1>1. SessionInv
  BY InitSessionInv
<1> QED
  BY <1>1 DEF Init, PlainInv, NoStragglers, FlagIsOfTheBatch, SkippedOnlyAfterStop

LEMMA ClientKeepsPlain ==
  ASSUME PlainInv, ClientNext
  PROVE  NoStragglers' /\ FlagIsOfTheBatch' /\ SkippedOnlyAfterStop'
<1>1. NoStragglers /\ FlagIsOfTheBatch /\ SkippedOnlyAfterStop /\ Lockstep
  BY DEF PlainInv, SessionInv
<1>2. CASE UNCHANGED <<channelVars, serverVars>>
  BY <1>1, <1>2 DEF channelVars, serverVars, NoStragglers, FlagIsOfTheBatch,
     SkippedOnlyAfterStop, Asked
<1>3. CASE SendTable \/ SayBye \/ Evaluate \/ Assigned \/ EvaluateAndAssign
  <2>1. ~Executing
    BY <1>1, <1>3 DEF SendTable, SayBye, Evaluate, Assigned, EvaluateAndAssign, Lockstep
  <2>2. UNCHANGED serverVars
    BY <1>3 DEF SendTable, SayBye, Evaluate, Assigned, EvaluateAndAssign
  <2>3. replied' = FALSE
    BY <1>1, <1>3 DEF SendTable, SayBye, Evaluate, Assigned, EvaluateAndAssign, Consume, Lockstep
  <2> QED
    BY <1>1, <2>1, <2>2, <2>3 DEF serverVars, NoStragglers, FlagIsOfTheBatch,
       SkippedOnlyAfterStop, Asked, Executing
<1>4. CASE Fails \/ ByeEnds
  <2>1. server' = "dead" /\ calls' = <<>> /\ UNCHANGED channelVars
    BY <1>4 DEF Fails, ByeEnds
  <2> QED
    BY <1>1, <2>1 DEF channelVars, NoStragglers, FlagIsOfTheBatch, SkippedOnlyAfterStop
<1> QED
  BY <1>2, <1>3, <1>4 DEF ClientNext, StartPage, SkipTable, BadTable

LEMMA ServerKeepsPlain ==
  ASSUME Timeouts = FALSE, PlainInv, ConnectionNext \/ CallReturns \/ Dies
  PROVE  NoStragglers' /\ FlagIsOfTheBatch' /\ SkippedOnlyAfterStop'
<1>1. NoStragglers /\ FlagIsOfTheBatch /\ SkippedOnlyAfterStop /\ Lockstep /\ Room
  BY DEF PlainInv, SessionInv
<1>2. calls \in Seq(Calls) /\ results \in Seq(Results) /\ Len(results) =< Size
  BY DEF PlainInv, SessionInv, ServerTyped
<1>3. stopRequested \in BOOLEAN /\ replied \in BOOLEAN
  BY DEF PlainInv, SessionInv, ServerTyped
<1>4. CASE Receive
  <2>1. /\ server = "listen" /\ server' = "execute" /\ results' = <<>>
        /\ UNCHANGED <<request, replied, reply, stopRequested, calls>>
    BY <1>4 DEF Receive, channelVars
  <2>2. ~Asked'
    BY <2>1 DEF Asked
  <2> QED
    BY <1>1, <2>1, <2>2 DEF NoStragglers, FlagIsOfTheBatch, SkippedOnlyAfterStop
<1>5. CASE ReceiveBye \/ Dies
  <2>1. server' = "dead" /\ calls' = <<>> /\ UNCHANGED channelVars
    BY <1>5 DEF ReceiveBye, Dies
  <2> QED
    BY <1>1, <2>1 DEF channelVars, NoStragglers, FlagIsOfTheBatch, SkippedOnlyAfterStop
<1>6. CASE Submit
  <2>1. /\ server = "execute" /\ server' = "waiting" /\ request = "table" /\ ~stopRequested
        /\ Len(calls') = 1
        /\ UNCHANGED <<request, replied, reply, results, stopRequested>>
    BY <1>1, <1>6 DEF Submit, channelVars, NoStragglers
  <2>2. ~Asked'
    BY <1>1, <2>1 DEF FlagIsOfTheBatch, Asked
  <2> QED
    BY <1>1, <2>1, <2>2 DEF NoStragglers, FlagIsOfTheBatch, SkippedOnlyAfterStop
<1>7. CASE Assign
  <2>1. /\ server = "execute" /\ server' = "finalize" /\ request = "assign"
        /\ results' = <<"ok">>
        /\ UNCHANGED <<request, replied, reply, stopRequested, calls>>
    BY <1>7 DEF Assign, channelVars
  <2> QED
    BY <1>1, <2>1 DEF NoStragglers, FlagIsOfTheBatch, SkippedOnlyAfterStop
<1>8. CASE BatchEnds
  <2>1. /\ server = "execute" /\ server' = "finalize"
        /\ stopRequested \/ Len(results) = Size
        /\ UNCHANGED <<request, replied, reply, results, stopRequested, calls>>
    BY <1>8 DEF BatchEnds, channelVars
  <2>2. Asked' <=> Asked
    BY <2>1 DEF Asked
  <2>3. request = "assign" => FALSE
    BY <1>1, <2>1 DEF FlagIsOfTheBatch, Asked
  <2> QED
    BY <1>1, <2>1, <2>2, <2>3 DEF NoStragglers, FlagIsOfTheBatch, SkippedOnlyAfterStop
<1>9. CASE TimesOut
  BY <1>9 DEF TimesOut
<1>10. CASE Finalize
  <2>1. /\ server = "finalize" /\ server' = "listen" /\ stopRequested' = FALSE
        /\ replied' = TRUE /\ reply' = results
        /\ UNCHANGED <<request, calls>>
    BY <1>10 DEF Finalize
  <2>2. SkippedOnlyAfterStop'
    BY <1>1, <2>1 DEF FlagIsOfTheBatch, SkippedOnlyAfterStop, Asked
  <2> QED
    BY <1>1, <2>1, <2>2 DEF NoStragglers, FlagIsOfTheBatch
<1>11. CASE CallReturns
  <2>1. calls # <<>> /\ calls' = Tail(calls)
    BY <1>11 DEF CallReturns
  <2>2. server = "waiting" /\ Len(calls) = 1
    BY <1>1, <2>1 DEF NoStragglers
  <2>3. calls' = <<>>
    BY <1>2, <2>1, <2>2
  <2>4. PICK r \in Returns : Return(r)
    BY <1>11 DEF CallReturns
  <2>5. /\ results' = Append(results, r) /\ server' = "execute"
        /\ stopRequested' = (stopRequested \/ r \in Stops)
        /\ UNCHANGED <<request, replied, reply>>
    BY <2>2, <2>4 DEF Return, channelVars
  <2>6. request = "table" /\ ~stopRequested /\ ~Asked
    BY <1>1, <2>2 DEF FlagIsOfTheBatch
  <2>7. Asked' <=> r \in Stops
    <3>1. r \in Results
      BY DEF Results
    <3>2. Len(results') = Len(results) + 1 /\ results'[Len(results) + 1] = r
      BY <1>2, <2>5, <3>1
    <3>3. \A i \in 1..Len(results) : results'[i] = results[i]
      BY <1>2, <2>5, <3>1
    <3> QED
      BY <1>2, <2>6, <3>2, <3>3 DEF Asked
  <2> QED
    BY <1>1, <2>3, <2>5, <2>6, <2>7 DEF NoStragglers, FlagIsOfTheBatch, SkippedOnlyAfterStop
<1> QED
  BY <1>4, <1>5, <1>6, <1>7, <1>8, <1>9, <1>10, <1>11 DEF ConnectionNext

LEMMA NextPlainInv ==
  ASSUME Timeouts = FALSE, PlainInv, [Next]_vars
  PROVE  PlainInv'
<1>1. SessionInv'
  BY NextSessionInv DEF PlainInv
<1>2. NoStragglers' /\ FlagIsOfTheBatch' /\ SkippedOnlyAfterStop'
  <2>1. NoStragglers /\ FlagIsOfTheBatch /\ SkippedOnlyAfterStop
    BY DEF PlainInv
  <2>2. CASE UNCHANGED vars
    BY <2>1, <2>2 DEF vars, channelVars, serverVars, NoStragglers,
       FlagIsOfTheBatch, SkippedOnlyAfterStop, Asked
  <2>3. CASE ClientNext
    BY <2>3, ClientKeepsPlain
  <2>4. CASE ConnectionNext \/ CallReturns \/ Dies
    BY <2>4, ServerKeepsPlain
  <2> QED
    BY <2>2, <2>3, <2>4 DEF Next
<1> QED
  BY <1>1, <1>2 DEF PlainInv

\* A server without a statement time limit leaves an instruction out only after
\* an exception of the same batch that its answer reports.
THEOREM PlainServerSkipsOnlyAfterStop ==
  ASSUME Timeouts = FALSE
  PROVE  Spec => []SkippedOnlyAfterStop
<1>1. Init => PlainInv
  BY InitPlainInv
<1>2. PlainInv /\ [Next]_vars => PlainInv'
  BY NextPlainInv
<1>3. PlainInv => SkippedOnlyAfterStop
  BY DEF PlainInv
<1> QED
  BY <1>1, <1>2, <1>3, PTL DEF Spec
-----------------------------------------------------------------------------
(* The order of the fixture calls, with or without a statement time limit: *)
(* every call that was submitted comes before the next one that can be,    *)
(* and that next one never goes back, so what waits for the fixture thread *)
(* is sorted, also when the connection thread has given up on it.          *)

\* The next instruction the server can submit.
NextOne ==
  IF client = "assigning" \/ server = "finalize" \/ replied THEN Size + 1
  ELSE IF server = "waiting" THEN Len(results) + 2
  ELSE Len(results) + 1

Ahead == <<page, table, NextOne>>

Idle ==
  /\ server = "listen" => results = <<>>
  /\ server = "dead" => calls = <<>>

Ordered ==
  server # "dead" =>
    /\ Before(lastCall, Ahead)
    /\ \A i \in 1..Len(calls) : Before(lastCall, calls[i]) /\ Before(calls[i], Ahead)
    /\ \A i, j \in 1..Len(calls) : i < j => Before(calls[i], calls[j])

OrderInv == SessionInv /\ Idle /\ Ordered

LEMMA BeforeIsTransitive ==
  ASSUME NEW a \in Nat \X Nat \X Nat, NEW b \in Nat \X Nat \X Nat,
         NEW c \in Nat \X Nat \X Nat, Before(a, b), Before(b, c)
  PROVE  Before(a, c)
<1>1. /\ a[1] \in Nat /\ a[2] \in Nat /\ a[3] \in Nat
      /\ b[1] \in Nat /\ b[2] \in Nat /\ b[3] \in Nat
      /\ c[1] \in Nat /\ c[2] \in Nat /\ c[3] \in Nat
  OBVIOUS
<1> QED
  BY <1>1 DEF Before

LEMMA OrderTyped ==
  ASSUME SessionInv
  PROVE  /\ Ahead \in Nat \X Nat \X Nat
         /\ lastCall \in Nat \X Nat \X Nat
         /\ calls \in Seq(Nat \X Nat \X Nat)
<1>1. page \in Nat /\ table \in Nat /\ Len(results) \in Nat
  BY DEF SessionInv, ClientInv, ClientTyped, ServerTyped
<1>2. Calls \subseteq Nat \X Nat \X Nat /\ <<0, 0, 0>> \in Nat \X Nat \X Nat
  BY DEF Calls
<1>3. lastCall \in Calls \cup {<<0, 0, 0>>} /\ calls \in Seq(Calls)
  BY DEF SessionInv, ServerTyped
<1>4. Ahead \in Nat \X Nat \X Nat
  BY <1>1 DEF Ahead, NextOne
<1>5. calls \in Seq(Nat \X Nat \X Nat)
  BY <1>2, <1>3
<1> QED
  BY <1>2, <1>3, <1>4, <1>5

LEMMA InitOrderInv == Init => OrderInv
<1> SUFFICES ASSUME Init PROVE OrderInv
  OBVIOUS
<1>1. SessionInv
  BY InitSessionInv
<1>2. Idle
  BY DEF Init, Idle
<1>3. Before(lastCall, Ahead)
  BY DEF Init, Before, Ahead, NextOne
<1> QED
  BY <1>1, <1>2, <1>3 DEF Init, OrderInv, Ordered

\* A step of the client goes on to a later table, or leaves the next instruction
\* where it is.
LEMMA ClientGoesOn ==
  ASSUME SessionInv, Idle, ClientNext, server' # "dead"
  PROVE  /\ UNCHANGED serverVars
         /\ Ahead' = Ahead \/ Before(Ahead, Ahead')
<1>1. /\ UNCHANGED serverVars /\ server # "dead"
      /\ client \in {"page", "table", "awaiting", "assigning"}
  BY DEF ClientNext, StartPage, SkipTable, BadTable, SendTable, Evaluate,
     EvaluateAndAssign, Assigned, Fails, SayBye, ByeEnds, serverVars
<1>2. /\ client = "page" \/ client = "table" \/ replied => server = "listen"
  BY <1>1 DEF SessionInv, Lockstep, Executing, ServerTyped, ServerStates
<1>3. CASE StartPage \/ SendTable \/ SayBye
  <2>1. /\ client \in {"page", "table"} /\ client' \in {"table", "awaiting", "bye"}
        /\ UNCHANGED <<page, table, replied>>
    BY <1>3 DEF StartPage, SendTable, SayBye, channelVars
  <2>2. NextOne' = NextOne
    BY <1>1, <2>1 DEF NextOne, serverVars
  <2> QED
    BY <1>1, <2>1, <2>2 DEF Ahead
<1>4. CASE EvaluateAndAssign
  <2>1. replied /\ client' = "assigning" /\ UNCHANGED <<page, table>>
    BY <1>4 DEF EvaluateAndAssign
  <2>2. NextOne' = NextOne
    BY <2>1 DEF NextOne
  <2> QED
    BY <1>1, <2>1, <2>2 DEF Ahead
<1>5. CASE SkipTable \/ BadTable \/ Evaluate \/ Assigned
  <2>1. Advance /\ client \in {"table", "awaiting", "assigning"}
    BY <1>5 DEF SkipTable, BadTable, Evaluate, Assigned
  <2>2. page < page' \/ (page = page' /\ table < table')
    BY <2>1 DEF Advance, SessionInv, ClientInv, ClientTyped
  <2> QED
    BY <1>1, <2>2 DEF Ahead, Before
<1> QED
  BY <1>1, <1>3, <1>4, <1>5 DEF ClientNext, Fails, ByeEnds

\* When the calls stay as they are and the next instruction does not go back,
\* the order is kept.
LEMMA GoesOnKeepsOrder ==
  ASSUME OrderInv, SessionInv', UNCHANGED <<calls, lastCall>>, server # "dead",
         Ahead' = Ahead \/ Before(Ahead, Ahead')
  PROVE  Ordered'
<1>1. Ahead \in Nat \X Nat \X Nat
  BY OrderTyped DEF OrderInv
<1>2. Ahead' \in Nat \X Nat \X Nat
  <2>1. (SessionInv => Ahead \in Nat \X Nat \X Nat)'
    BY OrderTyped, PTL
  <2> QED
    BY <2>1
<1>3. \A c \in Nat \X Nat \X Nat : Before(c, Ahead) => Before(c, Ahead')
  <2>1. SUFFICES ASSUME NEW c \in Nat \X Nat \X Nat, Before(c, Ahead)
                 PROVE  Before(c, Ahead')
    OBVIOUS
  <2>2. CASE Before(Ahead, Ahead')
    BY <1>1, <1>2, <2>1, <2>2, BeforeIsTransitive
  <2> QED
    BY <2>1, <2>2
<1>4. lastCall \in Nat \X Nat \X Nat /\ calls \in Seq(Nat \X Nat \X Nat)
  BY OrderTyped DEF OrderInv
<1>5. \A i \in 1..Len(calls) : calls[i] \in Nat \X Nat \X Nat
  BY <1>4
<1>6. /\ Before(lastCall, Ahead')
      /\ \A i \in 1..Len(calls) : Before(lastCall, calls[i]) /\ Before(calls[i], Ahead')
      /\ \A i, j \in 1..Len(calls) : i < j => Before(calls[i], calls[j])
  BY <1>3, <1>4, <1>5 DEF OrderInv, Ordered
<1> HIDE DEF Ahead
<1> QED
  BY <1>6 DEF Ordered

LEMMA ClientKeepsOrder ==
  ASSUME OrderInv, SessionInv', ClientNext
  PROVE  Idle' /\ Ordered'
<1>1. CASE server' = "dead"
  <2>1. calls' = <<>>
    BY <1>1 DEF OrderInv, Idle, ClientNext, StartPage, SkipTable, BadTable, SendTable,
       Evaluate, EvaluateAndAssign, Assigned, Fails, SayBye, ByeEnds, serverVars
  <2> QED
    BY <1>1, <2>1 DEF Idle, Ordered
<1>2. CASE server' # "dead"
  <2>1. UNCHANGED serverVars /\ (Ahead' = Ahead \/ Before(Ahead, Ahead'))
    BY <1>2, ClientGoesOn DEF OrderInv
  <2>2. UNCHANGED <<server, results, calls, lastCall>>
    BY <2>1 DEF serverVars
  <2>3. Idle'
    BY <2>2 DEF OrderInv, Idle
  <2> QED
    BY <1>2, <2>1, <2>2, <2>3, GoesOnKeepsOrder
<1> QED
  BY <1>1, <1>2

\* The steps of the connection thread that submit nothing.
LEMMA QuietServerKeepsOrder ==
  ASSUME OrderInv, UNCHANGED <<clientVars, calls, lastCall>>, server # "dead",
         NextOne' = NextOne, server' = "listen" => results' = <<>>, server' # "dead"
  PROVE  Idle' /\ Ordered'
<1>1. Ahead' = Ahead
  BY DEF clientVars, Ahead
<1>2. Idle'
  BY DEF Idle
<1> HIDE DEF Ahead
<1> QED
  BY <1>1, <1>2 DEF OrderInv, Ordered

LEMMA ServerKeepsOrder ==
  ASSUME OrderInv, SessionInv', ConnectionNext \/ CallReturns \/ Dies
  PROVE  Idle' /\ Ordered'
<1>1. ServerTyped /\ Lockstep /\ Idle /\ Ordered
  BY DEF OrderInv, SessionInv
<1>2. UNCHANGED clientVars /\ UNCHANGED <<client, page, table>>
  BY ServerStep DEF clientVars
<1>3. \A r \in Results : Len(Append(results, r)) = Len(results) + 1
  BY <1>1 DEF ServerTyped
<1>4. CASE ReceiveBye \/ Dies
  <2>1. server' = "dead" /\ calls' = <<>>
    BY <1>4 DEF ReceiveBye, Dies
  <2> QED
    BY <2>1 DEF Idle, Ordered
<1>5. CASE Receive
  <2>1. /\ server = "listen" /\ server' = "execute" /\ ~replied /\ results' = <<>>
        /\ UNCHANGED <<replied, calls, lastCall>>
    BY <1>5 DEF Receive, channelVars
  <2>2. NextOne' = NextOne
    BY <1>1, <1>2, <2>1 DEF NextOne, Idle
  <2> QED
    BY <1>2, <2>1, <2>2, QuietServerKeepsOrder
<1>6. CASE Assign
  <2>1. /\ server = "execute" /\ server' = "finalize" /\ request = "assign"
        /\ UNCHANGED <<replied, calls, lastCall>>
    BY <1>6 DEF Assign, channelVars
  <2>2. client = "assigning"
    BY <1>1, <2>1 DEF Lockstep, Executing
  <2>3. NextOne' = NextOne
    BY <1>2, <2>2 DEF NextOne
  <2> QED
    BY <1>2, <2>1, <2>3, QuietServerKeepsOrder
<1>7. CASE TimesOut
  <2>1. /\ server = "waiting" /\ server' = "execute"
        /\ Len(results') = Len(results) + 1
        /\ UNCHANGED <<replied, calls, lastCall>>
    BY <1>3, <1>7 DEF TimesOut, channelVars, Results
  <2>2. Len(results) \in Nat
    BY <1>1 DEF ServerTyped
  <2>3. NextOne' = NextOne
    BY <1>2, <2>1, <2>2 DEF NextOne
  <2> QED
    BY <1>2, <2>1, <2>3, QuietServerKeepsOrder
<1>8. CASE Finalize
  <2>1. /\ server = "finalize" /\ server' = "listen" /\ replied' = TRUE /\ results' = <<>>
        /\ UNCHANGED <<calls, lastCall>>
    BY <1>8 DEF Finalize
  <2>2. NextOne' = NextOne
    BY <1>2, <2>1 DEF NextOne
  <2> QED
    BY <1>2, <2>1, <2>2, QuietServerKeepsOrder
<1>a. Ahead \in Nat \X Nat \X Nat /\ lastCall \in Nat \X Nat \X Nat
      /\ calls \in Seq(Nat \X Nat \X Nat)
  BY OrderTyped DEF OrderInv
<1>9. CASE BatchEnds
  <2>1. /\ server = "execute" /\ server' = "finalize"
        /\ UNCHANGED <<replied, results, calls, lastCall>>
    BY <1>9 DEF BatchEnds, channelVars
  <2>2. Len(results) =< Size /\ Len(results) \in Nat /\ Size \in Nat
    BY <1>1 DEF ServerTyped
  <2>3. NextOne' = NextOne \/ NextOne < NextOne'
    BY <1>2, <2>1, <2>2 DEF NextOne
  <2>4. Ahead' = Ahead \/ Before(Ahead, Ahead')
    BY <1>2, <2>3 DEF Ahead, Before
  <2>5. Idle'
    BY <2>1 DEF Idle
  <2> QED
    BY <1>1, <1>a, <2>1, <2>4, <2>5, GoesOnKeepsOrder DEF OrderInv
<1>10. CASE Submit
  <2>1. /\ server = "execute" /\ server' = "waiting" /\ request = "table"
        /\ calls' = Append(calls, <<page, table, Len(results) + 1>>)
        /\ UNCHANGED <<replied, results, lastCall>>
    BY <1>10 DEF Submit, channelVars
  <2>2. client = "awaiting" /\ ~replied /\ Len(results) \in Nat
    BY <1>1, <2>1 DEF Lockstep, Executing, ServerTyped
  <2>3. NextOne = Len(results) + 1 /\ NextOne' = Len(results) + 2
    BY <1>2, <2>1, <2>2 DEF NextOne
  <2>4. calls' = Append(calls, Ahead) /\ Before(Ahead, Ahead')
    BY <1>2, <2>1, <2>2, <2>3 DEF Ahead, Before
  <2>5. Ahead' \in Nat \X Nat \X Nat
    BY <1>2, <1>a, <2>2, <2>3 DEF Ahead
  <2>6. \A c \in Nat \X Nat \X Nat : Before(c, Ahead) => Before(c, Ahead')
    BY <1>a, <2>4, <2>5, BeforeIsTransitive
  <2>7. /\ Len(calls') = Len(calls) + 1 /\ Len(calls) \in Nat
        /\ \A i \in 1..Len(calls) : calls'[i] = calls[i] /\ calls[i] \in Nat \X Nat \X Nat
        /\ calls'[Len(calls) + 1] = Ahead
    BY <1>a, <2>4
  <2>8. Idle'
    BY <2>1 DEF Idle
  <2>9. /\ Before(lastCall, Ahead)
        /\ \A i \in 1..Len(calls) : Before(lastCall, calls[i]) /\ Before(calls[i], Ahead)
        /\ \A i, j \in 1..Len(calls) : i < j => Before(calls[i], calls[j])
    BY <1>1, <2>1 DEF Ordered
  <2> HIDE DEF Ahead
  <2>10. Before(lastCall', Ahead')
    BY <1>a, <2>1, <2>6, <2>9
  <2>11. \A i \in 1..Len(calls') :
           Before(lastCall', calls'[i]) /\ Before(calls'[i], Ahead')
    <3> SUFFICES ASSUME NEW i \in 1..Len(calls')
                 PROVE  Before(lastCall', calls'[i]) /\ Before(calls'[i], Ahead')
      OBVIOUS
    <3>1. CASE i \in 1..Len(calls)
      BY <2>1, <2>6, <2>7, <2>9, <3>1
    <3>2. CASE i = Len(calls) + 1
      BY <2>1, <2>4, <2>7, <2>9, <3>2
    <3> QED
      BY <2>7, <3>1, <3>2
  <2>12. \A i, j \in 1..Len(calls') : i < j => Before(calls'[i], calls'[j])
    <3> SUFFICES ASSUME NEW i \in 1..Len(calls'), NEW j \in 1..Len(calls'), i < j
                 PROVE  Before(calls'[i], calls'[j])
      OBVIOUS
    <3>1. i \in 1..Len(calls)
      BY <2>7
    <3>2. CASE j \in 1..Len(calls)
      BY <2>7, <2>9, <3>1, <3>2
    <3>3. CASE j = Len(calls) + 1
      BY <2>7, <2>9, <3>1, <3>3
    <3> QED
      BY <2>7, <3>2, <3>3
  <2> QED
    BY <2>8, <2>10, <2>11, <2>12 DEF Ordered
<1>11. CASE CallReturns
  <2>1. /\ calls # <<>> /\ lastCall' = Head(calls) /\ calls' = Tail(calls)
    BY <1>11 DEF CallReturns
  <2>2. PICK r \in Returns : Return(r)
    BY <1>11 DEF CallReturns
  <2>3. server # "dead" /\ replied' = replied /\ Len(results) \in Nat
    BY <1>1, <2>1, <2>2 DEF Idle, Return, channelVars, ServerTyped
  <2>4. \/ server = "waiting" /\ server' = "execute" /\ Len(results') = Len(results) + 1
        \/ UNCHANGED <<server, results>>
    BY <1>3, <2>2 DEF Return, Results
  <2>5. NextOne' = NextOne
    BY <1>2, <2>3, <2>4 DEF NextOne
  <2>6. Ahead' = Ahead
    BY <1>2, <2>5 DEF Ahead
  <2>7. Idle'
    BY <1>1, <2>1, <2>3, <2>4 DEF Idle
  <2>8. /\ Len(calls) \in Nat \ {0} /\ lastCall' = calls[1]
        /\ Len(calls') = Len(calls) - 1
        /\ \A i \in 1..Len(calls') : calls'[i] = calls[i + 1]
    BY <1>a, <2>1
  <2>9. /\ \A i \in 1..Len(calls) : Before(calls[i], Ahead)
        /\ \A i, j \in 1..Len(calls) : i < j => Before(calls[i], calls[j])
    BY <1>1, <2>3 DEF Ordered
  <2> HIDE DEF Ahead
  <2>10. Before(lastCall', Ahead')
    BY <2>6, <2>8, <2>9
  <2>11. \A i \in 1..Len(calls') :
           Before(lastCall', calls'[i]) /\ Before(calls'[i], Ahead')
    <3> SUFFICES ASSUME NEW i \in 1..Len(calls')
                 PROVE  Before(lastCall', calls'[i]) /\ Before(calls'[i], Ahead')
      OBVIOUS
    <3>1. i + 1 \in 1..Len(calls) /\ 1 \in 1..Len(calls) /\ 1 < i + 1
      BY <2>8
    <3> QED
      BY <2>6, <2>8, <2>9, <3>1
  <2>12. \A i, j \in 1..Len(calls') : i < j => Before(calls'[i], calls'[j])
    <3> SUFFICES ASSUME NEW i \in 1..Len(calls'), NEW j \in 1..Len(calls'), i < j
                 PROVE  Before(calls'[i], calls'[j])
      OBVIOUS
    <3>1. i + 1 \in 1..Len(calls) /\ j + 1 \in 1..Len(calls) /\ i + 1 < j + 1
      BY <2>8
    <3> QED
      BY <2>8, <2>9, <3>1
  <2> QED
    BY <2>7, <2>10, <2>11, <2>12 DEF Ordered
<1> QED
  BY <1>4, <1>5, <1>6, <1>7, <1>8, <1>9, <1>10, <1>11 DEF ConnectionNext

LEMMA NextOrderInv ==
  ASSUME OrderInv, [Next]_vars
  PROVE  OrderInv'
<1>1. SessionInv'
  BY NextSessionInv DEF OrderInv
<1>2. CASE UNCHANGED vars
  BY <1>1, <1>2 DEF vars, clientVars, channelVars, serverVars, OrderInv, Idle, Ordered,
     Ahead, NextOne, Before
<1>3. CASE Next
  BY <1>1, <1>3, ClientKeepsOrder, ServerKeepsOrder DEF Next, OrderInv
<1> QED
  BY <1>2, <1>3

\* The call that returns is the oldest that waits, so it comes after the one that
\* returned before it.
LEMMA ReturnsInOrder ==
  ASSUME OrderInv, [Next]_vars
  PROVE  lastCall' # lastCall => Before(lastCall, lastCall')
<1>1. SUFFICES ASSUME lastCall' # lastCall
               PROVE  Before(lastCall, lastCall')
  OBVIOUS
<1>2. CallReturns
  BY <1>1 DEF Next, ClientNext, ConnectionNext, StartPage, SkipTable, BadTable, SendTable,
     Evaluate, EvaluateAndAssign, Assigned, Fails, SayBye, ByeEnds, Receive, ReceiveBye,
     Submit, Assign, BatchEnds, TimesOut, Finalize, Dies, vars, serverVars
<1>3. calls # <<>> /\ lastCall' = Head(calls)
  BY <1>2 DEF CallReturns
<1>4. calls \in Seq(Calls) /\ server # "dead"
  BY <1>3 DEF OrderInv, SessionInv, ServerTyped, Idle
<1>5. lastCall' = calls[1] /\ 1 \in 1..Len(calls)
  BY <1>3, <1>4
<1> QED
  BY <1>4, <1>5 DEF OrderInv, Ordered

\* Fixture calls return in the order of the page, each once, for any number of
\* pages, tables and instructions, also when the connection thread has given up
\* on some of them.
THEOREM CallsReturnInOrder == Spec => FixturesInOrder
<1>1. Init => OrderInv
  BY InitOrderInv
<1>2. OrderInv /\ [Next]_vars => OrderInv'
  BY NextOrderInv
<1>3. OrderInv /\ [Next]_vars => (lastCall' # lastCall => Before(lastCall, lastCall'))
  BY ReturnsInOrder
<1> QED
  BY <1>1, <1>2, <1>3, PTL DEF Spec, FixturesInOrder

=============================================================================
