------------------------- MODULE MultipleTestsRunner -------------------------
(***************************************************************************)
(* One run of a suite: SuiteResponder.performExecution registers a         *)
(* MultipleTestsRunner with the RunningTestingTracker, the runner takes    *)
(* the page groups in turn (one group per WikiPageIdentity), creates and   *)
(* starts the group's test system, gives it the pages, waits for their     *)
(* results and says bye; StopTestResponder threads find the run in the     *)
(* tracker and call stop() at any moment.                                  *)
(*                                                                         *)
(* Three kinds of threads take steps: the runner (one control state per    *)
(* shared variable it reads or writes), one stop() call per member of      *)
(* Stoppers, and the listener thread of every asynchronous test system     *)
(* (FIT, or a plug-in's that differs from FIT in how it starts: which of   *)
(* the two it is, the runner cannot know).  testsInProgressCount is        *)
(* volatile, but its ++ and -- are a read and a write: both are steps of   *)
(* their own wherever two threads can meet.                                *)
(*                                                                         *)
(* The plain field testSystem is read by stop() without a lock; a stale    *)
(* read is a read made before the runner's store, which is a behaviour of  *)
(* the model already.                                                      *)
(***************************************************************************)
EXTENDS Integers, FiniteSets

CONSTANTS
  N,         \* number of WikiPageIdentity groups of the run
  Pages,     \* Pages[i]: how many pages group i has
  Async,     \* the groups whose test system completes tests on its own thread
  Stoppers   \* the requests to stop this run

Groups == 1..N

ASSUME NAssumption        == N \in Nat
ASSUME PagesAssumption    == Pages \in [Groups -> Nat]
ASSUME AsyncAssumption    == Async \subseteq Groups
ASSUME StoppersAssumption == IsFiniteSet(Stoppers)

VARIABLES
  pc,          \* where the runner thread is
  cur,         \* the group the loop over identities() is at
  isStopped,   \* the runner's flag
  field,       \* the field testSystem: the last one created, 0 for null
  count,       \* testsInProgressCount
  runnerReg,   \* what the runner's count++ has read
  failed,      \* an exception is on its way out of executeTestPages
  sys,         \* sys[i]: the test system of group i
  given,       \* given[i]: pages passed to runTests and not refused
  reported,    \* reported[i]: testComplete events the formatters got
  unable,      \* groups reported as unableToStartTestSystem
  untidy,      \* groups whose test system threw and did not clean up
  listener,    \* listener[i]: what the listener thread of i is doing
  listenerReg, \* listenerReg[i]: what its count-- has read
  open,        \* the formatters are not closed
  registered,  \* the run is in the RunningTestingTracker
  stopper,     \* stopper[s]: where the stop request s is
  wasNotStopped, \* its local variable
  stopAt,      \* history: the value of cur when isStopped became true
  stopPc       \* history: the value of pc at that moment

control == <<pc, cur, failed, open, registered>>
counting == <<count, runnerReg, listenerReg>>
systems == <<field, sys, given, unable, untidy>>
stopping == <<isStopped, stopAt, stopPc, stopper, wasNotStopped>>
vars == <<pc, cur, isStopped, field, count, runnerReg, failed, sys, given,
          reported, unable, untidy, listener, listenerReg, open, registered,
          stopper, wasNotStopped, stopAt, stopPc>>

RunnerStates == {"register", "check", "create", "launch", "listen", "connect",
                 "await", "give", "inc", "run", "wait", "finally", "bye", "close",
                 "unregister", "done"}
Starting == {"create", "launch", "listen"}
Connecting == {"connect", "await"}
SystemStates == {"none", "created", "alive", "dead"}
ListenerStates == {"idle", "dec", "dying"}
StopperStates == {"idle", "asked", "set", "kill", "stopped", "notFound"}

TypeOK ==
  /\ pc \in RunnerStates
  /\ cur \in 1..(N + 1)
  /\ isStopped \in BOOLEAN
  /\ field \in 0..N
  /\ count \in Int
  /\ runnerReg \in Int
  /\ failed \in BOOLEAN
  /\ sys \in [Groups -> SystemStates]
  /\ given \in [Groups -> Nat]
  /\ reported \in [Groups -> Nat]
  /\ unable \subseteq Groups
  /\ untidy \subseteq Groups
  /\ listener \in [Groups -> ListenerStates]
  /\ listenerReg \in [Groups -> Int]
  /\ open \in BOOLEAN
  /\ registered \in BOOLEAN
  /\ stopper \in [Stoppers -> StopperStates]
  /\ wasNotStopped \in [Stoppers -> BOOLEAN]
  /\ stopAt \in 0..(N + 1)
  /\ stopPc \in RunnerStates

Init ==
  /\ pc = "register" /\ cur = 1 /\ failed = FALSE
  /\ isStopped = FALSE /\ stopAt = 0 /\ stopPc = "register"
  /\ field = 0 /\ count = 0 /\ runnerReg = 0
  /\ sys = [i \in Groups |-> "none"]
  /\ given = [i \in Groups |-> 0]
  /\ reported = [i \in Groups |-> 0]
  /\ unable = {} /\ untidy = {}
  /\ listener = [i \in Groups |-> "idle"]
  /\ listenerReg = [i \in Groups |-> 0]
  /\ open = TRUE /\ registered = FALSE
  /\ stopper = [s \in Stoppers |-> "idle"]
  /\ wasNotStopped = [s \in Stoppers |-> FALSE]

-----------------------------------------------------------------------------
(* What every thread does to the shared state *)

\* isStopped = true; the history variables remember the first time.
MarkStopped ==
  /\ isStopped' = TRUE
  /\ stopAt' = IF isStopped THEN stopAt ELSE cur
  /\ stopPc' = IF isStopped THEN stopPc ELSE pc

\* kill() destroys what has been launched; on a test system that was only
\* created there is no process yet, and nothing happens.
Killed(i) ==
  IF i \in Groups /\ sys[i] = "alive" THEN [sys EXCEPT ![i] = "dead"] ELSE sys

\* A test system that fails kills its own client and announces
\* testSystemStopped with a cause: the runner's listener then calls stop().
\* Its second kill() hits the same, already dead, system.
FailsAndStops ==
  /\ sys' = Killed(cur)
  /\ MarkStopped

Goto(state) == pc' = state

\* The loop goes on with the next identity, or leaves with the exception.
LeaveGroup(exc) ==
  \/ exc /\ pc' = "close" /\ cur' = cur
  \/ ~exc /\ pc' = "check" /\ cur' = cur + 1

-----------------------------------------------------------------------------
(* The runner thread *)

Register ==
  /\ pc = "register"
  /\ registered' = TRUE
  /\ Goto("check")
  /\ UNCHANGED <<cur, failed, open, counting, systems, stopping, reported,
                 listener>>

AllGroupsDone ==
  /\ pc = "check" /\ cur > N
  /\ Goto("close")
  /\ UNCHANGED <<cur, failed, open, registered, counting, systems, stopping,
                 reported, listener>>

\* Mutants: the loop goes one identity too far; the check is left out.
CheckStopped_OneTooFar ==
  /\ pc = "check" /\ cur <= N + 1
  /\ \/ isStopped /\ LeaveGroup(FALSE)
     \/ ~isStopped /\ Goto("create") /\ UNCHANGED cur
  /\ UNCHANGED <<failed, open, registered, counting, systems, stopping,
                 reported, listener>>

CheckStopped_LeftOut ==
  /\ pc = "check" /\ cur <= N
  /\ Goto("create")
  /\ UNCHANGED <<cur, failed, open, registered, counting, systems, stopping,
                 reported, listener>>

\* if (!isStopped): a stopped run skips the group without a word.
CheckStopped ==
  /\ pc = "check" /\ cur <= N
  /\ \/ isStopped /\ LeaveGroup(FALSE)
     \/ ~isStopped /\ Goto("create") /\ UNCHANGED cur
  /\ UNCHANGED <<failed, open, registered, counting, systems, stopping,
                 reported, listener>>

\* Mutant: a local variable shadows the field testSystem.
CreateTestSystem_Shadowed ==
  /\ pc = "create"
  /\ sys' = [sys EXCEPT ![cur] = "created"]
  /\ Goto("launch")
  /\ UNCHANGED <<cur, failed, open, registered, counting, field, given, unable,
                 untidy, stopping, reported, listener>>

CreateTestSystem ==
  /\ pc = "create"
  /\ field' = cur
  /\ sys' = [sys EXCEPT ![cur] = "created"]
  /\ Goto("launch")
  /\ UNCHANGED <<cur, failed, open, registered, counting, given, unable,
                 untidy, stopping, reported, listener>>

\* The factory throws (unknown test system), or start() throws before the
\* process exists: unableToStartTestSystem, and the group is left.
UnableToCreate ==
  /\ pc \in {"create", "launch"}
  /\ unable' = unable \cup {cur}
  /\ LeaveGroup(FALSE)
  /\ UNCHANGED <<failed, open, registered, counting, field, sys, given,
                 untidy, stopping, reported, listener>>

\* FIT makes its server socket, and a SocketService, whose constructor joins
\* the thread that accepts connections.
Listen ==
  /\ pc = "launch" /\ cur \in Async
  /\ Goto("listen")
  /\ UNCHANGED <<cur, failed, open, registered, counting, systems, stopping,
                 reported, listener>>

\* FIT launches its process when the constructor returns, which it does if
\* accept() fails with a SocketException; then nothing accepts a connection.
Launch ==
  /\ \/ pc = "launch" /\ Goto("connect")
     \/ pc = "listen" /\ Goto("await")
  /\ sys' = [sys EXCEPT ![cur] = "alive"]
  /\ UNCHANGED <<cur, failed, open, registered, counting, field, given,
                 unable, untidy, stopping, reported, listener>>

Connected ==
  /\ pc = "connect"
  /\ Goto("give")
  /\ UNCHANGED <<cur, failed, open, registered, counting, systems, stopping,
                 reported, listener>>

\* SlimVersionMismatch: start() returns, isSuccessfullyStarted() is false.
\* IOException: start() throws, unableToStartTestSystem.  Both stop the run,
\* so the finally block finds isStopped and says no bye.
StartFailsAndStops ==
  /\ pc \in Connecting
  /\ FailsAndStops
  /\ unable' \in {unable, unable \cup {cur}}
  /\ LeaveGroup(FALSE)
  /\ UNCHANGED <<failed, open, registered, counting, field, given, untidy,
                 stopper, wasNotStopped, reported, listener>>

\* SlimError (no connection in time, bad header, process dead) is neither of
\* the two: startTestSystem reports it and returns null; nobody kills.
StartThrows ==
  /\ pc \in Connecting
  /\ unable' = unable \cup {cur}
  /\ untidy' = untidy \cup {cur}
  /\ LeaveGroup(FALSE)
  /\ UNCHANGED <<failed, open, registered, counting, field, sys, given,
                 stopping, reported, listener>>

\* The head of the loop over the pages, and the read of testsInProgressCount++.
NextPage ==
  /\ pc = "give" /\ given[cur] < Pages[cur]
  /\ runnerReg' = count
  /\ Goto("inc")
  /\ UNCHANGED <<cur, failed, open, registered, count, listenerReg, systems,
                 stopping, reported, listener>>

NoMorePages ==
  /\ pc = "give" /\ given[cur] >= Pages[cur]
  /\ Goto("wait")
  /\ UNCHANGED <<cur, failed, open, registered, counting, systems, stopping,
                 reported, listener>>

Increment ==
  /\ pc = "inc"
  /\ count' = runnerReg + 1
  /\ runnerReg' = 0
  /\ Goto("run")
  /\ UNCHANGED <<cur, failed, open, registered, listenerReg, systems,
                 stopping, reported, listener>>

\* A synchronous runTests that ends well has announced testComplete before it
\* returns, on this very thread; also when the page needed nothing more of a
\* killed system.
RunSynchronously ==
  /\ pc = "run" /\ cur \notin Async
  /\ given' = [given EXCEPT ![cur] = @ + 1]
  /\ reported' = [reported EXCEPT ![cur] = @ + 1]
  /\ count' = count - 1
  /\ Goto("give")
  /\ UNCHANGED <<cur, failed, open, registered, runnerReg, listenerReg, field,
                 sys, unable, untidy, stopping, listener>>

\* An asynchronous runTests sends the page and returns.
RunAsynchronously ==
  /\ pc = "run" /\ cur \in Async /\ sys[cur] = "alive"
  /\ given' = [given EXCEPT ![cur] = @ + 1]
  /\ Goto("give")
  /\ UNCHANGED <<cur, failed, open, registered, counting, field, sys, unable,
                 untidy, stopping, reported, listener>>

\* The exchange with the system under test breaks down: the test system kills
\* its client, announces its end and throws TestExecutionException.  When its
\* listener thread is about to announce the end, this thread does not.
RunFails ==
  /\ pc = "run"
  /\ \/ FailsAndStops
     \/ /\ listener[cur] = "dying"
        /\ sys' = Killed(cur)
        /\ UNCHANGED <<isStopped, stopAt, stopPc>>
  /\ failed' = TRUE
  /\ Goto("finally")
  /\ UNCHANGED <<cur, open, registered, counting, field, given, unable, untidy,
                 stopper, wasNotStopped, reported, listener>>

\* A formatter throws in testStarted: nothing between it and the finally block.
RunThrows ==
  /\ pc = "run"
  /\ failed' = TRUE
  /\ Goto("finally")
  /\ UNCHANGED <<cur, open, registered, counting, systems, stopping, reported,
                 listener>>

\* waitForTestSystemToSendResults: the loop condition turns false.
ResultsAreIn ==
  /\ pc = "wait" /\ (count <= 0 \/ isStopped)
  /\ Goto("finally")
  /\ UNCHANGED <<cur, failed, open, registered, counting, systems, stopping,
                 reported, listener>>

\* Mutants: no bye at all; no bye on the way out of an exception.
FinallyCheck_NoBye ==
  /\ pc = "finally"
  /\ LeaveGroup(failed)
  /\ UNCHANGED <<failed, open, registered, counting, systems, stopping,
                 reported, listener>>

FinallyCheck_NotFinally ==
  /\ pc = "finally"
  /\ \/ (isStopped \/ failed) /\ LeaveGroup(failed)
     \/ ~isStopped /\ ~failed /\ Goto("bye") /\ UNCHANGED cur
  /\ UNCHANGED <<failed, open, registered, counting, systems, stopping,
                 reported, listener>>

FinallyCheck ==
  /\ pc = "finally"
  /\ \/ isStopped /\ LeaveGroup(failed)
     \/ ~isStopped /\ Goto("bye") /\ UNCHANGED cur
  /\ UNCHANGED <<failed, open, registered, counting, systems, stopping,
                 reported, listener>>

\* Mutant: bye() does not wait for the listener.
Bye_NoJoin ==
  /\ pc = "bye"
  /\ sys' = Killed(cur)
  /\ LeaveGroup(failed)
  /\ UNCHANGED <<failed, open, registered, counting, field, given, unable,
                 untidy, stopping, reported, listener>>

\* bye() ends the conversation and waits for the end of the process; an
\* asynchronous one also waits for the listener to receive what was sent.
Bye ==
  /\ pc = "bye"
  /\ cur \in Async => /\ listener[cur] = "idle"
                      /\ given[cur] = reported[cur] \/ sys[cur] = "dead"
  /\ sys' = Killed(cur)
  /\ LeaveGroup(failed)
  /\ UNCHANGED <<failed, open, registered, counting, field, given, unable,
                 untidy, stopping, reported, listener>>

\* SLiM: bye meets a broken connection, kills the client and announces its end
\* with the cause, which stops the run.  The exception itself is only logged.
ByeFailsAndStops ==
  /\ pc = "bye" /\ cur \notin Async
  /\ FailsAndStops
  /\ LeaveGroup(failed)
  /\ UNCHANGED <<failed, open, registered, counting, field, given, unable,
                 untidy, stopper, wasNotStopped, reported, listener>>

\* FIT: done() throws, join() is never reached and nothing is killed.
ByeThrows ==
  /\ pc = "bye" /\ cur \in Async
  /\ untidy' = untidy \cup {cur}
  /\ LeaveGroup(failed)
  /\ UNCHANGED <<failed, open, registered, counting, field, sys, given, unable,
                 stopping, reported, listener>>

CloseFormatters ==
  /\ pc = "close"
  /\ open' = FALSE
  /\ Goto("unregister")
  /\ UNCHANGED <<cur, failed, registered, counting, systems, stopping,
                 reported, listener>>

\* Mutant: the ticket stays with the tracker.
Unregister_Forgotten ==
  /\ pc = "unregister"
  /\ Goto("done")
  /\ UNCHANGED <<cur, failed, open, registered, counting, systems, stopping, reported,
                 listener>>

Unregister ==
  /\ pc = "unregister"
  /\ registered' = FALSE
  /\ Goto("done")
  /\ UNCHANGED <<cur, failed, open, counting, systems, stopping, reported,
                 listener>>

-----------------------------------------------------------------------------
(* The listener thread of an asynchronous test system *)

\* testComplete: the formatters first, then the read of testsInProgressCount--.
ReportResult(i) ==
  /\ i \in Async /\ listener[i] = "idle" /\ sys[i] = "alive"
  /\ reported[i] < given[i]
  /\ reported' = [reported EXCEPT ![i] = @ + 1]
  /\ listenerReg' = [listenerReg EXCEPT ![i] = count]
  /\ listener' = [listener EXCEPT ![i] = "dec"]
  /\ UNCHANGED <<control, count, runnerReg, systems, stopping>>

Decrement(i) ==
  /\ listener[i] = "dec"
  /\ count' = listenerReg[i] - 1
  /\ listenerReg' = [listenerReg EXCEPT ![i] = 0]
  /\ listener' = [listener EXCEPT ![i] = "idle"]
  /\ UNCHANGED <<control, runnerReg, systems, stopping, reported>>

\* The listener meets an exception: it kills its client and announces the end
\* of the test system to the formatters, ...
ListenerDies(i) ==
  /\ i \in Async /\ listener[i] = "idle" /\ sys[i] = "alive"
  /\ sys' = [sys EXCEPT ![i] = "dead"]
  /\ listener' = [listener EXCEPT ![i] = "dying"]
  /\ UNCHANGED <<control, counting, field, given, unable, untidy, stopping,
                 reported>>

\* ... and then the runner's own listener calls stop() on this thread.
ListenerStops(i) ==
  /\ listener[i] = "dying"
  /\ MarkStopped
  /\ sys' = IF isStopped THEN sys ELSE Killed(field)
  /\ listener' = [listener EXCEPT ![i] = "idle"]
  /\ UNCHANGED <<control, counting, field, given, unable, untidy, stopper,
                 wasNotStopped, reported>>

-----------------------------------------------------------------------------
(* A request to stop: RunningTestingTracker.stopProcess, then stop() *)

FindRun(s) ==
  /\ stopper[s] = "idle"
  /\ stopper' = [stopper EXCEPT ![s] = IF registered THEN "asked"
                                                     ELSE "notFound"]
  /\ UNCHANGED <<control, counting, systems, reported, listener, isStopped,
                 stopAt, stopPc, wasNotStopped>>

ReadIsStopped(s) ==
  /\ stopper[s] = "asked"
  /\ wasNotStopped' = [wasNotStopped EXCEPT ![s] = ~isStopped]
  /\ stopper' = [stopper EXCEPT ![s] = "set"]
  /\ UNCHANGED <<control, counting, systems, reported, listener, isStopped,
                 stopAt, stopPc>>

SetIsStopped(s) ==
  /\ stopper[s] = "set"
  /\ MarkStopped
  /\ stopper' = [stopper EXCEPT ![s] = "kill"]
  /\ UNCHANGED <<control, counting, systems, reported, listener,
                 wasNotStopped>>
\* Mutant: the stop request only raises the flag.
KillTestSystem_Never(s) ==
  /\ stopper[s] = "kill"
  /\ stopper' = [stopper EXCEPT ![s] = "stopped"]
  /\ UNCHANGED <<control, counting, systems, reported, listener, isStopped,
                 stopAt, stopPc, wasNotStopped>>

KillTestSystem(s) ==
  /\ stopper[s] = "kill"
  /\ sys' = IF wasNotStopped[s] THEN Killed(field) ELSE sys
  /\ stopper' = [stopper EXCEPT ![s] = "stopped"]
  /\ UNCHANGED <<control, counting, field, given, unable, untidy, reported,
                 listener, isStopped, stopAt, stopPc, wasNotStopped>>

-----------------------------------------------------------------------------
RunnerNext ==
  \/ Register \/ AllGroupsDone \/ CheckStopped \/ CreateTestSystem
  \/ UnableToCreate \/ Listen \/ Launch \/ Connected \/ StartFailsAndStops
  \/ StartThrows \/ NextPage \/ NoMorePages \/ Increment
  \/ RunSynchronously \/ RunAsynchronously \/ RunFails \/ RunThrows
  \/ ResultsAreIn \/ FinallyCheck \/ Bye \/ ByeFailsAndStops \/ ByeThrows
  \/ CloseFormatters \/ Unregister

ListenerNext(i) ==
  ReportResult(i) \/ Decrement(i) \/ ListenerDies(i) \/ ListenerStops(i)

StopperNext(s) ==
  FindRun(s) \/ ReadIsStopped(s) \/ SetIsStopped(s) \/ KillTestSystem(s)

Next ==
  \/ RunnerNext
  \/ \E i \in Groups : ListenerNext(i)
  \/ \E s \in Stoppers : StopperNext(s)

Spec == Init /\ [][Next]_vars

\* The runner's thread is scheduled, a listener's thread goes on with what it has
\* begun, a stop() call returns.  Nobody is obliged to ask for a stop, and nobody
\* promises that a page given to a living system is ever answered: a fixture may
\* hang, and SLiM reads its answer without a timeout.  Nor does anything end the
\* thread that FIT's start() has joined, or accept a connection once it has ended.
AwaitsAnswer == pc = "run" /\ cur \notin Async /\ sys[cur] = "alive"

AwaitsConnection ==
  \/ pc = "listen"
  \/ pc = "await" /\ sys[cur] = "alive"

Fairness ==
  /\ WF_vars(RunnerNext /\ ~AwaitsAnswer /\ ~AwaitsConnection)
  /\ \A i \in Groups : WF_vars(Decrement(i) \/ ListenerStops(i))
  /\ \A s \in Stoppers :
       WF_vars(ReadIsStopped(s) \/ SetIsStopped(s) \/ KillTestSystem(s))

FairSpec == Spec /\ Fairness

-----------------------------------------------------------------------------
(* Safety *)

\* Two test systems never run side by side: when the runner has launched the
\* system of a later group, the one before it has been released, unless its
\* own start() or bye() threw without cleaning up.
OneSystemAtATime ==
  \A i, j \in Groups :
    i < j /\ sys[i] = "alive" /\ sys[j] = "alive" => i \in untidy

\* Whatever a stop meets, it ends the run at the group it met: no test system
\* of a later group is ever created.
StopSkipsTheRest ==
  isStopped => \A i \in Groups : i > stopAt => sys[i] = "none"

\* A run that nobody stopped releases what it started: once the runner is
\* past a group, the group's process is gone, on the paths through an
\* exception as on the others.
UnstoppedRunReleases ==
  pc \in {"close", "unregister", "done"} /\ ~isStopped =>
    \A i \in Groups : sys[i] = "alive" => i \in untidy

\* A run that nobody stopped loses no result: before the runner turns to the
\* next group, every page of the group has been given to its test system and
\* reported to the formatters, or the system was reported as not started.
FinishedGroupIsReported ==
  ~isStopped =>
    \A i \in Groups :
      i < cur => \/ i \in unable \cup untidy
                 \/ given[i] = Pages[i] /\ reported[i] = Pages[i]

\* The stop request that came first and has been answered leaves no process
\* behind, provided the flag was not raised between the runner's look at it
\* and the launch of the process it had decided to start.
StopReachesTheTestSystem ==
  \A s \in Stoppers :
    /\ stopper[s] = "stopped" /\ wasNotStopped[s]
    /\ stopPc \notin Starting
    => \A i \in Groups : sys[i] = "alive" => i \in untidy

\* What the administrator is told of a request to stop a run ("the process id
\* of the test to stop"): once it is answered with "Stopped 1 test or suite",
\* no test system of the run is left running.
StoppedMeansStopped ==
  \A s \in Stoppers :
    stopper[s] = "stopped" =>
      \A i \in Groups : sys[i] = "alive" => i \in untidy

\* A closed formatter gets no further result unless the run was stopped or the
\* test system failed to say bye: the history file is complete when closed.
NoLateResults ==
  [][\A i \in Groups :
       reported'[i] # reported[i] /\ ~open => isStopped \/ i \in untidy]_vars

(* Liveness *)

\* The runner is in a page, or waits for results of a living system that owes some.
Hanging ==
  \/ AwaitsAnswer
  \/ pc \in {"wait", "bye"} /\ sys[cur] = "alive" /\ reported[cur] < given[cur]

\* The ++ and the -- of testsInProgressCount collided, in this group or before,
\* and the runner waits for results it has.
Miscounted ==
  /\ pc = "wait" /\ count > 0 /\ given[cur] = reported[cur]
  /\ \E i \in Async : i =< cur

\* A run ends, formatters closed and ticket returned, unless a fixture hangs,
\* FIT's start() does, or the results were miscounted, which takes an
\* asynchronous test system.
RunEnds ==
  \/ <>(pc = "done" /\ ~open /\ ~registered)
  \/ <>[]Hanging
  \/ <>[]AwaitsConnection
  \/ <>[]Miscounted

\* A stop frees a run whose fixtures hang, unless it came in the window of
\* StopReachesTheTestSystem.
StopFreesTheRun ==
  (isStopped /\ stopPc \notin Starting) ~> (pc = "done")

=============================================================================
