---------------------- MODULE MultipleTestsRunnerProofs ----------------------
(***************************************************************************)
(* What MultipleTestsRunner promises for every number of groups and pages, *)
(* every mix of synchronous and asynchronous test systems and every number *)
(* of stop requests.  The safety properties follow from one inductive      *)
(* invariant, IInv.                                                        *)
(***************************************************************************)
EXTENDS MultipleTestsRunner, TLAPS

\* The runner is inside startTestSystemAndExecutePages, past the check.
InGroup == {"create", "launch", "listen", "connect", "await", "give", "inc", "run",
            "wait", "finally", "bye"}

\* The runner has left the loop over the identities.
Ended == {"close", "unregister", "done"}

CursorInv == pc \in InGroup => cur \in Groups

\* Test systems are created in the order of the groups, and the field
\* testSystem refers to the last one.
CreatedInv ==
  /\ \A i \in Groups :
       i > cur \/ (i = cur /\ pc \in {"register", "check", "create"})
         => sys[i] = "none"
  /\ \A i \in Groups : i > field => sys[i] = "none"
  /\ field # 0 => sys[field] # "none"
  /\ pc \in {"launch", "listen"} => sys[cur] = "created"

\* A stopped run stays at the group where the stop met it.
StoppedInv ==
  isStopped =>
    /\ stopAt <= cur
    /\ pc \in InGroup => stopAt = cur
    /\ pc \in Starting => stopPc \in Starting
    /\ \A i \in Groups : i > stopAt => sys[i] = "none"

\* What still runs of a group the runner has left.
ReleasedInv ==
  \A i \in Groups :
    (i < cur \/ pc \in Ended) /\ sys[i] = "alive" =>
      i \in untidy \/ (isStopped /\ stopAt <= i)

\* Where a stop request stands.
StopperInv ==
  \A s \in Stoppers :
    /\ stopper[s] \in {"kill", "stopped"} => isStopped
    /\ /\ stopper[s] = "stopped" /\ wasNotStopped[s]
       /\ stopPc \notin Starting
       => \A i \in Groups : sys[i] = "alive" => i \in untidy

\* How far the pages of the groups have come.
ResultsInv ==
  /\ \A i \in Groups : reported[i] <= given[i] /\ given[i] <= Pages[i]
  /\ pc \in {"inc", "run"} => given[cur] < Pages[cur]
  /\ pc \in {"register", "check"} \cup Starting \cup Connecting /\ cur \in Groups
       => given[cur] = 0
  /\ \A i \in Groups : i > cur => given[i] = 0
  /\ \A i \in Groups \ Async : reported[i] = given[i] /\ listener[i] # "dying"
  /\ ~isStopped /\ pc \in {"wait", "finally", "bye"} /\ ~failed
       => given[cur] = Pages[cur]
  /\ ~isStopped /\ pc \in InGroup /\ sys[cur] = "dead" => listener[cur] = "dying"
  /\ failed => pc \in {"finally", "bye"} \cup Ended
  /\ ~isStopped =>
       \A i \in Groups :
         i < cur => \/ i \in unable \cup untidy
                    \/ given[i] = Pages[i] /\ reported[i] = Pages[i]

OpenInv == ~open => pc \in {"unregister", "done"}

IInv == /\ TypeOK /\ CursorInv /\ CreatedInv /\ StoppedInv
        /\ ReleasedInv /\ StopperInv /\ ResultsInv /\ OpenInv

-----------------------------------------------------------------------------
\* kill() disturbs nothing but a process that was running.
LEMMA KilledIs ==
  ASSUME TypeOK
  PROVE  \A i : /\ Killed(i) \in [Groups -> SystemStates]
                /\ \A k \in Groups :
                     /\ Killed(i)[k] = "alive" => sys[k] = "alive" /\ k # i
                     /\ Killed(i)[k] = "dead" => k = i \/ sys[k] = "dead"
                     /\ (Killed(i)[k] = "none") <=> (sys[k] = "none")
                     /\ (Killed(i)[k] = "created") <=> (sys[k] = "created")
BY DEF Killed, TypeOK, SystemStates

\* Every variable keeps its type.
LEMMA TypeStep ==
  ASSUME TypeOK, CursorInv, [Next]_vars
  PROVE  TypeOK'
<1>a. /\ "register" \in RunnerStates
       /\ "check" \in RunnerStates
       /\ "create" \in RunnerStates
       /\ "launch" \in RunnerStates
       /\ "listen" \in RunnerStates
       /\ "connect" \in RunnerStates
       /\ "await" \in RunnerStates
       /\ "give" \in RunnerStates
       /\ "inc" \in RunnerStates
       /\ "run" \in RunnerStates
       /\ "wait" \in RunnerStates
       /\ "finally" \in RunnerStates
       /\ "bye" \in RunnerStates
       /\ "close" \in RunnerStates
       /\ "unregister" \in RunnerStates
       /\ "done" \in RunnerStates
  BY DEF RunnerStates
<1>b. pc \in InGroup => /\ cur \in Groups /\ cur \in 0..N
                        /\ cur + 1 \in 1..(N + 1)
  BY NAssumption DEF CursorInv, Groups
<1>c. \A i : Killed(i) \in [Groups -> SystemStates]
  BY KilledIs
<1> USE <1>a, <1>b, <1>c
    DEF TypeOK, InGroup,
        Starting, Connecting, control, counting, systems, stopping, Goto, LeaveGroup,
        MarkStopped, FailsAndStops
<1>1. CASE Register
  BY <1>1 DEF Register
<1>2. CASE AllGroupsDone
  BY <1>2 DEF AllGroupsDone
<1>3. CASE CheckStopped
  <2>1. CASE isStopped
    <3>1. cur + 1 \in 1..(N + 1)
      BY <1>3, NAssumption DEF CheckStopped
    <3> QED
      BY <1>3, <2>1, <3>1 DEF CheckStopped
  <2>2. CASE ~isStopped
    BY <1>3, <2>2 DEF CheckStopped
  <2> QED
    BY <2>1, <2>2
<1>4. CASE CreateTestSystem
  BY <1>4 DEF CreateTestSystem, SystemStates
<1>5. CASE UnableToCreate
  BY <1>5 DEF UnableToCreate
<1>6. CASE Listen \/ Launch
  BY <1>6 DEF Listen, Launch, SystemStates
<1>7. CASE Connected
  BY <1>7 DEF Connected
<1>8. CASE StartFailsAndStops
  BY <1>8 DEF StartFailsAndStops
<1>9. CASE StartThrows
  BY <1>9 DEF StartThrows
<1>10. CASE NextPage
  BY <1>10 DEF NextPage
<1>11. CASE NoMorePages
  BY <1>11 DEF NoMorePages
<1>12. CASE Increment
  BY <1>12 DEF Increment
<1>13. CASE RunSynchronously
  BY <1>13 DEF RunSynchronously
<1>14. CASE RunAsynchronously
  BY <1>14 DEF RunAsynchronously
<1>15. CASE RunFails
  <2>1. CASE FailsAndStops
    BY <1>15, <2>1 DEF RunFails
  <2>2. CASE ~FailsAndStops
    BY <1>15, <2>2 DEF RunFails
  <2> QED
    BY <2>1, <2>2
<1>16. CASE RunThrows
  BY <1>16 DEF RunThrows
<1>17. CASE ResultsAreIn
  BY <1>17 DEF ResultsAreIn
<1>18. CASE FinallyCheck
  BY <1>18 DEF FinallyCheck
<1>19. CASE Bye
  BY <1>19 DEF Bye
<1>20. CASE ByeFailsAndStops
  BY <1>20 DEF ByeFailsAndStops
<1>21. CASE ByeThrows
  BY <1>21 DEF ByeThrows
<1>22. CASE CloseFormatters
  BY <1>22 DEF CloseFormatters
<1>23. CASE Unregister
  BY <1>23 DEF Unregister
<1>24. ASSUME NEW i \in Groups, ReportResult(i) PROVE TypeOK'
  BY <1>24 DEF ReportResult, ListenerStates
<1>25. ASSUME NEW i \in Groups, Decrement(i) PROVE TypeOK'
  BY <1>25 DEF Decrement, ListenerStates
<1>26. ASSUME NEW i \in Groups, ListenerDies(i) PROVE TypeOK'
  BY <1>26 DEF ListenerDies, ListenerStates, SystemStates
<1>27. ASSUME NEW i \in Groups, ListenerStops(i) PROVE TypeOK'
  BY <1>27 DEF ListenerStops, ListenerStates
<1>28. ASSUME NEW s \in Stoppers, FindRun(s) PROVE TypeOK'
  BY <1>28 DEF FindRun, StopperStates
<1>29. ASSUME NEW s \in Stoppers, ReadIsStopped(s) PROVE TypeOK'
  BY <1>29 DEF ReadIsStopped, StopperStates
<1>30. ASSUME NEW s \in Stoppers, SetIsStopped(s) PROVE TypeOK'
  BY <1>30 DEF SetIsStopped, StopperStates
<1>31. ASSUME NEW s \in Stoppers, KillTestSystem(s) PROVE TypeOK'
  BY <1>31 DEF KillTestSystem, StopperStates
<1>32. CASE UNCHANGED vars
  BY <1>32 DEF vars
<1> QED
  BY <1>1, <1>2, <1>3, <1>4, <1>5, <1>6, <1>7, <1>8, <1>9,
     <1>10, <1>11, <1>12, <1>13, <1>14, <1>15, <1>16, <1>17, <1>18,
     <1>19, <1>20, <1>21, <1>22, <1>23, <1>24, <1>25, <1>26, <1>27,
     <1>28, <1>29, <1>30, <1>31, <1>32
     DEF Next, RunnerNext, ListenerNext, StopperNext

\* Inside the body of the loop the loop's variable is a group.
LEMMA CursorStep ==
  ASSUME TypeOK, CursorInv, [Next]_vars
  PROVE  CursorInv'
<1>a. cur \in 1..(N + 1) /\ field \in 0..N /\ N \in Nat /\ stopAt \in 0..(N + 1)
  BY NAssumption DEF TypeOK
<1> USE <1>a
    DEF Groups, CursorInv, InGroup,
        Starting, Connecting, control, counting, systems, stopping, Goto, LeaveGroup,
        MarkStopped, FailsAndStops
<1>1. CASE Register
  BY <1>1 DEF Register
<1>2. CASE AllGroupsDone
  BY <1>2 DEF AllGroupsDone
<1>3. CASE CheckStopped
  BY <1>3 DEF CheckStopped
<1>4. CASE CreateTestSystem
  BY <1>4 DEF CreateTestSystem
<1>5. CASE UnableToCreate
  BY <1>5 DEF UnableToCreate
<1>6. CASE Listen \/ Launch
  BY <1>6 DEF Listen, Launch
<1>7. CASE Connected
  BY <1>7 DEF Connected
<1>8. CASE StartFailsAndStops
  BY <1>8 DEF StartFailsAndStops
<1>9. CASE StartThrows
  BY <1>9 DEF StartThrows
<1>10. CASE NextPage
  BY <1>10 DEF NextPage
<1>11. CASE NoMorePages
  BY <1>11 DEF NoMorePages
<1>12. CASE Increment
  BY <1>12 DEF Increment
<1>13. CASE RunSynchronously
  BY <1>13 DEF RunSynchronously
<1>14. CASE RunAsynchronously
  BY <1>14 DEF RunAsynchronously
<1>15. CASE RunFails
  BY <1>15 DEF RunFails
<1>16. CASE RunThrows
  BY <1>16 DEF RunThrows
<1>17. CASE ResultsAreIn
  BY <1>17 DEF ResultsAreIn
<1>18. CASE FinallyCheck
  BY <1>18 DEF FinallyCheck
<1>19. CASE Bye
  BY <1>19 DEF Bye
<1>20. CASE ByeFailsAndStops
  BY <1>20 DEF ByeFailsAndStops
<1>21. CASE ByeThrows
  BY <1>21 DEF ByeThrows
<1>22. CASE CloseFormatters
  BY <1>22 DEF CloseFormatters
<1>23. CASE Unregister
  BY <1>23 DEF Unregister
<1>24. ASSUME NEW i \in Groups, ReportResult(i) PROVE CursorInv'
  BY <1>24 DEF ReportResult
<1>25. ASSUME NEW i \in Groups, Decrement(i) PROVE CursorInv'
  BY <1>25 DEF Decrement
<1>26. ASSUME NEW i \in Groups, ListenerDies(i) PROVE CursorInv'
  BY <1>26 DEF ListenerDies
<1>27. ASSUME NEW i \in Groups, ListenerStops(i) PROVE CursorInv'
  BY <1>27 DEF ListenerStops
<1>28. ASSUME NEW s \in Stoppers, FindRun(s) PROVE CursorInv'
  BY <1>28 DEF FindRun
<1>29. ASSUME NEW s \in Stoppers, ReadIsStopped(s) PROVE CursorInv'
  BY <1>29 DEF ReadIsStopped
<1>30. ASSUME NEW s \in Stoppers, SetIsStopped(s) PROVE CursorInv'
  BY <1>30 DEF SetIsStopped
<1>31. ASSUME NEW s \in Stoppers, KillTestSystem(s) PROVE CursorInv'
  BY <1>31 DEF KillTestSystem
<1>32. CASE UNCHANGED vars
  BY <1>32 DEF vars
<1> QED
  BY <1>1, <1>2, <1>3, <1>4, <1>5, <1>6, <1>7, <1>8, <1>9,
     <1>10, <1>11, <1>12, <1>13, <1>14, <1>15, <1>16, <1>17, <1>18,
     <1>19, <1>20, <1>21, <1>22, <1>23, <1>24, <1>25, <1>26, <1>27,
     <1>28, <1>29, <1>30, <1>31, <1>32
     DEF Next, RunnerNext, ListenerNext, StopperNext

\* Test systems are created in order.
LEMMA CreatedStep ==
  ASSUME TypeOK, CursorInv, CreatedInv, [Next]_vars
  PROVE  CreatedInv'
<1>a. cur \in 1..(N + 1) /\ field \in 0..N /\ N \in Nat /\ stopAt \in 0..(N + 1)
  BY NAssumption DEF TypeOK
<1>b. sys \in [Groups -> SystemStates]
  BY DEF TypeOK
<1>c. \A i : /\ Killed(i) \in [Groups -> SystemStates]
             /\ \A k \in Groups :
                  /\ Killed(i)[k] = "alive" => sys[k] = "alive" /\ k # i
                  /\ Killed(i)[k] = "dead" => k = i \/ sys[k] = "dead"
                  /\ (Killed(i)[k] = "none") <=> (sys[k] = "none")
                  /\ (Killed(i)[k] = "created") <=> (sys[k] = "created")
  BY KilledIs
<1> USE <1>a, <1>b, <1>c
    DEF Groups, CursorInv, InGroup, CreatedInv,
        Starting, Connecting, control, counting, systems, stopping, Goto, LeaveGroup,
        MarkStopped, FailsAndStops
<1>1. CASE Register
  BY <1>1 DEF Register
<1>2. CASE AllGroupsDone
  BY <1>2 DEF AllGroupsDone
<1>3. CASE CheckStopped
  BY <1>3 DEF CheckStopped
<1>4. CASE CreateTestSystem
  BY <1>4 DEF CreateTestSystem
<1>5. CASE UnableToCreate
  BY <1>5 DEF UnableToCreate
<1>6. CASE Listen \/ Launch
  BY <1>6 DEF Listen, Launch
<1>7. CASE Connected
  BY <1>7 DEF Connected
<1>8. CASE StartFailsAndStops
  BY <1>8 DEF StartFailsAndStops
<1>9. CASE StartThrows
  BY <1>9 DEF StartThrows
<1>10. CASE NextPage
  BY <1>10 DEF NextPage
<1>11. CASE NoMorePages
  BY <1>11 DEF NoMorePages
<1>12. CASE Increment
  BY <1>12 DEF Increment
<1>13. CASE RunSynchronously
  BY <1>13 DEF RunSynchronously
<1>14. CASE RunAsynchronously
  BY <1>14 DEF RunAsynchronously
<1>15. CASE RunFails
  BY <1>15 DEF RunFails
<1>16. CASE RunThrows
  BY <1>16 DEF RunThrows
<1>17. CASE ResultsAreIn
  BY <1>17 DEF ResultsAreIn
<1>18. CASE FinallyCheck
  BY <1>18 DEF FinallyCheck
<1>19. CASE Bye
  BY <1>19 DEF Bye
<1>20. CASE ByeFailsAndStops
  BY <1>20 DEF ByeFailsAndStops
<1>21. CASE ByeThrows
  BY <1>21 DEF ByeThrows
<1>22. CASE CloseFormatters
  BY <1>22 DEF CloseFormatters
<1>23. CASE Unregister
  BY <1>23 DEF Unregister
<1>24. ASSUME NEW i \in Groups, ReportResult(i) PROVE CreatedInv'
  BY <1>24 DEF ReportResult
<1>25. ASSUME NEW i \in Groups, Decrement(i) PROVE CreatedInv'
  BY <1>25 DEF Decrement
<1>26. ASSUME NEW i \in Groups, ListenerDies(i) PROVE CreatedInv'
  BY <1>26 DEF ListenerDies
<1>27. ASSUME NEW i \in Groups, ListenerStops(i) PROVE CreatedInv'
  BY <1>27 DEF ListenerStops
<1>28. ASSUME NEW s \in Stoppers, FindRun(s) PROVE CreatedInv'
  BY <1>28 DEF FindRun
<1>29. ASSUME NEW s \in Stoppers, ReadIsStopped(s) PROVE CreatedInv'
  BY <1>29 DEF ReadIsStopped
<1>30. ASSUME NEW s \in Stoppers, SetIsStopped(s) PROVE CreatedInv'
  BY <1>30 DEF SetIsStopped
<1>31. ASSUME NEW s \in Stoppers, KillTestSystem(s) PROVE CreatedInv'
  BY <1>31 DEF KillTestSystem
<1>32. CASE UNCHANGED vars
  BY <1>32 DEF vars
<1> QED
  BY <1>1, <1>2, <1>3, <1>4, <1>5, <1>6, <1>7, <1>8, <1>9,
     <1>10, <1>11, <1>12, <1>13, <1>14, <1>15, <1>16, <1>17, <1>18,
     <1>19, <1>20, <1>21, <1>22, <1>23, <1>24, <1>25, <1>26, <1>27,
     <1>28, <1>29, <1>30, <1>31, <1>32
     DEF Next, RunnerNext, ListenerNext, StopperNext

\* A stop ends the run at the group it meets.
LEMMA StoppedStep ==
  ASSUME TypeOK, CursorInv, CreatedInv, StoppedInv, [Next]_vars
  PROVE  StoppedInv'
<1>a. cur \in 1..(N + 1) /\ field \in 0..N /\ N \in Nat /\ stopAt \in 0..(N + 1)
  BY NAssumption DEF TypeOK
<1>b. sys \in [Groups -> SystemStates]
  BY DEF TypeOK
<1>c. \A i : /\ Killed(i) \in [Groups -> SystemStates]
             /\ \A k \in Groups :
                  /\ Killed(i)[k] = "alive" => sys[k] = "alive" /\ k # i
                  /\ Killed(i)[k] = "dead" => k = i \/ sys[k] = "dead"
                  /\ (Killed(i)[k] = "none") <=> (sys[k] = "none")
                  /\ (Killed(i)[k] = "created") <=> (sys[k] = "created")
  BY KilledIs
<1> USE <1>a, <1>b, <1>c
    DEF Groups, CursorInv, InGroup, CreatedInv, StoppedInv,
        Starting, Connecting, control, counting, systems, stopping, Goto, LeaveGroup,
        MarkStopped, FailsAndStops
<1>1. CASE Register
  BY <1>1 DEF Register
<1>2. CASE AllGroupsDone
  BY <1>2 DEF AllGroupsDone
<1>3. CASE CheckStopped
  BY <1>3 DEF CheckStopped
<1>4. CASE CreateTestSystem
  BY <1>4 DEF CreateTestSystem
<1>5. CASE UnableToCreate
  BY <1>5 DEF UnableToCreate
<1>6. CASE Listen \/ Launch
  <2>1. CASE Listen
    BY <2>1 DEF Listen
  <2>2. CASE Launch
    <3>1. cur \in Groups /\ \A k \in Groups : k # cur => sys'[k] = sys[k]
      BY <2>2 DEF Launch
    <3> QED BY <2>2, <3>1 DEF Launch
  <2> QED BY <1>6, <2>1, <2>2
<1>7. CASE Connected
  BY <1>7 DEF Connected
<1>8. CASE StartFailsAndStops
  BY <1>8 DEF StartFailsAndStops
<1>9. CASE StartThrows
  BY <1>9 DEF StartThrows
<1>10. CASE NextPage
  BY <1>10 DEF NextPage
<1>11. CASE NoMorePages
  BY <1>11 DEF NoMorePages
<1>12. CASE Increment
  BY <1>12 DEF Increment
<1>13. CASE RunSynchronously
  BY <1>13 DEF RunSynchronously
<1>14. CASE RunAsynchronously
  BY <1>14 DEF RunAsynchronously
<1>15. CASE RunFails
  <2>1. CASE FailsAndStops
    BY <1>15, <2>1 DEF RunFails
  <2>2. CASE ~FailsAndStops
    BY <1>15, <2>2 DEF RunFails
  <2> QED
    BY <2>1, <2>2
<1>16. CASE RunThrows
  BY <1>16 DEF RunThrows
<1>17. CASE ResultsAreIn
  BY <1>17 DEF ResultsAreIn
<1>18. CASE FinallyCheck
  BY <1>18 DEF FinallyCheck
<1>19. CASE Bye
  BY <1>19 DEF Bye
<1>20. CASE ByeFailsAndStops
  BY <1>20 DEF ByeFailsAndStops
<1>21. CASE ByeThrows
  BY <1>21 DEF ByeThrows
<1>22. CASE CloseFormatters
  BY <1>22 DEF CloseFormatters
<1>23. CASE Unregister
  BY <1>23 DEF Unregister
<1>24. ASSUME NEW i \in Groups, ReportResult(i) PROVE StoppedInv'
  BY <1>24 DEF ReportResult
<1>25. ASSUME NEW i \in Groups, Decrement(i) PROVE StoppedInv'
  BY <1>25 DEF Decrement
<1>26. ASSUME NEW i \in Groups, ListenerDies(i) PROVE StoppedInv'
  BY <1>26 DEF ListenerDies
<1>27. ASSUME NEW i \in Groups, ListenerStops(i) PROVE StoppedInv'
  BY <1>27 DEF ListenerStops
<1>28. ASSUME NEW s \in Stoppers, FindRun(s) PROVE StoppedInv'
  BY <1>28 DEF FindRun
<1>29. ASSUME NEW s \in Stoppers, ReadIsStopped(s) PROVE StoppedInv'
  BY <1>29 DEF ReadIsStopped
<1>30. ASSUME NEW s \in Stoppers, SetIsStopped(s) PROVE StoppedInv'
  BY <1>30 DEF SetIsStopped
<1>31. ASSUME NEW s \in Stoppers, KillTestSystem(s) PROVE StoppedInv'
  BY <1>31 DEF KillTestSystem
<1>32. CASE UNCHANGED vars
  BY <1>32 DEF vars
<1> QED
  BY <1>1, <1>2, <1>3, <1>4, <1>5, <1>6, <1>7, <1>8, <1>9,
     <1>10, <1>11, <1>12, <1>13, <1>14, <1>15, <1>16, <1>17, <1>18,
     <1>19, <1>20, <1>21, <1>22, <1>23, <1>24, <1>25, <1>26, <1>27,
     <1>28, <1>29, <1>30, <1>31, <1>32
     DEF Next, RunnerNext, ListenerNext, StopperNext

\* A group that is left has no running process.
LEMMA ReleasedStep ==
  ASSUME TypeOK, CursorInv, CreatedInv, StoppedInv,
         ReleasedInv, [Next]_vars
  PROVE  ReleasedInv'
<1>a. cur \in 1..(N + 1) /\ field \in 0..N /\ N \in Nat /\ stopAt \in 0..(N + 1)
  BY NAssumption DEF TypeOK
<1>b. sys \in [Groups -> SystemStates]
  BY DEF TypeOK
<1>c. \A i : /\ Killed(i) \in [Groups -> SystemStates]
             /\ \A k \in Groups :
                  /\ Killed(i)[k] = "alive" => sys[k] = "alive" /\ k # i
                  /\ Killed(i)[k] = "dead" => k = i \/ sys[k] = "dead"
                  /\ (Killed(i)[k] = "none") <=> (sys[k] = "none")
                  /\ (Killed(i)[k] = "created") <=> (sys[k] = "created")
  BY KilledIs
<1> USE <1>a, <1>b, <1>c
    DEF Groups, CursorInv, InGroup, Ended, CreatedInv, StoppedInv,
        ReleasedInv,
        Starting, Connecting, control, counting, systems, stopping, Goto, LeaveGroup,
        MarkStopped, FailsAndStops
<1>1. CASE Register
  BY <1>1 DEF Register
<1>2. CASE AllGroupsDone
  BY <1>2 DEF AllGroupsDone
<1>3. CASE CheckStopped
  BY <1>3 DEF CheckStopped
<1>4. CASE CreateTestSystem
  BY <1>4 DEF CreateTestSystem
<1>5. CASE UnableToCreate
  BY <1>5 DEF UnableToCreate
<1>6. CASE Listen \/ Launch
  BY <1>6 DEF Listen, Launch
<1>7. CASE Connected
  BY <1>7 DEF Connected
<1>8. CASE StartFailsAndStops
  BY <1>8 DEF StartFailsAndStops
<1>9. CASE StartThrows
  BY <1>9 DEF StartThrows
<1>10. CASE NextPage
  BY <1>10 DEF NextPage
<1>11. CASE NoMorePages
  BY <1>11 DEF NoMorePages
<1>12. CASE Increment
  BY <1>12 DEF Increment
<1>13. CASE RunSynchronously
  BY <1>13 DEF RunSynchronously
<1>14. CASE RunAsynchronously
  BY <1>14 DEF RunAsynchronously
<1>15. CASE RunFails
  BY <1>15 DEF RunFails
<1>16. CASE RunThrows
  BY <1>16 DEF RunThrows
<1>17. CASE ResultsAreIn
  BY <1>17 DEF ResultsAreIn
<1>18. CASE FinallyCheck
  BY <1>18 DEF FinallyCheck
<1>19. CASE Bye
  BY <1>19 DEF Bye
<1>20. CASE ByeFailsAndStops
  BY <1>20 DEF ByeFailsAndStops
<1>21. CASE ByeThrows
  BY <1>21 DEF ByeThrows
<1>22. CASE CloseFormatters
  BY <1>22 DEF CloseFormatters
<1>23. CASE Unregister
  BY <1>23 DEF Unregister
<1>24. ASSUME NEW i \in Groups, ReportResult(i) PROVE ReleasedInv'
  BY <1>24 DEF ReportResult
<1>25. ASSUME NEW i \in Groups, Decrement(i) PROVE ReleasedInv'
  BY <1>25 DEF Decrement
<1>26. ASSUME NEW i \in Groups, ListenerDies(i) PROVE ReleasedInv'
  BY <1>26 DEF ListenerDies
<1>27. ASSUME NEW i \in Groups, ListenerStops(i) PROVE ReleasedInv'
  BY <1>27 DEF ListenerStops
<1>28. ASSUME NEW s \in Stoppers, FindRun(s) PROVE ReleasedInv'
  BY <1>28 DEF FindRun
<1>29. ASSUME NEW s \in Stoppers, ReadIsStopped(s) PROVE ReleasedInv'
  BY <1>29 DEF ReadIsStopped
<1>30. ASSUME NEW s \in Stoppers, SetIsStopped(s) PROVE ReleasedInv'
  BY <1>30 DEF SetIsStopped
<1>31. ASSUME NEW s \in Stoppers, KillTestSystem(s) PROVE ReleasedInv'
  BY <1>31 DEF KillTestSystem
<1>32. CASE UNCHANGED vars
  BY <1>32 DEF vars
<1> QED
  BY <1>1, <1>2, <1>3, <1>4, <1>5, <1>6, <1>7, <1>8, <1>9,
     <1>10, <1>11, <1>12, <1>13, <1>14, <1>15, <1>16, <1>17, <1>18,
     <1>19, <1>20, <1>21, <1>22, <1>23, <1>24, <1>25, <1>26, <1>27,
     <1>28, <1>29, <1>30, <1>31, <1>32
     DEF Next, RunnerNext, ListenerNext, StopperNext

\* The first stop request kills what runs.
LEMMA StopperStep ==
  ASSUME TypeOK, CursorInv, CreatedInv, StoppedInv,
         ReleasedInv, StopperInv, [Next]_vars
  PROVE  StopperInv'
<1>a. cur \in 1..(N + 1) /\ field \in 0..N /\ N \in Nat /\ stopAt \in 0..(N + 1)
  BY NAssumption DEF TypeOK
<1>b. sys \in [Groups -> SystemStates]
  BY DEF TypeOK
<1>c. \A i : /\ Killed(i) \in [Groups -> SystemStates]
             /\ \A k \in Groups :
                  /\ Killed(i)[k] = "alive" => sys[k] = "alive" /\ k # i
                  /\ Killed(i)[k] = "dead" => k = i \/ sys[k] = "dead"
                  /\ (Killed(i)[k] = "none") <=> (sys[k] = "none")
                  /\ (Killed(i)[k] = "created") <=> (sys[k] = "created")
  BY KilledIs
<1> USE <1>a, <1>b, <1>c
    DEF Groups, CursorInv, InGroup, Ended, CreatedInv, StoppedInv,
        ReleasedInv, StopperInv,
        Starting, Connecting, control, counting, systems, stopping, Goto, LeaveGroup,
        MarkStopped, FailsAndStops
<1>1. CASE Register
  BY <1>1 DEF Register
<1>2. CASE AllGroupsDone
  BY <1>2 DEF AllGroupsDone
<1>3. CASE CheckStopped
  BY <1>3 DEF CheckStopped
<1>4. CASE CreateTestSystem
  BY <1>4 DEF CreateTestSystem
<1>5. CASE UnableToCreate
  BY <1>5 DEF UnableToCreate
<1>6. CASE Listen \/ Launch
  BY <1>6 DEF Listen, Launch
<1>7. CASE Connected
  BY <1>7 DEF Connected
<1>8. CASE StartFailsAndStops
  BY <1>8 DEF StartFailsAndStops
<1>9. CASE StartThrows
  BY <1>9 DEF StartThrows
<1>10. CASE NextPage
  BY <1>10 DEF NextPage
<1>11. CASE NoMorePages
  BY <1>11 DEF NoMorePages
<1>12. CASE Increment
  BY <1>12 DEF Increment
<1>13. CASE RunSynchronously
  BY <1>13 DEF RunSynchronously
<1>14. CASE RunAsynchronously
  BY <1>14 DEF RunAsynchronously
<1>15. CASE RunFails
  BY <1>15 DEF RunFails
<1>16. CASE RunThrows
  BY <1>16 DEF RunThrows
<1>17. CASE ResultsAreIn
  BY <1>17 DEF ResultsAreIn
<1>18. CASE FinallyCheck
  BY <1>18 DEF FinallyCheck
<1>19. CASE Bye
  BY <1>19 DEF Bye
<1>20. CASE ByeFailsAndStops
  BY <1>20 DEF ByeFailsAndStops
<1>21. CASE ByeThrows
  BY <1>21 DEF ByeThrows
<1>22. CASE CloseFormatters
  BY <1>22 DEF CloseFormatters
<1>23. CASE Unregister
  BY <1>23 DEF Unregister
<1>24. ASSUME NEW i \in Groups, ReportResult(i) PROVE StopperInv'
  BY <1>24 DEF ReportResult
<1>25. ASSUME NEW i \in Groups, Decrement(i) PROVE StopperInv'
  BY <1>25 DEF Decrement
<1>26. ASSUME NEW i \in Groups, ListenerDies(i) PROVE StopperInv'
  BY <1>26 DEF ListenerDies
<1>27. ASSUME NEW i \in Groups, ListenerStops(i) PROVE StopperInv'
  BY <1>27 DEF ListenerStops
<1>28. ASSUME NEW s \in Stoppers, FindRun(s) PROVE StopperInv'
  BY <1>28 DEF FindRun
<1>29. ASSUME NEW s \in Stoppers, ReadIsStopped(s) PROVE StopperInv'
  BY <1>29 DEF ReadIsStopped
<1>30. ASSUME NEW s \in Stoppers, SetIsStopped(s) PROVE StopperInv'
  BY <1>30 DEF SetIsStopped
<1>31. ASSUME NEW s \in Stoppers, KillTestSystem(s) PROVE StopperInv'
  BY <1>31 DEF KillTestSystem
<1>32. CASE UNCHANGED vars
  BY <1>32 DEF vars
<1> QED
  BY <1>1, <1>2, <1>3, <1>4, <1>5, <1>6, <1>7, <1>8, <1>9,
     <1>10, <1>11, <1>12, <1>13, <1>14, <1>15, <1>16, <1>17, <1>18,
     <1>19, <1>20, <1>21, <1>22, <1>23, <1>24, <1>25, <1>26, <1>27,
     <1>28, <1>29, <1>30, <1>31, <1>32
     DEF Next, RunnerNext, ListenerNext, StopperNext

\* No result of a group that is left is missing.
LEMMA ResultsStep ==
  ASSUME TypeOK, CursorInv, CreatedInv, StopperInv, ResultsInv, [Next]_vars
  PROVE  ResultsInv'
<1>a. cur \in 1..(N + 1) /\ field \in 0..N /\ N \in Nat /\ stopAt \in 0..(N + 1)
  BY NAssumption DEF TypeOK
<1>b. sys \in [Groups -> SystemStates]
  BY DEF TypeOK
<1>c. \A i : /\ Killed(i) \in [Groups -> SystemStates]
             /\ \A k \in Groups :
                  /\ Killed(i)[k] = "alive" => sys[k] = "alive" /\ k # i
                  /\ Killed(i)[k] = "dead" => k = i \/ sys[k] = "dead"
                  /\ (Killed(i)[k] = "none") <=> (sys[k] = "none")
                  /\ (Killed(i)[k] = "created") <=> (sys[k] = "created")
  BY KilledIs
<1>d. /\ isStopped \in BOOLEAN /\ failed \in BOOLEAN
       /\ given \in [Groups -> Nat] /\ reported \in [Groups -> Nat]
       /\ listener \in [Groups -> ListenerStates] /\ Pages \in [Groups -> Nat]
       /\ Async \subseteq Groups
  BY PagesAssumption, AsyncAssumption DEF TypeOK
<1> USE <1>a, <1>b, <1>c, <1>d
    DEF Groups, CursorInv, InGroup, Ended, CreatedInv, StopperInv, ResultsInv,
        Starting, Connecting, control, counting, systems, stopping, Goto, LeaveGroup,
        MarkStopped, FailsAndStops
<1>1. CASE Register
  BY <1>1 DEF Register
<1>2. CASE AllGroupsDone
  BY <1>2 DEF AllGroupsDone
<1>3. CASE CheckStopped
  BY <1>3 DEF CheckStopped
<1>4. CASE CreateTestSystem
  BY <1>4 DEF CreateTestSystem
<1>5. CASE UnableToCreate
  BY <1>5 DEF UnableToCreate
<1>6. CASE Listen \/ Launch
  <2>1. CASE Listen
    BY <2>1 DEF Listen
  <2>2. CASE Launch
    BY <2>2 DEF Launch
  <2> QED
    BY <1>6, <2>1, <2>2
<1>7. CASE Connected
  BY <1>7 DEF Connected
<1>8. CASE StartFailsAndStops
  BY <1>8 DEF StartFailsAndStops
<1>9. CASE StartThrows
  BY <1>9 DEF StartThrows
<1>10. CASE NextPage
  BY <1>10 DEF NextPage
<1>11. CASE NoMorePages
  BY <1>11 DEF NoMorePages
<1>12. CASE Increment
  BY <1>12 DEF Increment
<1>13. CASE RunSynchronously
  BY <1>13 DEF RunSynchronously
<1>14. CASE RunAsynchronously
  BY <1>14 DEF RunAsynchronously
<1>15. CASE RunFails
  BY <1>15 DEF RunFails
<1>16. CASE RunThrows
  BY <1>16 DEF RunThrows
<1>17. CASE ResultsAreIn
  BY <1>17 DEF ResultsAreIn
<1>18. CASE FinallyCheck
  BY <1>18 DEF FinallyCheck
<1>19. CASE Bye
  <2>1. cur \in Groups /\ pc = "bye" /\ sys' = Killed(cur)
    BY <1>19 DEF Bye
  <2>2. ASSUME ~isStopped, ~failed
        PROVE  given[cur] = Pages[cur] /\ reported[cur] = Pages[cur]
    BY <1>19, <2>1, <2>2 DEF Bye
  <2>3. CASE failed
    BY <1>19, <2>1, <2>3 DEF Bye
  <2>4. CASE ~failed
    BY <1>19, <2>1, <2>2, <2>4 DEF Bye
  <2> QED
    BY <2>3, <2>4
<1>20. CASE ByeFailsAndStops
  BY <1>20 DEF ByeFailsAndStops
<1>21. CASE ByeThrows
  BY <1>21 DEF ByeThrows
<1>22. CASE CloseFormatters
  BY <1>22 DEF CloseFormatters
<1>23. CASE Unregister
  BY <1>23 DEF Unregister
<1>24. ASSUME NEW i \in Groups, ReportResult(i) PROVE ResultsInv'
  BY <1>24, SMTT(60) DEF ReportResult
<1>25. ASSUME NEW i \in Groups, Decrement(i) PROVE ResultsInv'
  BY <1>25 DEF Decrement
<1>26. ASSUME NEW i \in Groups, ListenerDies(i) PROVE ResultsInv'
  BY <1>26 DEF ListenerDies
<1>27. ASSUME NEW i \in Groups, ListenerStops(i) PROVE ResultsInv'
  BY <1>27 DEF ListenerStops
<1>28. ASSUME NEW s \in Stoppers, FindRun(s) PROVE ResultsInv'
  BY <1>28 DEF FindRun
<1>29. ASSUME NEW s \in Stoppers, ReadIsStopped(s) PROVE ResultsInv'
  BY <1>29 DEF ReadIsStopped
<1>30. ASSUME NEW s \in Stoppers, SetIsStopped(s) PROVE ResultsInv'
  BY <1>30 DEF SetIsStopped
<1>31. ASSUME NEW s \in Stoppers, KillTestSystem(s) PROVE ResultsInv'
  BY <1>31 DEF KillTestSystem
<1>32. CASE UNCHANGED vars
  BY <1>32 DEF vars
<1> QED
  BY <1>1, <1>2, <1>3, <1>4, <1>5, <1>6, <1>7, <1>8, <1>9,
     <1>10, <1>11, <1>12, <1>13, <1>14, <1>15, <1>16, <1>17, <1>18,
     <1>19, <1>20, <1>21, <1>22, <1>23, <1>24, <1>25, <1>26, <1>27,
     <1>28, <1>29, <1>30, <1>31, <1>32
     DEF Next, RunnerNext, ListenerNext, StopperNext

\* The formatters are closed last.
LEMMA OpenStep ==
  ASSUME OpenInv, [Next]_vars
  PROVE  OpenInv'
<1> USE DEF OpenInv,
        Starting, Connecting, control, counting, systems, stopping, Goto, LeaveGroup,
        MarkStopped, FailsAndStops
<1>1. CASE Register
  BY <1>1 DEF Register
<1>2. CASE AllGroupsDone
  BY <1>2 DEF AllGroupsDone
<1>3. CASE CheckStopped
  BY <1>3 DEF CheckStopped
<1>4. CASE CreateTestSystem
  BY <1>4 DEF CreateTestSystem
<1>5. CASE UnableToCreate
  BY <1>5 DEF UnableToCreate
<1>6. CASE Listen \/ Launch
  BY <1>6 DEF Listen, Launch
<1>7. CASE Connected
  BY <1>7 DEF Connected
<1>8. CASE StartFailsAndStops
  BY <1>8 DEF StartFailsAndStops
<1>9. CASE StartThrows
  BY <1>9 DEF StartThrows
<1>10. CASE NextPage
  BY <1>10 DEF NextPage
<1>11. CASE NoMorePages
  BY <1>11 DEF NoMorePages
<1>12. CASE Increment
  BY <1>12 DEF Increment
<1>13. CASE RunSynchronously
  BY <1>13 DEF RunSynchronously
<1>14. CASE RunAsynchronously
  BY <1>14 DEF RunAsynchronously
<1>15. CASE RunFails
  BY <1>15 DEF RunFails
<1>16. CASE RunThrows
  BY <1>16 DEF RunThrows
<1>17. CASE ResultsAreIn
  BY <1>17 DEF ResultsAreIn
<1>18. CASE FinallyCheck
  BY <1>18 DEF FinallyCheck
<1>19. CASE Bye
  BY <1>19 DEF Bye
<1>20. CASE ByeFailsAndStops
  BY <1>20 DEF ByeFailsAndStops
<1>21. CASE ByeThrows
  BY <1>21 DEF ByeThrows
<1>22. CASE CloseFormatters
  BY <1>22 DEF CloseFormatters
<1>23. CASE Unregister
  BY <1>23 DEF Unregister
<1>24. ASSUME NEW i \in Groups, ReportResult(i) PROVE OpenInv'
  BY <1>24 DEF ReportResult
<1>25. ASSUME NEW i \in Groups, Decrement(i) PROVE OpenInv'
  BY <1>25 DEF Decrement
<1>26. ASSUME NEW i \in Groups, ListenerDies(i) PROVE OpenInv'
  BY <1>26 DEF ListenerDies
<1>27. ASSUME NEW i \in Groups, ListenerStops(i) PROVE OpenInv'
  BY <1>27 DEF ListenerStops
<1>28. ASSUME NEW s \in Stoppers, FindRun(s) PROVE OpenInv'
  BY <1>28 DEF FindRun
<1>29. ASSUME NEW s \in Stoppers, ReadIsStopped(s) PROVE OpenInv'
  BY <1>29 DEF ReadIsStopped
<1>30. ASSUME NEW s \in Stoppers, SetIsStopped(s) PROVE OpenInv'
  BY <1>30 DEF SetIsStopped
<1>31. ASSUME NEW s \in Stoppers, KillTestSystem(s) PROVE OpenInv'
  BY <1>31 DEF KillTestSystem
<1>32. CASE UNCHANGED vars
  BY <1>32 DEF vars
<1> QED
  BY <1>1, <1>2, <1>3, <1>4, <1>5, <1>6, <1>7, <1>8, <1>9,
     <1>10, <1>11, <1>12, <1>13, <1>14, <1>15, <1>16, <1>17, <1>18,
     <1>19, <1>20, <1>21, <1>22, <1>23, <1>24, <1>25, <1>26, <1>27,
     <1>28, <1>29, <1>30, <1>31, <1>32
     DEF Next, RunnerNext, ListenerNext, StopperNext

-----------------------------------------------------------------------------
LEMMA InitIInv == Init => IInv
<1> SUFFICES ASSUME Init PROVE IInv
  OBVIOUS
<1>1. TypeOK
  <2>1. /\ 1 \in 1..(N + 1) /\ 0 \in 0..N /\ 0 \in 0..(N + 1)
    BY NAssumption
  <2>2. /\ "register" \in RunnerStates /\ "none" \in SystemStates
        /\ "idle" \in ListenerStates /\ "idle" \in StopperStates
    BY DEF RunnerStates, SystemStates, ListenerStates, StopperStates
  <2>3. /\ sys \in [Groups -> SystemStates] /\ given \in [Groups -> Nat]
        /\ reported \in [Groups -> Nat] /\ listener \in [Groups -> ListenerStates]
        /\ listenerReg \in [Groups -> Int]
        /\ stopper \in [Stoppers -> StopperStates]
        /\ wasNotStopped \in [Stoppers -> BOOLEAN]
    BY <2>2 DEF Init
  <2>4. /\ pc \in RunnerStates /\ stopPc \in RunnerStates
        /\ cur \in 1..(N + 1) /\ field \in 0..N /\ stopAt \in 0..(N + 1)
        /\ count \in Int /\ runnerReg \in Int
        /\ unable \subseteq Groups /\ untidy \subseteq Groups
    BY <2>1, <2>2 DEF Init
  <2>5. /\ isStopped \in BOOLEAN /\ failed \in BOOLEAN
        /\ open \in BOOLEAN /\ registered \in BOOLEAN
    BY Zenon DEF Init
  <2> QED
    BY <2>3, <2>4, <2>5 DEF TypeOK
<1>2. /\ CursorInv /\ CreatedInv /\ StoppedInv /\ ReleasedInv
      /\ StopperInv /\ OpenInv
  BY NAssumption DEF Init, CursorInv, CreatedInv, StoppedInv, ReleasedInv,
                     StopperInv, OpenInv, InGroup, Starting, Ended, Groups
<1>3. ResultsInv
  BY NAssumption, PagesAssumption, AsyncAssumption
     DEF Init, ResultsInv, InGroup, Starting, Ended, Groups
<1> QED
  BY <1>1, <1>2, <1>3 DEF IInv

LEMMA IInvStep == IInv /\ [Next]_vars => IInv'
BY TypeStep, CursorStep, CreatedStep, StoppedStep, ReleasedStep, StopperStep,
   ResultsStep, OpenStep DEF IInv

\* IInv holds in every reachable state.
THEOREM Invariance == Spec => []IInv
BY InitIInv, IInvStep, PTL DEF Spec

\* Every variable keeps its type: in particular the runner never looks beyond
\* the last identity.
THEOREM TypeCorrect == Spec => []TypeOK
<1>1. IInv => TypeOK
  BY DEF IInv
<1> QED
  BY <1>1, Invariance, PTL

\* Test systems of two groups never run side by side (startTestSystem is never
\* reached while the previous group's process, if it was started and stopped
\* properly, still runs).
THEOREM Exclusive == Spec => []OneSystemAtATime
<1>1. IInv => OneSystemAtATime
  <2> SUFFICES ASSUME IInv, NEW i \in Groups, NEW j \in Groups, i < j,
                      sys[i] = "alive", sys[j] = "alive"
               PROVE  i \in untidy
    BY DEF OneSystemAtATime
  <2>1. i \in Int /\ j \in Int /\ cur \in Int /\ stopAt \in Int
    BY NAssumption DEF Groups, IInv, TypeOK
  <2>2. j <= cur
    BY <2>1 DEF IInv, CreatedInv
  <2>3. i \in untidy \/ (isStopped /\ stopAt <= i)
    BY <2>1, <2>2 DEF IInv, ReleasedInv
  <2>4. isStopped => j <= stopAt
    BY <2>1 DEF IInv, StoppedInv
  <2> QED
    BY <2>1, <2>3, <2>4
<1> QED
  BY <1>1, Invariance, PTL

\* A stop ends the run at the group it meets, whichever thread asks for it.
THEOREM SkipsTheRest == Spec => []StopSkipsTheRest
<1>1. IInv => StopSkipsTheRest
  BY DEF IInv, StoppedInv, StopSkipsTheRest
<1> QED
  BY <1>1, Invariance, PTL

\* An unstopped run leaves no process behind.
THEOREM Releases == Spec => []UnstoppedRunReleases
<1>1. IInv => UnstoppedRunReleases
  BY DEF IInv, ReleasedInv, UnstoppedRunReleases, Ended
<1> QED
  BY <1>1, Invariance, PTL

\* An unstopped run loses no result.
THEOREM LosesNothing == Spec => []FinishedGroupIsReported
<1>1. IInv => FinishedGroupIsReported
  BY DEF IInv, ResultsInv, FinishedGroupIsReported
<1> QED
  BY <1>1, Invariance, PTL

\* Outside its window, stop() kills the test system of the run.
THEOREM StopReaches == Spec => []StopReachesTheTestSystem
<1>1. IInv => StopReachesTheTestSystem
  BY DEF IInv, StopperInv, StopReachesTheTestSystem
<1> QED
  BY <1>1, Invariance, PTL

\* No result reaches closed formatters, but for a stopped run or a test system
\* whose bye() threw.
THEOREM LateResults == Spec => NoLateResults
<1> DEFINE A == \A i \in Groups :
              reported'[i] # reported[i] /\ ~open => isStopped \/ i \in untidy
<1>1. IInv /\ [Next]_vars => [A]_vars
  <2> SUFFICES ASSUME IInv, Next, NEW i \in Groups, reported'[i] # reported[i],
                      ~open, ~isStopped
               PROVE  i \in untidy
    BY DEF A
  <2>1. pc \in Ended /\ pc # "run"
    BY DEF IInv, OpenInv, Ended
  <2>2. reported \in [Groups -> Nat]
    BY DEF IInv, TypeOK
  <2>3. ~RunnerNext
    <3>1. ~RunSynchronously
      BY <2>1 DEF RunSynchronously
    <3> QED
      BY <3>1, <2>2
         DEF RunnerNext, Register, AllGroupsDone, CheckStopped,
             CreateTestSystem, UnableToCreate, Listen, Launch, Connected,
             StartFailsAndStops, StartThrows, NextPage, NoMorePages, Increment,
             RunAsynchronously, RunFails, RunThrows, ResultsAreIn,
             FinallyCheck, Bye, ByeFailsAndStops, ByeThrows, CloseFormatters,
             Unregister
  <2>4. ASSUME NEW s \in Stoppers, StopperNext(s) PROVE FALSE
    BY <2>4 DEF StopperNext, FindRun, ReadIsStopped, SetIsStopped,
                KillTestSystem
  <2>5. PICK j \in Groups : ListenerNext(j)
    BY <2>3, <2>4 DEF Next
  <2>6. ReportResult(j) /\ j = i
    BY <2>2, <2>5 DEF ListenerNext, ReportResult, Decrement, ListenerDies,
                      ListenerStops
  <2> QED
    BY <2>1, <2>6 DEF ReportResult, IInv, ReleasedInv
<1>2. NoLateResults <=> [][A]_vars
  BY DEF NoLateResults, A
<1> QED
  BY <1>1, <1>2, Invariance, PTL DEF Spec

=============================================================================
