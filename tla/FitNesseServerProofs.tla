------------------------ MODULE FitNesseServerProofs ------------------------
(***************************************************************************)
(* Proofs about FitNesseServer, for any number of clients and any size of  *)
(* the pool and of its queue: type correctness, that the pool loses no     *)
(* task somebody waits for, and that stop() finds the service it closes.   *)
(***************************************************************************)
EXTENDS FitNesseServer, FiniteSetTheorems, TLAPS

-----------------------------------------------------------------------------
(* The pool.  Its invariant says that a queue with tasks has a thread; that *)
(* the tasks on threads are finitely many is what lets them be counted.    *)

PoolTyped ==
  /\ onThread \subseteq Tasks /\ IsFiniteSet(onThread)
  /\ idle \in Nat /\ Threads =< MaxThreads
  /\ queue \in Seq(Tasks) /\ Len(queue) =< QueueSize
  /\ isShutdown \in BOOLEAN

QueueIsServed == queue # <<>> => Threads > 0

PoolInv == PoolTyped /\ QueueIsServed

\* What a step does not lose.
Keeps(u) ==
  /\ InPool(u) => InPool(u)'
  /\ u \in onThread => u \in onThread'

LEMMA AddedThread ==
  ASSUME PoolTyped, NEW t \in Tasks
  PROVE  /\ IsFiniteSet(onThread \cup {t})
         /\ Cardinality(onThread \cup {t}) \in Nat
         /\ Cardinality(onThread) \in Nat
         /\ Cardinality(onThread \cup {t}) =< Cardinality(onThread) + 1
         /\ Cardinality(onThread \cup {t}) > 0
<1>1. IsFiniteSet(onThread)
  BY DEF PoolTyped
<1>2. /\ IsFiniteSet(onThread \cup {t})
      /\ Cardinality(onThread \cup {t}) =
           IF t \in onThread THEN Cardinality(onThread) ELSE Cardinality(onThread) + 1
  BY <1>1, FS_AddElement
<1>3. Cardinality(onThread) \in Nat /\ Cardinality(onThread \cup {t}) \in Nat
  BY <1>1, <1>2, FS_CardinalityType
<1>4. Cardinality(onThread \cup {t}) # 0
  <2>1. onThread \cup {t} # {}
    OBVIOUS
  <2> QED
    BY <1>2, <2>1, FS_EmptySet
<1> QED
  BY <1>2, <1>3, <1>4

LEMMA SubmittedKeeps ==
  ASSUME PoolInv, NEW t \in Tasks, Submitted(t)
  PROVE  PoolInv' /\ InPool(t)' /\ \A u \in Tasks : Keeps(u)
<1>1. /\ onThread \subseteq Tasks /\ idle \in Nat /\ Threads =< MaxThreads
      /\ queue \in Seq(Tasks) /\ Len(queue) =< QueueSize
      /\ isShutdown \in BOOLEAN /\ IsFiniteSet(onThread) /\ Cardinality(onThread) \in Nat
  BY AddedThread DEF PoolInv, PoolTyped
<1>2. CASE NewThread(t) /\ Threads < MaxThreads /\ UNCHANGED isShutdown
  <2>1. /\ onThread' = onThread \cup {t} /\ idle' = idle /\ queue' = queue
        /\ isShutdown' = isShutdown
    BY <1>2 DEF NewThread
  <2>2. Threads' =< MaxThreads /\ Threads' > 0
    <3>1. /\ Cardinality(onThread') \in Nat /\ Cardinality(onThread') > 0
          /\ Cardinality(onThread') =< Cardinality(onThread) + 1
      BY <2>1, AddedThread DEF PoolInv
    <3> QED
      BY <1>1, <1>2, <2>1, <3>1, PoolAssumption DEF Threads
  <2>3. IsFiniteSet(onThread') /\ onThread' \subseteq Tasks
    BY <1>1, <2>1, AddedThread DEF PoolInv
  <2>4. PoolInv'
    BY <1>1, <2>1, <2>2, <2>3 DEF PoolInv, PoolTyped, QueueIsServed
  <2> QED
    BY <2>1, <2>4 DEF InPool, Keeps
<1>3. CASE Enqueue(t) /\ Threads >= Core /\ HasRoom /\ UNCHANGED isShutdown
  <2>1. /\ onThread' = onThread /\ idle' = idle /\ queue' = Append(queue, t)
        /\ isShutdown' = isShutdown
    BY <1>3 DEF Enqueue
  <2>2. /\ queue' \in Seq(Tasks) /\ Len(queue') = Len(queue) + 1
        /\ queue'[Len(queue) + 1] = t
        /\ \A i \in DOMAIN queue : i \in DOMAIN queue' /\ queue'[i] = queue[i]
    BY <1>1, <2>1
  <2>3. Len(queue') =< QueueSize
    BY <1>1, <1>3, <2>2, PoolAssumption DEF HasRoom
  <2>4. Threads' = Threads /\ Threads > 0
    BY <1>1, <1>3, <2>1, PoolAssumption DEF Threads
  <2>5. PoolInv'
    BY <1>1, <2>1, <2>2, <2>3, <2>4 DEF PoolInv, PoolTyped, QueueIsServed
  <2>6. InPool(t)'
    <3>1. Len(queue) + 1 \in DOMAIN queue'
      BY <1>1, <2>2
    <3> QED
      BY <2>2, <3>1 DEF InPool
  <2>7. \A u \in Tasks : Keeps(u)
    BY <2>1, <2>2 DEF InPool, Keeps
  <2> QED
    BY <2>5, <2>6, <2>7
<1> QED
  <2>1. Threads < Core => Threads < MaxThreads
    BY <1>1, PoolAssumption DEF Threads
  <2> QED
    BY <1>2, <1>3, <2>1 DEF Submitted

LEMMA FinishedKeeps ==
  ASSUME PoolInv, NEW t \in onThread, Finished(t)
  PROVE  PoolInv' /\ \A u \in Tasks \ {t} : Keeps(u)
<1>1. /\ onThread \subseteq Tasks /\ idle \in Nat /\ Threads =< MaxThreads
      /\ queue \in Seq(Tasks) /\ Len(queue) =< QueueSize
      /\ isShutdown \in BOOLEAN /\ IsFiniteSet(onThread)
  BY DEF PoolInv, PoolTyped
<1>2. /\ onThread' = onThread \ {t} /\ idle' = idle + 1 /\ queue' = queue
      /\ isShutdown' = isShutdown
  BY DEF Finished
<1>3. /\ IsFiniteSet(onThread') /\ Cardinality(onThread) \in Nat
      /\ Cardinality(onThread') = Cardinality(onThread) - 1
  BY <1>1, <1>2, FS_RemoveElement, FS_CardinalityType
<1>4. Cardinality(onThread') \in Nat
  BY <1>3, FS_CardinalityType
<1>5. Threads' = Threads /\ Threads' > 0
  BY <1>1, <1>2, <1>3, <1>4 DEF Threads
<1>6. PoolInv'
  BY <1>1, <1>2, <1>3, <1>5 DEF PoolInv, PoolTyped, QueueIsServed
<1>7. \A u \in Tasks \ {t} : Keeps(u)
  BY <1>2 DEF InPool, Keeps
<1> QED
  BY <1>6, <1>7

LEMMA TakeKeeps ==
  ASSUME PoolInv, Take
  PROVE  PoolInv' /\ \A u \in Tasks : Keeps(u)
<1>1. /\ onThread \subseteq Tasks /\ idle \in Nat /\ Threads =< MaxThreads
      /\ queue \in Seq(Tasks) /\ Len(queue) =< QueueSize
      /\ isShutdown \in BOOLEAN /\ queue # <<>> /\ idle > 0
  BY DEF PoolInv, PoolTyped, Take
<1>2. /\ onThread' = onThread \cup {Head(queue)} /\ idle' = idle - 1
      /\ queue' = Tail(queue) /\ isShutdown' = isShutdown
  BY DEF Take
<1>3. /\ Head(queue) \in Tasks /\ Tail(queue) \in Seq(Tasks)
      /\ Len(Tail(queue)) = Len(queue) - 1
      /\ \A i \in DOMAIN queue :
           queue[i] = Head(queue) \/ (i - 1 \in DOMAIN Tail(queue)
                                      /\ Tail(queue)[i - 1] = queue[i])
  BY <1>1
<1>4. /\ IsFiniteSet(onThread') /\ Threads' =< MaxThreads /\ Threads' > 0
  <2>1. /\ IsFiniteSet(onThread') /\ Cardinality(onThread) \in Nat
        /\ Cardinality(onThread') \in Nat /\ Cardinality(onThread') > 0
        /\ Cardinality(onThread') =< Cardinality(onThread) + 1
    BY <1>2, <1>3, AddedThread DEF PoolInv
  <2> QED
    BY <1>1, <1>2, <2>1, PoolAssumption DEF Threads
<1>5. Len(queue') =< QueueSize /\ idle' \in Nat
  BY <1>1, <1>2, <1>3, PoolAssumption
<1>6. PoolInv'
  BY <1>1, <1>2, <1>3, <1>4, <1>5 DEF PoolInv, PoolTyped, QueueIsServed
<1>7. \A u \in Tasks : Keeps(u)
  BY <1>2, <1>3 DEF InPool, Keeps
<1> QED
  BY <1>6, <1>7

LEMMA ThreadEndsKeeps ==
  ASSUME PoolInv, ThreadEnds
  PROVE  PoolInv' /\ \A u \in Tasks : Keeps(u)
<1>1. /\ onThread \subseteq Tasks /\ idle \in Nat /\ Threads =< MaxThreads
      /\ queue \in Seq(Tasks) /\ Len(queue) =< QueueSize
      /\ isShutdown \in BOOLEAN /\ IsFiniteSet(onThread) /\ Cardinality(onThread) \in Nat
  BY FS_CardinalityType DEF PoolInv, PoolTyped
<1>2. /\ onThread' = onThread /\ idle' = idle - 1 /\ queue' = queue
      /\ isShutdown' = isShutdown /\ idle > 0
      /\ Threads > Core \/ queue = <<>>
  BY DEF ThreadEnds
<1>3. /\ Threads' = Threads - 1 /\ Threads \in Nat /\ MaxThreads \in Nat
      /\ Core \in Nat /\ Core > 0
  BY <1>1, <1>2, PoolAssumption DEF Threads
<1>4. PoolInv'
  BY <1>1, <1>2, <1>3 DEF PoolInv, PoolTyped, QueueIsServed
<1>5. \A u \in Tasks : Keeps(u)
  BY <1>2 DEF InPool, Keeps
<1> QED
  BY <1>4, <1>5

LEMMA PoolUnchanged ==
  ASSUME PoolInv, \/ UNCHANGED poolVars
                  \/ UNCHANGED <<onThread, idle, queue>> /\ isShutdown' = TRUE
  PROVE  PoolInv' /\ \A u \in Tasks : Keeps(u)
  BY DEF poolVars, PoolInv, PoolTyped, QueueIsServed, Threads, InPool, Keeps

-----------------------------------------------------------------------------
(* The requests.  Once the pool loses no task, that nobody waits in vain   *)
(* only depends on the steps of the expediter of the same connection.      *)

RequestsTyped ==
  /\ req \in [Connections -> RequestStates]
  /\ parse \in [Connections -> ParseStates]
  /\ answer \in [Connections -> {0, 200, 400, 408}]

Waited(c) ==
  /\ req[c] = "accepted" => InPool(<<"serve", c>>)
  /\ req[c] \in {"waiting", "making", "sending"} => <<"serve", c>> \in onThread
  /\ parse[c] = "pending" => InPool(<<"parse", c>>)

RequestInv == PoolInv /\ RequestsTyped /\ \A c \in Connections : Waited(c)

LEMMA OtherRequests ==
  ASSUME RequestInv, NEW c \in Connections,
         Keeps(<<"serve", c>>), Keeps(<<"parse", c>>),
         req'[c] = req[c], parse'[c] = parse[c]
  PROVE  Waited(c)'
<1>1. Waited(c)
  BY DEF RequestInv
<1> QED
  BY <1>1 DEF Waited, Keeps

LEMMA RequestsUnchanged ==
  ASSUME RequestInv, UNCHANGED requestVars,
         PoolInv', \A u \in Tasks : Keeps(u)
  PROVE  RequestInv'
<1>1. RequestsTyped'
  BY DEF requestVars, RequestInv, RequestsTyped
<1>2. ASSUME NEW c \in Connections
      PROVE  Waited(c)'
  <2>1. Keeps(<<"serve", c>>) /\ Keeps(<<"parse", c>>)
    BY DEF Tasks
  <2>2. req'[c] = req[c] /\ parse'[c] = parse[c]
    BY DEF requestVars
  <2> QED
    BY <2>1, <2>2, OtherRequests
<1> QED
  BY <1>1, <1>2 DEF RequestInv

LEMMA ServeRequestKeeps ==
  ASSUME RequestInv, NEW c \in Connections, ServeRequest(c)
  PROVE  RequestInv'
<1>1. RequestsTyped /\ PoolInv /\ <<"serve", c>> \in Tasks
  BY DEF RequestInv, Tasks
<1>2. /\ UNCHANGED <<parse, answer>>
      /\ \/ Submitted(<<"serve", c>>) /\ req' = [req EXCEPT ![c] = "accepted"]
         \/ UNCHANGED poolVars /\ req' = [req EXCEPT ![c] = "abandoned"]
  BY DEF ServeRequest, Rejected
<1>3. PoolInv' /\ \A u \in Tasks : Keeps(u)
  BY <1>1, <1>2, SubmittedKeeps, PoolUnchanged
<1>4. RequestsTyped'
  BY <1>1, <1>2 DEF RequestsTyped, RequestStates
<1>5. ASSUME NEW d \in Connections \ {c}
      PROVE  Waited(d)'
  <2>1. req'[d] = req[d] /\ parse'[d] = parse[d]
    BY <1>1, <1>2 DEF RequestsTyped
  <2>2. Keeps(<<"serve", d>>) /\ Keeps(<<"parse", d>>)
    BY <1>3 DEF Tasks
  <2> QED
    BY <2>1, <2>2, OtherRequests
<1>6. Waited(c)'
  <2>1. Keeps(<<"parse", c>>) /\ Waited(c)
    BY <1>3 DEF RequestInv, Tasks
  <2>2. req'[c] \in {"accepted", "abandoned"}
        /\ (req'[c] = "accepted" => InPool(<<"serve", c>>)')
    BY <1>1, <1>2, SubmittedKeeps DEF RequestsTyped
  <2> QED
    BY <1>2, <2>1, <2>2 DEF Waited, Keeps
<1> QED
  BY <1>3, <1>4, <1>5, <1>6 DEF RequestInv

LEMMA SubmitParseKeeps ==
  ASSUME RequestInv, NEW c \in Connections, SubmitParse(c)
  PROVE  RequestInv'
<1>1. RequestsTyped /\ PoolInv /\ <<"parse", c>> \in Tasks
  BY DEF RequestInv, Tasks
<1>2. /\ <<"serve", c>> \in onThread /\ answer' = answer
      /\ req' = [req EXCEPT ![c] = "waiting"]
      /\ \/ Submitted(<<"parse", c>>) /\ parse' = [parse EXCEPT ![c] = "pending"]
         \/ UNCHANGED poolVars /\ parse' = [parse EXCEPT ![c] = "rejected"]
  BY DEF SubmitParse, Rejected
<1>3. PoolInv' /\ \A u \in Tasks : Keeps(u)
  BY <1>1, <1>2, SubmittedKeeps, PoolUnchanged
<1>4. RequestsTyped'
  BY <1>1, <1>2 DEF RequestsTyped, RequestStates, ParseStates
<1>5. ASSUME NEW d \in Connections \ {c}
      PROVE  Waited(d)'
  <2>1. req'[d] = req[d] /\ parse'[d] = parse[d]
    BY <1>1, <1>2 DEF RequestsTyped
  <2>2. Keeps(<<"serve", d>>) /\ Keeps(<<"parse", d>>)
    BY <1>3 DEF Tasks
  <2> QED
    BY <2>1, <2>2, OtherRequests
<1>6. Waited(c)'
  <2>1. Keeps(<<"serve", c>>)
    BY <1>3 DEF Tasks
  <2>2. req'[c] = "waiting" /\ parse'[c] \in {"pending", "rejected"}
        /\ (parse'[c] = "pending" => InPool(<<"parse", c>>)')
    BY <1>1, <1>2, SubmittedKeeps DEF RequestsTyped
  <2> QED
    BY <1>2, <2>1, <2>2 DEF Waited, Keeps
<1> QED
  BY <1>3, <1>4, <1>5, <1>6 DEF RequestInv

\* The steps that end a task: parsing ends, the response is sent, or it breaks.
LEMMA TaskEndKeeps ==
  ASSUME RequestInv, NEW c \in Connections,
         Parse(c) \/ Send(c) \/ Breaks(c)
  PROVE  RequestInv'
<1>1. RequestsTyped /\ PoolInv /\ Waited(c)
  BY DEF RequestInv
<1>2. PICK k \in {"serve", "parse"} :
        /\ <<k, c>> \in onThread /\ Finished(<<k, c>>) /\ UNCHANGED answer
        /\ \/ /\ k = "parse" /\ UNCHANGED req
              /\ \/ parse' = [parse EXCEPT ![c] = "parsed"]
                 \/ parse' = [parse EXCEPT ![c] = "failed"]
           \/ /\ k = "serve" /\ UNCHANGED parse
              /\ \/ req' = [req EXCEPT ![c] = "closed"]
                 \/ req' = [req EXCEPT ![c] = "abandoned"]
  <2>1. CASE Parse(c)
    BY <2>1 DEF Parse
  <2>2. CASE Send(c)
    BY <1>1, <2>2 DEF Send, Waited
  <2>3. CASE Breaks(c)
    BY <1>1, <2>3 DEF Breaks, Waited
  <2> QED
    BY <2>1, <2>2, <2>3
<1>3. PoolInv' /\ \A u \in Tasks \ {<<k, c>>} : Keeps(u)
  BY <1>1, <1>2, FinishedKeeps
<1>4. RequestsTyped'
  BY <1>1, <1>2 DEF RequestsTyped, RequestStates, ParseStates
<1>5. ASSUME NEW d \in Connections \ {c}
      PROVE  Waited(d)'
  <2>1. req'[d] = req[d] /\ parse'[d] = parse[d]
    BY <1>1, <1>2 DEF RequestsTyped
  <2>2. Keeps(<<"serve", d>>) /\ Keeps(<<"parse", d>>)
    BY <1>3 DEF Tasks
  <2> QED
    BY <2>1, <2>2, OtherRequests
<1>6. Waited(c)'
  <2>1. CASE k = "parse"
    <3>1. parse'[c] # "pending" /\ req'[c] = req[c]
      BY <1>1, <1>2, <2>1 DEF RequestsTyped
    <3>2. Keeps(<<"serve", c>>)
      BY <1>3, <2>1 DEF Tasks
    <3> QED
      BY <1>1, <3>1, <3>2 DEF Waited, Keeps
  <2>2. CASE k = "serve"
    <3>1. req'[c] \in {"closed", "abandoned"} /\ parse'[c] = parse[c]
      BY <1>1, <1>2, <2>2 DEF RequestsTyped
    <3>2. Keeps(<<"parse", c>>)
      BY <1>3, <2>2 DEF Tasks
    <3> QED
      BY <1>1, <3>1, <3>2 DEF Waited, Keeps
  <2> QED
    BY <2>1, <2>2
<1> QED
  BY <1>3, <1>4, <1>5, <1>6 DEF RequestInv

\* The steps inside the task of the expediter.
LEMMA AnswerKeeps ==
  ASSUME RequestInv, NEW c \in Connections,
         GetRequest(c) \/ GetFailure(c) \/ GetTimesOut(c) \/ MakeResponse(c)
  PROVE  RequestInv'
<1>1. RequestsTyped /\ PoolInv /\ Waited(c)
  BY DEF RequestInv
<1>2. /\ req[c] \in {"waiting", "making"}
      /\ \/ req' = [req EXCEPT ![c] = "making"] /\ UNCHANGED answer
         \/ /\ req' = [req EXCEPT ![c] = "sending"]
            /\ \E status \in {200, 400, 408} : answer' = [answer EXCEPT ![c] = status]
      /\ UNCHANGED parse /\ UNCHANGED poolVars
  BY DEF GetRequest, GetFailure, GetTimesOut, MakeResponse, Answer
<1>3. PoolInv' /\ \A u \in Tasks : Keeps(u)
  BY <1>1, <1>2, PoolUnchanged
<1>4. RequestsTyped'
  BY <1>1, <1>2 DEF RequestsTyped, RequestStates
<1>5. ASSUME NEW d \in Connections \ {c}
      PROVE  Waited(d)'
  <2>1. req'[d] = req[d] /\ parse'[d] = parse[d]
    BY <1>1, <1>2 DEF RequestsTyped
  <2>2. Keeps(<<"serve", d>>) /\ Keeps(<<"parse", d>>)
    BY <1>3 DEF Tasks
  <2> QED
    BY <2>1, <2>2, OtherRequests
<1>6. Waited(c)'
  <2>1. req'[c] \in {"making", "sending"}
    BY <1>1, <1>2 DEF RequestsTyped
  <2>2. Keeps(<<"serve", c>>) /\ Keeps(<<"parse", c>>)
    BY <1>3 DEF Tasks
  <2> QED
    BY <1>1, <1>2, <2>1, <2>2 DEF Waited, Keeps
<1> QED
  BY <1>3, <1>4, <1>5, <1>6 DEF RequestInv

LEMMA NextRequestInv ==
  ASSUME RequestInv, [Next]_vars
  PROVE  RequestInv'
<1>1. PoolInv
  BY DEF RequestInv
<1>2. CASE UNCHANGED <<poolVars, requestVars>>
  BY <1>1, <1>2, PoolUnchanged, RequestsUnchanged
<1>3. CASE Take
  BY <1>1, <1>3, TakeKeeps, RequestsUnchanged DEF Take
<1>4. CASE ThreadEnds
  BY <1>1, <1>4, ThreadEndsKeeps, RequestsUnchanged DEF ThreadEnds
<1>5. ASSUME NEW c \in Connections, ServeRequest(c)
      PROVE  RequestInv'
  BY <1>5, ServeRequestKeeps
<1>6. ASSUME NEW c \in Connections, Expedite(c) \/ Breaks(c) \/ Parse(c) \/ GetTimesOut(c)
      PROVE  RequestInv'
  BY <1>6, SubmitParseKeeps, AnswerKeeps, TaskEndKeeps DEF Expedite
<1>7. ASSUME NEW k \in Closers, Stop(k)
      PROVE  RequestInv'
  <2>1. CASE StopShutsDown(k)
    BY <1>1, <2>1, PoolUnchanged, RequestsUnchanged DEF StopShutsDown
  <2>2. CASE ~StopShutsDown(k)
    <3>1. UNCHANGED <<poolVars, requestVars>>
      BY <1>7, <2>2 DEF Stop, StopLocks, StopLooks, Closes, StopForgets, serverVars
    <3> QED
      BY <1>2, <3>1
  <2> QED
    BY <2>1, <2>2
<1>8. CASE ServiceStep \/ StartReturns \/ UNCHANGED vars
  <2>1. UNCHANGED <<poolVars, requestVars>>
    BY <1>8 DEF ServiceStep, StartReturns, vars, serverVars
  <2> QED
    BY <1>2, <2>1
<1> QED
  BY <1>3, <1>4, <1>5, <1>6, <1>7, <1>8 DEF Next

LEMMA InitRequestInv ==
  ASSUME Init
  PROVE  RequestInv
<1>1. /\ onThread = {} /\ idle = 0 /\ queue = <<>> /\ isShutdown = FALSE
      /\ req = [c \in Connections |-> "none"]
      /\ parse = [c \in Connections |-> "none"]
      /\ answer = [c \in Connections |-> 0]
  BY DEF Init
<1>2. IsFiniteSet(onThread) /\ Threads = 0
  BY <1>1, FS_EmptySet DEF Threads
<1>3. queue \in Seq(Tasks) /\ Len(queue) = 0
  BY <1>1
<1>4. Threads =< MaxThreads /\ Len(queue) =< QueueSize
  BY <1>2, <1>3, PoolAssumption
<1>5. PoolInv
  BY <1>1, <1>2, <1>3, <1>4 DEF PoolInv, PoolTyped, QueueIsServed
<1> QED
  BY <1>1, <1>5 DEF RequestInv, RequestsTyped, RequestStates, ParseStates, Waited

\* Whoever waits for a task waits for one that a thread has or will take, also
\* when FitNesse.stop shuts the pool down at any moment.
THEOREM LosesNothing == Spec => []NothingIsLost
<1>1. RequestInv => NothingIsLost
  BY DEF RequestInv, PoolInv, QueueIsServed, Waited, NothingIsLost
<1> QED
  BY <1>1, InitRequestInv, NextRequestInv, PTL DEF Spec

-----------------------------------------------------------------------------
(* FitNesse.stop.  The thread that is inside is the only one.              *)

Inside == {"look", "close", "shutdown"}

StopInv ==
  /\ theService \in BOOLEAN /\ monitor \subseteq Closers
  /\ stopper \in [Closers -> StopperStates]
  /\ \A k \in Closers : stopper[k] \in Inside => monitor = {k}
  /\ StopFindsTheService

LEMMA StopKeeps ==
  ASSUME StopInv, NEW c \in Closers, Stop(c)
  PROVE  StopInv'
<1>1. stopper \in [Closers -> StopperStates] /\ StopFindsTheService
  BY DEF StopInv
<1>2. CASE StopLocks(c)
  <2>1. \A k \in Closers : stopper[k] \notin Inside
    BY <1>2 DEF StopInv, StopLocks
  <2> QED
    BY <1>1, <1>2, <2>1 DEF StopInv, StopLocks, StopFindsTheService, StopperStates, Inside
<1>3. CASE StopLooks(c)
  BY <1>1, <1>3 DEF StopInv, StopLooks, StopFindsTheService, StopperStates, Inside
<1>4. CASE Closes(c)
  BY <1>4 DEF Closes, serverVars, stopVars, StopInv, StopFindsTheService
<1>5. CASE StopForgets(c) \/ StopShutsDown(c)
  <2>1. monitor = {c} /\ \A k \in Closers \ {c} : stopper[k] \notin Inside
    BY <1>5 DEF StopInv, StopForgets, StopShutsDown, Inside
  <2>2. /\ monitor' \in {{}, {c}} /\ (monitor' = {c} \/ stopper'[c] = "done")
        /\ stopper' \in [Closers -> StopperStates] /\ stopper'[c] \in {"shutdown", "done"}
        /\ \A k \in Closers \ {c} : stopper'[k] = stopper[k]
        /\ theService' \in BOOLEAN
    BY <1>1, <1>5, <2>1 DEF StopInv, StopForgets, StopShutsDown, StopperStates
  <2> QED
    BY <2>1, <2>2 DEF StopInv, StopFindsTheService, Inside
<1> QED
  BY <1>2, <1>3, <1>4, <1>5 DEF Stop

LEMMA NextStopInv ==
  ASSUME StopInv, [Next]_vars
  PROVE  StopInv'
<1>1. CASE UNCHANGED stopVars
  BY <1>1 DEF stopVars, StopInv, StopFindsTheService
<1>2. CASE StartReturns
  BY <1>2 DEF StartReturns, StopInv, StopFindsTheService
<1>3. ASSUME NEW c \in Connections, MakeResponse(c)
      PROVE  StopInv'
  <2>1. /\ theService' = theService /\ monitor' = monitor
        /\ stopper' \in [Closers -> StopperStates]
        /\ \A k \in Closers : stopper'[k] = stopper[k] \/ stopper'[k] = "started"
    BY <1>3 DEF MakeResponse, StopInv, StopperStates
  <2> QED
    BY <2>1 DEF StopInv, StopFindsTheService, Inside
<1>4. ASSUME NEW c \in Closers, Stop(c)
      PROVE  StopInv'
  BY <1>4, StopKeeps
<1>5. ASSUME NEW c \in Connections,
             \/ ServeRequest(c) \/ SubmitParse(c) \/ GetRequest(c) \/ GetFailure(c)
             \/ Send(c) \/ Breaks(c) \/ Parse(c) \/ GetTimesOut(c)
      PROVE  StopInv'
  BY <1>1, <1>5 DEF ServeRequest, SubmitParse, GetRequest, GetFailure, Send,
     Breaks, Parse, GetTimesOut
<1>6. CASE ServiceStep \/ Take \/ ThreadEnds \/ UNCHANGED vars
  BY <1>1, <1>6 DEF ServiceStep, Take, ThreadEnds, vars, serverVars
<1> QED
  BY <1>2, <1>3, <1>4, <1>5, <1>6 DEF Next, Expedite

\* FitNesse.stop never closes through a reference that another stop has set to
\* null since it looked.
THEOREM StopsThroughAReference == Spec => []StopFindsTheService
<1>1. Init => StopInv
  BY DEF Init, StopInv, StopFindsTheService, StopperStates, Inside
<1>2. StopInv => StopFindsTheService
  BY DEF StopInv
<1> QED
  BY <1>1, <1>2, NextStopInv, PTL DEF Spec

-----------------------------------------------------------------------------
(* Types *)

LEMMA ServiceTypes ==
  ASSUME ServiceTypeOK, ServiceNext \/ UNCHANGED serviceVars
  PROVE  ServiceTypeOK'
<1>1. CASE StartThread \/ ConstructorReturns \/ Begin \/ LoopCheck \/ SocketFails
  BY <1>1 DEF StartThread, ConstructorReturns, Begin, LoopCheck, SocketFails,
     ServiceTypeOK, socketVars, OwnerStates, ServiceStates
<1>2. ASSUME NEW c \in Connections, Connect(c) \/ Accept(c) \/ Serve(c)
      PROVE  ServiceTypeOK'
  BY <1>2 DEF Connect, Accept, Serve, threadVars, ServiceTypeOK, ServiceStates
<1>3. ASSUME NEW k \in Closers, CloserNext(k)
      PROVE  ServiceTypeOK'
  BY <1>3 DEF CloserNext, CloseBegins, CloseSeesStart, CloseClearsRunning,
     CloseUnbinds, CloseJoins, threadVars, socketVars, ServiceTypeOK, CloserStates
<1>4. CASE UNCHANGED serviceVars
  BY <1>4 DEF serviceVars, ServiceTypeOK
<1> QED
  BY <1>1, <1>2, <1>3, <1>4 DEF ServiceNext

\* Every step of the server is a step of its SocketService or leaves it alone.
LEMMA ServiceIsUsedAsItIs ==
  ASSUME [Next]_vars
  PROVE  ServiceNext \/ UNCHANGED serviceVars
<1>1. CASE ServiceStep \/ StartReturns
  BY <1>1 DEF ServiceStep, StartReturns, ServiceNext
<1>2. ASSUME NEW c \in Connections, ServeRequest(c)
      PROVE  ServiceNext
  BY <1>2 DEF ServeRequest, ServiceNext
<1>3. ASSUME NEW k \in Closers, Closes(k)
      PROVE  ServiceNext
  BY <1>3 DEF Closes, ServiceNext
<1>4. ASSUME NEW k \in Closers, Stop(k), ~Closes(k)
      PROVE  UNCHANGED serviceVars
  BY <1>4 DEF Stop, StopLocks, StopLooks, StopForgets, StopShutsDown
<1>5. ASSUME NEW c \in Connections,
             Expedite(c) \/ Breaks(c) \/ Parse(c) \/ GetTimesOut(c)
      PROVE  UNCHANGED serviceVars
  BY <1>5 DEF Expedite, SubmitParse, GetRequest, GetFailure, MakeResponse, Send,
     Breaks, Parse, GetTimesOut
<1>6. CASE Take \/ ThreadEnds \/ UNCHANGED vars
  BY <1>6 DEF Take, ThreadEnds, vars
<1> QED
  BY <1>1, <1>2, <1>3, <1>4, <1>5, <1>6 DEF Next

\* The types of all variables, among them that the pool never has more than
\* MaxThreads threads nor queues more than QueueSize tasks.
THEOREM ServerTypeCorrect == Spec => []ServerTypeOK
<1> DEFINE TypeInv == ServiceTypeOK /\ RequestInv /\ StopInv
<1>1. Init => TypeInv
  <2>1. Init => ServiceTypeOK
    BY DEF Init, ServiceInit, ServiceTypeOK, OwnerStates, ServiceStates, CloserStates
  <2>2. Init => StopInv
    BY DEF Init, StopInv, StopFindsTheService, StopperStates, Inside
  <2> QED
    BY <2>1, <2>2, InitRequestInv
<1>2. TypeInv /\ [Next]_vars => TypeInv'
  BY ServiceTypes, ServiceIsUsedAsItIs, NextRequestInv, NextStopInv
<1>3. TypeInv => ServerTypeOK
  BY DEF RequestInv, PoolInv, PoolTyped, RequestsTyped, StopInv, ServerTypeOK
<1> QED
  BY <1>1, <1>2, <1>3, PTL DEF Spec

\* The server refines its SocketService: what the service alone guarantees
\* holds of it inside the server.
THEOREM ServerUsesService == Spec => ServiceSpec
<1>1. Init => ServiceInit
  BY DEF Init
<1>2. [Next]_vars => [ServiceNext]_serviceVars
  BY ServiceIsUsedAsItIs
<1> QED
  BY <1>1, <1>2, PTL DEF Spec, ServiceSpec
=============================================================================
