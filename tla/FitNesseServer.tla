--------------------------- MODULE FitNesseServer ---------------------------
(***************************************************************************)
(* The HTTP server: FitNesse.start() runs a SocketService whose serve()    *)
(* submits a FitNesseExpediter to a thread pool.  The expediter submits    *)
(* the parsing of the request to the SAME pool and waits for it, with a    *)
(* time limit; then it makes the response and sends it, which closes the   *)
(* connection.  The shutdown responder starts a thread that calls          *)
(* FitNesse.stop().                                                        *)
(*                                                                         *)
(* The pool is java.util.concurrent.ThreadPoolExecutor, modelled from how  *)
(* FitNesse makes and uses it: a task gets a new thread below Core, else a *)
(* place in the queue, else a new thread below MaxThreads, else it is      *)
(* rejected, which FitNesse only logs.  After shutdown() every task is     *)
(* rejected and what is queued is still run.                               *)
(***************************************************************************)
EXTENDS SocketService, Sequences

CONSTANTS
  Slow,        \* connections whose client does not send all of its request
  Core, MaxThreads, QueueSize   \* of the pool: 5, 100 and 2 in FitNesse

ASSUME ClientsAssumption ==
  Slow \subseteq Connections
ASSUME ClosersAssumption == Closers \subseteq Connections
ASSUME PoolAssumption ==
  /\ Core \in Nat \ {0} /\ MaxThreads \in Nat /\ QueueSize \in Nat \ {0}
  /\ Core =< MaxThreads

VARIABLES
  onThread,   \* the tasks that pool threads are running
  idle,       \* the number of pool threads that are not running one
  queue,      \* the pool's queue
  isShutdown, \* the pool has been shut down
  req,        \* req[c]: how far the expediter of c is
  parse,      \* parse[c]: the outcome of the parse task of c
  answer,     \* answer[c]: the status sent to c, 0 if none
  theService, \* FitNesse.theService is not null
  monitor,    \* the threads inside FitNesse.stop(), which is synchronized
  stopper     \* stopper[c]: where the thread the shutdown responder started is

poolVars == <<onThread, idle, queue, isShutdown>>
requestVars == <<req, parse, answer>>
stopVars == <<theService, monitor, stopper>>
serverVars == <<poolVars, requestVars, stopVars>>
vars == <<serviceVars, serverVars>>

Tasks == {"serve", "parse"} \X Connections
RequestStates == {"none", "accepted", "waiting", "making", "sending", "closed",
                  "abandoned"}
ParseStates == {"none", "pending", "rejected", "parsed", "failed"}
StopperStates == {"none", "started", "look", "close", "shutdown", "done"}

Threads == Cardinality(onThread) + idle

ServerTypeOK ==
  /\ ServiceTypeOK
  /\ onThread \subseteq Tasks
  /\ idle \in Nat /\ Threads =< MaxThreads
  /\ queue \in Seq(Tasks) /\ Len(queue) =< QueueSize
  /\ isShutdown \in BOOLEAN
  /\ req \in [Connections -> RequestStates]
  /\ parse \in [Connections -> ParseStates]
  /\ answer \in [Connections -> {0, 200, 400, 408}]
  /\ theService \in BOOLEAN
  /\ monitor \subseteq Closers
  /\ stopper \in [Closers -> StopperStates]

Init ==
  /\ ServiceInit
  /\ onThread = {} /\ idle = 0 /\ queue = <<>> /\ isShutdown = FALSE
  /\ req = [c \in Connections |-> "none"]
  /\ parse = [c \in Connections |-> "none"]
  /\ answer = [c \in Connections |-> 0]
  /\ theService = FALSE
  /\ monitor = {}
  /\ stopper = [k \in Closers |-> "none"]

-----------------------------------------------------------------------------
(* The thread pool *)

NewThread(t) == onThread' = onThread \cup {t} /\ UNCHANGED <<idle, queue>>
Enqueue(t) == queue' = Append(queue, t) /\ UNCHANGED <<onThread, idle>>

HasRoom_OneMore == Len(queue) =< QueueSize
HasRoom == Len(queue) < QueueSize

Submitted(t) ==
  /\ ~isShutdown
  /\ \/ Threads < Core /\ NewThread(t)
     \/ Threads >= Core /\ HasRoom /\ Enqueue(t)
     \/ Threads >= Core /\ ~HasRoom /\ Threads < MaxThreads /\ NewThread(t)
  /\ UNCHANGED isShutdown

Rejected ==
  /\ isShutdown \/ (Threads >= MaxThreads /\ ~HasRoom)
  /\ UNCHANGED poolVars

Finished(t) ==
  /\ onThread' = onThread \ {t} /\ idle' = idle + 1
  /\ UNCHANGED <<queue, isShutdown>>

\* A free thread takes the next task.
Take ==
  /\ idle > 0 /\ queue # <<>>
  /\ onThread' = onThread \cup {Head(queue)} /\ queue' = Tail(queue)
  /\ idle' = idle - 1
  /\ UNCHANGED <<isShutdown, serviceVars, requestVars, stopVars>>

\* A free thread beyond the core times out, or the pool is being shut down.
ThreadEnds ==
  /\ idle > 0
  /\ Threads > Core \/ (isShutdown /\ queue = <<>>)
  /\ idle' = idle - 1
  /\ UNCHANGED <<onThread, queue, isShutdown, serviceVars, requestVars, stopVars>>

-----------------------------------------------------------------------------
(* FitNesseServer.serve and the expediter *)

ServeRequest(c) ==
  /\ Serve(c)
  /\ \/ Submitted(<<"serve", c>>) /\ req' = [req EXCEPT ![c] = "accepted"]
     \/ Rejected /\ req' = [req EXCEPT ![c] = "abandoned"]
  /\ UNCHANGED <<parse, answer, stopVars>>

\* makeResponse hands the parsing to the pool.  A rejected task's Future never
\* completes.
SubmitParse(c) ==
  /\ <<"serve", c>> \in onThread /\ req[c] = "accepted"
  /\ req' = [req EXCEPT ![c] = "waiting"]
  /\ \/ Submitted(<<"parse", c>>) /\ parse' = [parse EXCEPT ![c] = "pending"]
     \/ Rejected /\ parse' = [parse EXCEPT ![c] = "rejected"]
  /\ UNCHANGED <<answer, serviceVars, stopVars>>

\* request.parse() ends: on a closed connection it can only fail.
Parse(c) ==
  /\ <<"parse", c>> \in onThread
  /\ \/ req[c] # "closed" /\ parse' = [parse EXCEPT ![c] = "parsed"]
     \/ parse' = [parse EXCEPT ![c] = "failed"]
  /\ Finished(<<"parse", c>>)
  /\ UNCHANGED <<req, answer, serviceVars, stopVars>>

\* Future.get: the request, an ExecutionException, or a TimeoutException.
GetRequest(c) ==
  /\ req[c] = "waiting" /\ parse[c] = "parsed"
  /\ req' = [req EXCEPT ![c] = "making"]
  /\ UNCHANGED <<parse, answer, serviceVars, poolVars, stopVars>>

Answer(c, status) ==
  /\ req' = [req EXCEPT ![c] = "sending"]
  /\ answer' = [answer EXCEPT ![c] = status]

GetFailure(c) ==
  /\ req[c] = "waiting" /\ parse[c] = "failed"
  /\ Answer(c, 400)
  /\ UNCHANGED <<parse, serviceVars, poolVars, stopVars>>

GetTimesOut_Never(c) == FALSE /\ UNCHANGED vars

GetTimesOut(c) ==
  /\ req[c] = "waiting" /\ parse[c] \in {"pending", "rejected"}
  /\ Answer(c, 408)
  /\ UNCHANGED <<parse, serviceVars, poolVars, stopVars>>

\* createGoodResponse; the shutdown responder starts its thread.
MakeResponse(c) ==
  /\ req[c] = "making"
  /\ Answer(c, 200)
  /\ stopper' = IF c \in Closers THEN [stopper EXCEPT ![c] = "started"] ELSE stopper
  /\ UNCHANGED <<parse, theService, monitor, serviceVars, poolVars>>

Send_LeavesOpen(c) ==
  /\ req[c] = "sending"
  /\ req' = [req EXCEPT ![c] = "abandoned"]
  /\ Finished(<<"serve", c>>)
  /\ UNCHANGED <<parse, answer, serviceVars, stopVars>>

\* sendTo closes the connection; a SimpleResponse, so every error report, does
\* so also when the sending fails.
Send(c) ==
  /\ req[c] = "sending"
  /\ req' = [req EXCEPT ![c] = "closed"]
  /\ Finished(<<"serve", c>>)
  /\ UNCHANGED <<parse, answer, serviceVars, stopVars>>

\* A SocketException or an Error from the responder, or from the sending of the
\* chunks of its response: run() swallows it and leaves the connection open.
Breaks(c) ==
  /\ req[c] = "making" \/ (req[c] = "sending" /\ answer[c] = 200)
  /\ req' = [req EXCEPT ![c] = "abandoned"]
  /\ Finished(<<"serve", c>>)
  /\ UNCHANGED <<parse, answer, serviceVars, stopVars>>

-----------------------------------------------------------------------------
(* FitNesse.start and FitNesse.stop *)

StartReturns ==
  /\ ConstructorReturns
  /\ theService' = TRUE
  /\ UNCHANGED <<monitor, stopper, poolVars, requestVars>>

StopLocks_NoMonitor(c) ==
  /\ stopper[c] = "started"
  /\ monitor' = monitor \cup {c}
  /\ stopper' = [stopper EXCEPT ![c] = "look"]
  /\ UNCHANGED <<theService, serviceVars, poolVars, requestVars>>

StopLocks(c) ==
  /\ stopper[c] = "started" /\ monitor = {}
  /\ monitor' = {c}
  /\ stopper' = [stopper EXCEPT ![c] = "look"]
  /\ UNCHANGED <<theService, serviceVars, poolVars, requestVars>>

StopLooks(c) ==
  /\ stopper[c] = "look"
  /\ \/ theService /\ stopper' = [stopper EXCEPT ![c] = "close"]
     \/ ~theService /\ stopper' = [stopper EXCEPT ![c] = "shutdown"]
  /\ UNCHANGED <<theService, monitor, serviceVars, poolVars, requestVars>>

Closes(c) == stopper[c] = "close" /\ CloserNext(c) /\ UNCHANGED serverVars

StopForgets(c) ==
  /\ stopper[c] = "close" /\ closer[c] = "returned"
  /\ theService' = FALSE
  /\ stopper' = [stopper EXCEPT ![c] = "shutdown"]
  /\ UNCHANGED <<monitor, serviceVars, poolVars, requestVars>>

StopShutsDown_Now(c) ==
  /\ stopper[c] = "shutdown"
  /\ isShutdown' = TRUE /\ queue' = <<>>
  /\ monitor' = monitor \ {c}
  /\ stopper' = [stopper EXCEPT ![c] = "done"]
  /\ UNCHANGED <<onThread, idle, theService, serviceVars, requestVars>>

StopShutsDown(c) ==
  /\ stopper[c] = "shutdown"
  /\ isShutdown' = TRUE
  /\ monitor' = monitor \ {c}
  /\ stopper' = [stopper EXCEPT ![c] = "done"]
  /\ UNCHANGED <<onThread, idle, queue, theService, serviceVars, requestVars>>

-----------------------------------------------------------------------------
ServiceStep ==
  /\ \/ StartThread \/ Begin \/ LoopCheck \/ SocketFails
     \/ \E c \in Connections : Connect(c) \/ Accept(c)
  /\ UNCHANGED serverVars

Expedite(c) ==
  SubmitParse(c) \/ GetRequest(c) \/ GetFailure(c) \/ MakeResponse(c) \/ Send(c)

Stop(c) ==
  StopLocks(c) \/ StopLooks(c) \/ Closes(c) \/ StopForgets(c) \/ StopShutsDown(c)

Next ==
  \/ ServiceStep \/ StartReturns \/ Take \/ ThreadEnds
  \/ \E c \in Connections :
       ServeRequest(c) \/ Expedite(c) \/ GetTimesOut(c) \/ Breaks(c) \/ Parse(c)
  \/ \E k \in Closers : Stop(k)

Spec == Init /\ [][Next]_vars

-----------------------------------------------------------------------------
(* Fairness *)

\* Threads are scheduled, time passes, and long responses are made in the end;
\* a slow client need never send the rest of its request.
Fairness ==
  /\ WF_vars(StartThread /\ UNCHANGED serverVars) /\ WF_vars(StartReturns)
  /\ WF_vars(\/ (Begin \/ LoopCheck) /\ UNCHANGED serverVars
             \/ \E c \in Connections :
                  (Accept(c) /\ UNCHANGED serverVars) \/ ServeRequest(c))
  /\ WF_vars(Take)
  /\ \A c \in Connections :
       /\ WF_vars(Expedite(c) \/ GetTimesOut(c))
       /\ WF_vars((c \notin Slow \/ req[c] = "closed") /\ Parse(c))
  /\ \A k \in Closers : WF_vars(Stop(k))

FairSpec == Spec /\ Fairness

-----------------------------------------------------------------------------
(* Properties *)

InPool(t) == t \in onThread \/ \E i \in DOMAIN queue : queue[i] = t

\* Whoever waits for a task waits for one that a thread has or will take:
\* a request that was accepted, and the parse task its expediter waits for,
\* are with a thread or in the queue, and the queue is never left without a
\* thread, even when the pool is shut down under them.
NothingIsLost ==
  /\ \A c \in Connections :
       /\ req[c] = "accepted" => InPool(<<"serve", c>>)
       /\ req[c] \in {"waiting", "making", "sending"} => <<"serve", c>> \in onThread
       /\ parse[c] = "pending" => InPool(<<"parse", c>>)
  /\ queue # <<>> => Threads > 0

\* FitNesse.stop closes the service it has looked at: of two shutdown requests
\* the second does not find theService set to null by the first in between.
StopFindsTheService ==
  \A k \in Closers : stopper[k] = "close" => theService

\* Every request the pool accepts gives its thread back, answered unless its
\* connection broke: the expediters, each holding a thread while it waits for
\* another task of the same pool, do not wait on each other for ever.
ExpeditersFinish ==
  \A c \in Connections : req[c] = "accepted" ~> req[c] \in {"closed", "abandoned"}

\* A client that never completes its request does not keep the thread that
\* parses it: after the time limit the connection is closed under the parser.
ParserIsFreed ==
  \A c \in Connections :
    <<"parse", c>> \in onThread ~> <<"parse", c>> \notin onThread

\* A shutdown request that was answered stops the server.
ShutdownStopsTheServer ==
  \A k \in Closers : answer[k] = 200 ~> svc = "ended"

=============================================================================
