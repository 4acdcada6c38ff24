---------------------------- MODULE SocketService ----------------------------
(***************************************************************************)
(* SocketService: a thread that accepts connections on a ServerSocket and  *)
(* hands each one to a SocketServer.  Three kinds of threads meet here:    *)
(*                                                                         *)
(*   - the owner, inside the constructor: it starts the service thread and *)
(*     then joins it, so the constructor returns when the service has      *)
(*     ended and nobody can hold a reference to it before;                 *)
(*   - the service thread, with its volatile flags running and everRan;    *)
(*   - the callers of close().                                             *)
(*                                                                         *)
(* What serve() does with a connection is left to the module that uses the *)
(* service (see FitNesseServer); alone, the service just takes it.         *)
(* Running out of memory ends the whole process and is not modelled.       *)
(***************************************************************************)
EXTENDS Naturals, FiniteSets

CONSTANTS
  Connections,  \* the connections clients will make
  Closers       \* the calls of close()

ASSUME ConnectionsAssumption == IsFiniteSet(Connections)

VARIABLES
  owner,      \* where the constructor is
  svc,        \* where the service thread is
  running, everRan, \* its flags
  bound,      \* the ServerSocket is open
  backlog,    \* connections made and not accepted
  taken,      \* connections that have been accepted
  inHand,     \* the connection being served, as a set of at most one
  closer      \* closer[k]: where a call of close() is

threadVars == <<owner, svc, running, everRan>>
socketVars == <<bound, backlog, taken, inHand>>
serviceVars == <<owner, svc, running, everRan, bound, backlog, taken, inHand,
                 closer>>

OwnerStates == {"new", "joining", "constructed"}
ServiceStates == {"none", "begin", "check", "accept", "serve", "ended"}
CloserStates == {"idle", "wait", "clear", "unbind", "join", "returned"}

ServiceTypeOK ==
  /\ owner \in OwnerStates
  /\ svc \in ServiceStates
  /\ running \in BOOLEAN /\ everRan \in BOOLEAN /\ bound \in BOOLEAN
  /\ backlog \subseteq Connections
  /\ taken \subseteq Connections
  /\ inHand \subseteq taken
  /\ closer \in [Closers -> CloserStates]

ServiceInit ==
  /\ owner = "new" /\ svc = "none"
  /\ running = FALSE /\ everRan = FALSE /\ bound = TRUE
  /\ backlog = {} /\ taken = {} /\ inHand = {}
  /\ closer = [k \in Closers |-> "idle"]

-----------------------------------------------------------------------------
(* The constructor *)

StartThread ==
  /\ owner = "new"
  /\ owner' = "joining" /\ svc' = "begin"
  /\ UNCHANGED <<running, everRan, socketVars, closer>>

ConstructorReturns ==
  /\ owner = "joining" /\ svc = "ended"
  /\ owner' = "constructed"
  /\ UNCHANGED <<svc, running, everRan, socketVars, closer>>

(* A client: the operating system accepts on behalf of the open socket. *)
Connect(c) ==
  /\ bound /\ c \notin backlog \cup taken
  /\ backlog' = backlog \cup {c}
  /\ UNCHANGED <<threadVars, bound, taken, inHand, closer>>

(* The service thread *)

Begin ==
  /\ svc = "begin"
  /\ running' = TRUE /\ svc' = "check"
  /\ UNCHANGED <<owner, everRan, socketVars, closer>>

LoopCheck ==
  /\ svc = "check"
  /\ svc' = IF running THEN "accept" ELSE "ended"
  /\ UNCHANGED <<owner, running, everRan, socketVars, closer>>

Accept(c) ==
  /\ svc = "accept" /\ bound /\ c \in backlog
  /\ backlog' = backlog \ {c} /\ taken' = taken \cup {c} /\ inHand' = {c}
  /\ everRan' = TRUE /\ svc' = "serve"
  /\ UNCHANGED <<owner, running, bound, closer>>

\* serve(s) returns, or an IOException that is logged.
Serve(c) ==
  /\ svc = "serve" /\ c \in inHand
  /\ inHand' = {} /\ svc' = "check"
  /\ UNCHANGED <<owner, running, everRan, bound, backlog, taken, closer>>

\* A SocketException ends the loop, wherever it comes from: accept on a closed
\* socket or without a free descriptor, or serve() on a broken connection.
SocketFails ==
  /\ svc \in {"accept", "serve"}
  /\ running' = FALSE /\ svc' = "check" /\ inHand' = {}
  /\ UNCHANGED <<owner, everRan, bound, backlog, taken, closer>>

(* close() *)

CloseBegins(k) ==
  /\ closer[k] = "idle" /\ owner = "constructed"
  /\ closer' = [closer EXCEPT ![k] = "wait"]
  /\ UNCHANGED <<threadVars, socketVars>>

\* waitForServiceThreadToStart
CloseSeesStart(k) ==
  /\ closer[k] = "wait" /\ (everRan \/ running)
  /\ closer' = [closer EXCEPT ![k] = "clear"]
  /\ UNCHANGED <<threadVars, socketVars>>

CloseClearsRunning(k) ==
  /\ closer[k] = "clear"
  /\ running' = FALSE
  /\ closer' = [closer EXCEPT ![k] = "unbind"]
  /\ UNCHANGED <<owner, svc, everRan, socketVars>>

CloseUnbinds(k) ==
  /\ closer[k] = "unbind"
  /\ bound' = FALSE /\ backlog' = {}
  /\ closer' = [closer EXCEPT ![k] = "join"]
  /\ UNCHANGED <<threadVars, taken, inHand>>

CloseJoins(k) ==
  /\ closer[k] = "join" /\ svc = "ended"
  /\ closer' = [closer EXCEPT ![k] = "returned"]
  /\ UNCHANGED <<threadVars, socketVars>>

-----------------------------------------------------------------------------
CloserNext(k) ==
  \/ CloseBegins(k) \/ CloseSeesStart(k) \/ CloseClearsRunning(k)
  \/ CloseUnbinds(k) \/ CloseJoins(k)

ServiceNext ==
  \/ StartThread \/ ConstructorReturns \/ Begin \/ LoopCheck \/ SocketFails
  \/ \E c \in Connections : Connect(c) \/ Accept(c) \/ Serve(c)
  \/ \E k \in Closers : CloserNext(k)

ServiceSpec == ServiceInit /\ [][ServiceNext]_serviceVars

=============================================================================
