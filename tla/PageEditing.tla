----------------------------- MODULE PageEditing -----------------------------
(***************************************************************************)
(* Editing one wiki page: the edit form, the save that may be refused and  *)
(* answered with a form to merge, the rollback to an old version, and the  *)
(* store below them, a WikiFilePage whose old contents are kept as zip     *)
(* files by ZipFileVersionsController.                                     *)
(*                                                                         *)
(* Every request has a thread and page objects of its own; what requests   *)
(* share is the page's file, the zip files next to it, and the two static  *)
(* maps of SaveRecorder, none of them behind a lock.  A restart loses the  *)
(* maps and the requests, and keeps the files; the forms are in browsers.  *)
(*                                                                         *)
(* One clock stands for the milliseconds of SaveRecorder and the seconds   *)
(* of file times.  A content is a number; zip files torn by a restart hold *)
(* nothing and are left out.  The RecentChanges page, which each request   *)
(* updates last, is another page.                                          *)
(***************************************************************************)
EXTENDS Integers, FiniteSets

CONSTANTS
  Editors,    \* the browsers, each with one form or request at a time
  Days,       \* how long versions are kept
  Apart,      \* requests neither overlap nor arrive in the same millisecond
  Rollbacks,  \* rollbacks are requested
  Restarts,   \* the server may be restarted
  MaxTime, MaxSaves, MaxForms
              \* bounds: of the clock; of the saves submitted and the versions
              \* there may be to roll back to; of the forms asked for

ASSUME DaysAssumption == Days \in Nat \ {0}
ASSUME EnvironmentAssumption ==
  Apart \in BOOLEAN /\ Rollbacks \in BOOLEAN /\ Restarts \in BOOLEAN
ASSUME BoundsAssumption == {MaxTime, MaxSaves, MaxForms} \subseteq Nat

VARIABLES
  now,       \* the clock
  file,      \* the page's file: its content, its time, and the form it is from
  versions,  \* the zip files: named by a time and a counter
  saveTime, ticketRegistry,  \* of SaveRecorder, 0 when there is no entry
  pc,        \* pc[e]: where the request of e is, or what e's browser shows
  form,      \* form[e]: the form in the browser
  data,      \* data[e]: the page data of the request
  made,      \* the contents submitted
  tickets,   \* the tickets drawn
  epoch,     \* history: the tickets drawn before the last restart
  written,   \* history: written[c]: when c was last written to the file, -1 if never
  misfiled   \* history: what a rollback replaced, filed under an older date

vars == <<now, file, versions, saveTime, ticketRegistry, pc, form, data, made,
          tickets, epoch, written, misfiled>>
recorderVars == <<saveTime, ticketRegistry>>
storeVars == <<file, versions, written, misfiled>>

Torn == -1
Contents == 0..MaxSaves   \* 0 is the content before the first save
Times == 0..MaxTime
NoForm == [base |-> 0, time |-> 0, ticket |-> 0]
NoData == [content |-> 0, time |-> 0, counter |-> 0]
States == {"away", "form", "read", "stamp", "check", "load", "register", "name",
           "zip", "prune", "truncate", "write"}

EditTypeOK ==
  /\ now \in Times
  /\ file.content \in Contents \cup {Torn} /\ file.time \in 0..now
  /\ \A v \in versions :
       v.content \in Contents \cup {Torn} /\ v.time \in 0..now /\ v.archived \in 0..now
  /\ \A v, w \in versions : v.time = w.time /\ v.counter = w.counter => v = w
  /\ saveTime \in 0..now /\ ticketRegistry \in 0..tickets
  /\ pc \in [Editors -> States]
  /\ \A e \in Editors : form[e].time \in 0..now /\ form[e].ticket \in 0..tickets
  /\ \A e \in Editors : data[e].content \in 0..made /\ data[e].time \in 0..now
  /\ made \in Contents /\ epoch \in 0..tickets
  /\ written \in [Contents -> -1..now] /\ misfiled \subseteq Contents \cup {Torn}

Init ==
  /\ now = 0
  /\ file = [content |-> 0, time |-> 0, ticket |-> 0] /\ versions = {}
  /\ saveTime = 0 /\ ticketRegistry = 0
  /\ pc = [e \in Editors |-> "away"]
  /\ form = [e \in Editors |-> NoForm] /\ data = [e \in Editors |-> NoData]
  /\ made = 0 /\ tickets = 0 /\ epoch = 0
  /\ written = [c \in Contents |-> IF c = 0 THEN 0 ELSE -1] /\ misfiled = {}

-----------------------------------------------------------------------------
Busy == \E e \in Editors : pc[e] \notin {"away", "form"}

Goto(e, state) == pc' = [pc EXCEPT ![e] = state]

Begin(e, state) ==
  /\ Goto(e, state)
  /\ Apart => ~Busy /\ now < MaxTime
  /\ now' = IF Apart THEN now + 1 ELSE now

Tick ==
  /\ now < MaxTime /\ now' = now + 1
  /\ UNCHANGED <<storeVars, recorderVars, pc, form, data, made, tickets, epoch>>

(* The edit form *)

RequestForm(e) ==
  /\ pc[e] \in {"away", "form"} /\ tickets < MaxForms
  /\ Begin(e, "read")
  /\ UNCHANGED <<storeVars, recorderVars, form, data, made, tickets, epoch>>

\* The content that the form, or the form to merge, shows.
ReadContent(e) ==
  /\ pc[e] = "read" /\ Goto(e, "stamp")
  /\ form' = [form EXCEPT ![e].base = file.content]
  /\ UNCHANGED <<now, storeVars, recorderVars, data, made, tickets, epoch>>

StampForm_Ahead(e) ==
  /\ pc[e] = "stamp" /\ Goto(e, "form")
  /\ tickets' = tickets + 1
  /\ form' = [form EXCEPT ![e].time = now + 1, ![e].ticket = tickets + 1]
  /\ UNCHANGED <<now, storeVars, recorderVars, data, made, epoch>>

\* timeStamp and newTicket, after the content has been read.
StampForm(e) ==
  /\ pc[e] = "stamp" /\ Goto(e, "form")
  /\ tickets' = tickets + 1
  /\ form' = [form EXCEPT ![e].time = now, ![e].ticket = tickets + 1]
  /\ UNCHANGED <<now, storeVars, recorderVars, data, made, epoch>>

(* Saving *)

Submit(e) ==
  /\ pc[e] = "form" /\ made < MaxSaves
  /\ Begin(e, "check")
  /\ made' = made + 1
  /\ data' = [data EXCEPT ![e].content = made + 1]
  /\ UNCHANGED <<storeVars, recorderVars, form, tickets, epoch>>

IsSaveOutOfOrder_Reversed(e) == saveTime # 0 /\ saveTime < form[e].time
IsSaveOutOfOrder(e) == saveTime # 0 /\ saveTime > form[e].time
IsSameEditSession(e) == ticketRegistry # 0 /\ ticketRegistry = form[e].ticket
ShouldMerge(e) == IsSaveOutOfOrder(e) /\ ~IsSameEditSession(e)

\* The answer is a form with the content of the page and the refused content.
Refuse(e) ==
  /\ pc[e] = "check" /\ ShouldMerge(e) /\ Goto(e, "read")
  /\ UNCHANGED <<now, storeVars, recorderVars, form, data, made, tickets, epoch>>

Allow(e) ==
  /\ pc[e] = "check" /\ ~ShouldMerge(e) /\ Goto(e, "load")
  /\ UNCHANGED <<now, storeVars, recorderVars, form, data, made, tickets, epoch>>

\* saveEdits: page.getData brings the time of the file along.
LoadData(e) ==
  /\ pc[e] = "load" /\ Goto(e, "register")
  /\ data' = [data EXCEPT ![e].time = file.time]
  /\ UNCHANGED <<now, storeVars, recorderVars, form, made, tickets, epoch>>

PageSaved(e) ==
  /\ pc[e] = "register" /\ Goto(e, "name")
  /\ ticketRegistry' = form[e].ticket /\ saveTime' = now
  /\ UNCHANGED <<now, storeVars, form, data, made, tickets, epoch>>

(* Rolling back: the time of an entry of a zip file is when it was zipped. *)

Rollback(e) ==
  /\ Rollbacks /\ pc[e] = "away" /\ Cardinality(versions) =< MaxSaves
  /\ Begin(e, "name")
  /\ \E v \in versions :
       /\ v.content # Torn
       /\ data' = [data EXCEPT ![e] = [content |-> v.content, time |-> v.archived,
                                       counter |-> 0]]
  /\ UNCHANGED <<storeVars, recorderVars, form, made, tickets, epoch>>

(* commit: ZipFileVersionsController.makeVersion *)

Named(time, counter) ==
  {v \in versions : v.time = time /\ v.counter = counter}

\* The first name no file has.
MakeVersionName(e) ==
  /\ pc[e] = "name" /\ Goto(e, "zip")
  /\ \E k \in 0..Cardinality(versions) :
       /\ Named(data[e].time, k) = {}
       /\ \A j \in 0..(k - 1) : Named(data[e].time, j) # {}
       /\ data' = [data EXCEPT ![e].counter = k]
  /\ UNCHANGED <<now, storeVars, recorderVars, form, made, tickets, epoch>>

\* What is zipped is what the file holds at this moment.
MakeZipVersion(e) ==
  /\ pc[e] = "zip" /\ Goto(e, "prune")
  /\ versions' = (versions \ Named(data[e].time, data[e].counter)) \cup
       {[time |-> data[e].time, counter |-> data[e].counter,
         content |-> file.content, archived |-> now]}
  /\ misfiled' = IF form[e] = NoForm THEN misfiled \cup {file.content} ELSE misfiled
  /\ UNCHANGED <<now, file, written, recorderVars, form, data, made, tickets, epoch>>

Expired(time) == \E v \in versions : time =< v.time - Days

PruneVersions_Early(e) ==
  /\ pc[e] = "prune" /\ Goto(e, "truncate")
  /\ versions' = {v \in versions : ~Expired(v.time - 1)}
  /\ UNCHANGED <<now, file, written, misfiled, recorderVars, form, data, made, tickets, epoch>>

PruneVersions(e) ==
  /\ pc[e] = "prune" /\ Goto(e, "truncate")
  /\ versions' = {v \in versions : ~Expired(v.time)}
  /\ UNCHANGED <<now, file, written, misfiled, recorderVars, form, data, made, tickets, epoch>>

\* makeFile opens the file, which empties it, and writes the content.
Truncate(e) ==
  /\ pc[e] = "truncate" /\ Goto(e, "write")
  /\ file' = [content |-> Torn, time |-> now, ticket |-> form[e].ticket]
  /\ UNCHANGED <<now, versions, written, misfiled, recorderVars, form, data, made, tickets, epoch>>

Write(e) ==
  /\ pc[e] = "write"
  /\ \/ form[e] = NoForm /\ Goto(e, "away")
     \/ form[e] # NoForm /\ Goto(e, "form")
  /\ file' = [content |-> data[e].content, time |-> now, ticket |-> form[e].ticket]
  /\ written' = [written EXCEPT ![data[e].content] = now]
  /\ UNCHANGED <<now, versions, misfiled, recorderVars, form, data, made, tickets, epoch>>

(* A restart, or a crash, of the server: a form that was not answered yet is  *)
(* lost, the one a save was sent from is still there.                         *)

Waiting == {e \in Editors : pc[e] \in {"read", "stamp"}}

Restart ==
  /\ Restarts
  /\ saveTime' = 0 /\ ticketRegistry' = 0
  /\ pc' = [e \in Editors |-> IF e \in Waiting \/ form[e] = NoForm THEN "away" ELSE "form"]
  /\ form' = [e \in Editors |-> IF e \in Waiting THEN NoForm ELSE form[e]]
  /\ epoch' = tickets
  /\ UNCHANGED <<now, storeVars, data, made, tickets>>

-----------------------------------------------------------------------------
Commit(e) ==
  \/ MakeVersionName(e) \/ MakeZipVersion(e) \/ PruneVersions(e)
  \/ Truncate(e) \/ Write(e)

Request(e) ==
  \/ RequestForm(e) \/ ReadContent(e) \/ StampForm(e)
  \/ Submit(e) \/ Refuse(e) \/ Allow(e) \/ LoadData(e) \/ PageSaved(e)
  \/ Rollback(e) \/ Commit(e)

Next == Tick \/ Restart \/ \E e \in Editors : Request(e)

Spec == Init /\ [][Next]_vars

-----------------------------------------------------------------------------
(* Properties *)

\* A content that was saved can be had again for as many days as versions are
\* kept: it is in the file, or in a version, or was written that much earlier
\* than the content of the latest version.  A crash in the middle of a save
\* does not change this, but a rollback does: what it replaces is filed under
\* the date of the version that comes back, and may expire at once.
NothingSavedIsLost ==
  \A c \in Contents : written[c] # -1 =>
    \/ file.content = c
    \/ \E v \in versions : v.content = c
    \/ Expired(written[c])
    \/ c \in misfiled

\* A save replaces a content that its author has seen in the form, or that was
\* saved from the very same form; otherwise it is refused.  A restart forgets
\* what it takes to refuse the forms from before it, and a rollback is not
\* recorded: what it brought back is replaced from any form.
SeesWhatItReplaces ==
  \A e \in Editors :
    pc[e] = "truncate" /\ form[e] # NoForm /\ form[e].ticket > epoch =>
      form[e].base = file.content \/ file.ticket \in {0, form[e].ticket}

=============================================================================
