-------------------------- MODULE PageEditingProofs --------------------------
(***************************************************************************)
(* Proofs about PageEditing, for any editors, any number of days and any   *)
(* bounds: type correctness of every instance and, of the instances whose  *)
(* requests do not overlap, that no saved content is lost and that a save  *)
(* replaces what its author has seen.                                      *)
(***************************************************************************)
EXTENDS PageEditing, WellFoundedInduction, TLAPS

-----------------------------------------------------------------------------
(* The types, with the ranges that the steps need. *)

ClockTyped == now \in Times /\ made \in Contents /\ tickets \in Nat /\ epoch \in 0..tickets

Held == 0..made \cup {Torn}

VersionsTyped ==
  /\ \A v \in versions :
       /\ v.time \in 0..now /\ v.counter \in Nat
       /\ v.content \in Held /\ v.archived \in 0..now
  /\ \A v, w \in versions : v.time = w.time /\ v.counter = w.counter => v = w

StoreTyped ==
  /\ file \in [content : Held, time : 0..now, ticket : 0..tickets]
  /\ VersionsTyped
  /\ written \in [Contents -> -1..now] /\ misfiled \subseteq Held

RequestsTyped ==
  /\ saveTime \in 0..now /\ ticketRegistry \in 0..tickets
  /\ pc \in [Editors -> States]
  /\ form \in [Editors -> [base : Held, time : 0..now, ticket : 0..tickets]]
  /\ data \in [Editors -> [content : 0..made, time : 0..now, counter : Nat]]

Typed == ClockTyped /\ StoreTyped /\ RequestsTyped

(* Requests that do not overlap. *)

InRequest(e) == pc[e] \notin {"away", "form"}
Sole == \A e, f \in Editors : InRequest(e) /\ InRequest(f) => e = f

Committing == {"name", "zip", "prune", "truncate", "write"}

\* A save has a form with a ticket of its own, a rollback has none.
FormInv ==
  \A e \in Editors :
    /\ pc[e] = "away" => form[e] = NoForm
    /\ pc[e] \in {"form", "check", "load", "register"} => form[e].ticket > 0
    /\ pc[e] \in Committing => form[e] = NoForm \/ form[e].ticket > 0
    /\ \A f \in Editors :
         form[e].ticket = form[f].ticket => e = f \/ form[e].ticket = 0

\* While a request is worked on, the forms of the others are from before it.
DateInv ==
  \A e, f \in Editors : InRequest(e) /\ f # e => form[f].time < now

SoleInv == Sole /\ FormInv /\ DateInv

(* What was saved. *)

Kept(c) ==
  \/ \E v \in versions : v.content = c /\ written[c] =< v.time
  \/ Expired(written[c])
  \/ c \in misfiled

\* The version of a save has the date of the content that is in the file.
CommitInv ==
  \A e \in Editors :
    /\ pc[e] \in {"register", "name", "zip"} /\ form[e] # NoForm => data[e].time = file.time
    /\ pc[e] = "zip" => Named(data[e].time, data[e].counter) = {}
    /\ pc[e] \in {"prune", "truncate"} /\ file.content # Torn => Kept(file.content)
    /\ pc[e] = "write" => file.content = Torn /\ file.ticket = form[e].ticket

StoreInv ==
  \A c \in Contents : written[c] # -1 =>
    (file.content = c /\ written[c] =< file.time) \/ Kept(c)

(* What the authors have seen. *)

Seen(e) == form[e].base = file.content \/ file.ticket \in {0, form[e].ticket}
Overtaken(e) == saveTime > form[e].time /\ ticketRegistry # form[e].ticket

\* A save that commits is the last that was recorded.
RecordInv ==
  \A e \in Editors : pc[e] \in Committing /\ form[e] # NoForm =>
    /\ ticketRegistry = form[e].ticket
    /\ \A f \in Editors : f # e => form[f].time < saveTime

SeenInv ==
  \A e \in Editors :
    /\ pc[e] = "stamp" => form[e].base = file.content
    /\ form[e].ticket > epoch =>
         /\ pc[e] \in {"form", "check"} => Seen(e) \/ Overtaken(e)
         /\ pc[e] \in {"load", "register"} => Seen(e)
         /\ pc[e] \in Committing /\ form[e] # NoForm => Seen(e)

LossInv == CommitInv /\ StoreInv
SightInv == RecordInv /\ SeenInv
IInv == Typed /\ SoleInv /\ LossInv /\ SightInv

-----------------------------------------------------------------------------
(* Type correctness *)

LEMMA InitTyped == Init => Typed
BY BoundsAssumption DEF Init, Typed, ClockTyped, StoreTyped, VersionsTyped, RequestsTyped,
  Held, Times, Contents, States, NoForm, NoData, Torn

\* What only the bounds of the ranges change.
LEMMA RangesGrow ==
  ASSUME Typed, ClockTyped', now =< now', made =< made', tickets =< tickets'
  PROVE  /\ UNCHANGED storeVars => StoreTyped'
         /\ form \in [Editors -> [base : Held', time : 0..now', ticket : 0..tickets']]
         /\ data \in [Editors -> [content : 0..made', time : 0..now', counter : Nat]]
<1> USE DEF Typed, ClockTyped, Times, Contents
<1>1. 0..now \subseteq 0..now' /\ 0..made \subseteq 0..made' /\ 0..tickets \subseteq 0..tickets'
  BY BoundsAssumption
<1>2. Held \subseteq Held' /\ -1..now \subseteq -1..now'
  BY <1>1, BoundsAssumption DEF Held
<1>3. ASSUME UNCHANGED storeVars
      PROVE  StoreTyped'
  <2>1. file' \in [content : Held', time : 0..now', ticket : 0..tickets']
    BY <1>1, <1>2, <1>3 DEF StoreTyped, storeVars
  <2>2. VersionsTyped'
    BY <1>1, <1>2, <1>3 DEF StoreTyped, VersionsTyped, storeVars
  <2> QED
    BY <1>1, <1>2, <1>3, <2>1, <2>2 DEF StoreTyped, storeVars
<1>4. form \in [Editors -> [base : Held', time : 0..now', ticket : 0..tickets']]
  BY <1>1, <1>2 DEF RequestsTyped
<1>5. data \in [Editors -> [content : 0..made', time : 0..now', counter : Nat]]
  BY <1>1 DEF RequestsTyped
<1> QED
  BY <1>3, <1>4, <1>5

LEMMA BeginTyped ==
  ASSUME Typed, NEW e \in Editors, NEW state \in States, Begin(e, state)
  PROVE  now' \in Times /\ now =< now' /\ pc' \in [Editors -> States]
BY BoundsAssumption DEF Begin, Goto, Typed, ClockTyped, RequestsTyped, Times

LEMMA NextTyped == Typed /\ [Next]_vars => Typed'
<1> SUFFICES ASSUME Typed, [Next]_vars
             PROVE  Typed'
  OBVIOUS
<1> USE DEF Typed
<1>1. CASE UNCHANGED vars
  BY <1>1 DEF vars, ClockTyped, StoreTyped, VersionsTyped, RequestsTyped, Held
<1>2. CASE Tick
  <2>1. ClockTyped' /\ now =< now' /\ made =< made' /\ tickets =< tickets'
    BY <1>2, BoundsAssumption DEF Tick, ClockTyped, Times, Contents
  <2>2. StoreTyped' /\ RequestsTyped'
    BY <1>2, <2>1, RangesGrow DEF Tick, RequestsTyped, recorderVars, ClockTyped, Times
  <2> QED
    BY <2>1, <2>2
<1>3. CASE Restart
  <2>1. ClockTyped' /\ now =< now' /\ made =< made' /\ tickets =< tickets'
    BY <1>3, BoundsAssumption DEF Restart, ClockTyped, Times, Contents
  <2>2. NoForm \in [base : Held, time : 0..now, ticket : 0..tickets]
    BY BoundsAssumption DEF NoForm, Held, ClockTyped, Times, Contents
  <2>3. StoreTyped' /\ RequestsTyped'
    BY <1>3, <2>1, <2>2, RangesGrow, BoundsAssumption
    DEF Restart, RequestsTyped, ClockTyped, Times, States, Held
  <2> QED
    BY <2>1, <2>3
<1>4. ASSUME NEW e \in Editors, RequestForm(e)
      PROVE  Typed'
  <2>1. ClockTyped' /\ now =< now' /\ made =< made' /\ tickets =< tickets'
        /\ pc' \in [Editors -> States]
    BY <1>4, BeginTyped DEF RequestForm, States, ClockTyped, Contents
  <2>2. StoreTyped' /\ RequestsTyped'
    BY <1>4, <2>1, RangesGrow DEF RequestForm, RequestsTyped, recorderVars, ClockTyped, Times
  <2> QED
    BY <2>1, <2>2
<1>5. ASSUME NEW e \in Editors, ReadContent(e)
      PROVE  Typed'
  <2>1. ClockTyped' /\ StoreTyped'
    BY <1>5 DEF ReadContent, ClockTyped, StoreTyped, VersionsTyped, Held, storeVars
  <2>2. [form[e] EXCEPT !.base = file.content] \in [base : Held, time : 0..now, ticket : 0..tickets]
    BY DEF StoreTyped, RequestsTyped
  <2>3. RequestsTyped'
    BY <1>5, <2>2 DEF ReadContent, Goto, RequestsTyped, States, recorderVars, Held
  <2> QED
    BY <2>1, <2>3
<1>6. ASSUME NEW e \in Editors, StampForm(e)
      PROVE  Typed'
  <2>1. ClockTyped' /\ now =< now' /\ made =< made' /\ tickets =< tickets'
        /\ tickets' = tickets + 1 /\ now' = now
    BY <1>6 DEF StampForm, ClockTyped, Times, Contents
  <2>2. form[e] \in [base : Held', time : 0..now', ticket : 0..tickets']
    BY <2>1, RangesGrow
  <2>3. [form[e] EXCEPT !.time = now, !.ticket = tickets + 1]
          \in [base : Held', time : 0..now', ticket : 0..tickets']
    <3>1. now \in 0..now' /\ tickets + 1 \in 0..tickets'
      BY <2>1 DEF ClockTyped, Times
    <3> QED
      BY <2>2, <3>1
  <2>4. form' = [form EXCEPT ![e] = [form[e] EXCEPT !.time = now, !.ticket = tickets + 1]]
    BY <1>6 DEF StampForm, RequestsTyped
  <2>5. form' \in [Editors -> [base : Held', time : 0..now', ticket : 0..tickets']]
    BY <2>1, <2>3, <2>4, RangesGrow
  <2>6. StoreTyped'
    BY <1>6, <2>1, RangesGrow DEF StampForm
  <2>7. data' \in [Editors -> [content : 0..made', time : 0..now', counter : Nat]]
    BY <1>6, <2>1, RangesGrow DEF StampForm
  <2>8. /\ saveTime' \in 0..now' /\ ticketRegistry' \in 0..tickets'
        /\ pc' \in [Editors -> States]
    BY <1>6, <2>1 DEF StampForm, Goto, RequestsTyped, States, recorderVars, ClockTyped
  <2> QED
    BY <2>1, <2>5, <2>6, <2>7, <2>8 DEF RequestsTyped
<1>7. ASSUME NEW e \in Editors, Submit(e)
      PROVE  Typed'
  <2>1. ClockTyped' /\ now =< now' /\ made =< made' /\ tickets =< tickets'
        /\ pc' \in [Editors -> States] /\ made' = made + 1
    BY <1>7, BeginTyped, BoundsAssumption DEF Submit, States, ClockTyped, Contents
  <2>2. data[e] \in [content : 0..made', time : 0..now', counter : Nat]
    BY <2>1, RangesGrow
  <2>3. [data[e] EXCEPT !.content = made + 1] \in [content : 0..made', time : 0..now', counter : Nat]
    BY <2>1, <2>2 DEF ClockTyped, Contents
  <2>4. data' \in [Editors -> [content : 0..made', time : 0..now', counter : Nat]]
    BY <1>7, <2>1, <2>3, RangesGrow DEF Submit
  <2>5. form' \in [Editors -> [base : Held', time : 0..now', ticket : 0..tickets']]
    BY <1>7, <2>1, RangesGrow DEF Submit
  <2>6. StoreTyped' /\ saveTime' \in 0..now' /\ ticketRegistry' \in 0..tickets'
    BY <1>7, <2>1, RangesGrow DEF Submit, RequestsTyped, recorderVars, ClockTyped, Times
  <2> QED
    BY <2>1, <2>4, <2>5, <2>6 DEF RequestsTyped
<1>8. ASSUME NEW e \in Editors, Refuse(e) \/ Allow(e)
      PROVE  Typed'
  BY <1>8 DEF Refuse, Allow, Goto, ClockTyped, StoreTyped, VersionsTyped, RequestsTyped, Held,
    States, storeVars, recorderVars
<1>9. ASSUME NEW e \in Editors, LoadData(e)
      PROVE  Typed'
  <2>1. ClockTyped' /\ StoreTyped'
    BY <1>9 DEF LoadData, ClockTyped, StoreTyped, VersionsTyped, Held, storeVars
  <2>2. [data[e] EXCEPT !.time = file.time] \in [content : 0..made, time : 0..now, counter : Nat]
    BY DEF StoreTyped, RequestsTyped
  <2>3. RequestsTyped'
    BY <1>9, <2>2 DEF LoadData, Goto, RequestsTyped, States, recorderVars, Held
  <2> QED
    BY <2>1, <2>3
<1>10. ASSUME NEW e \in Editors, PageSaved(e)
       PROVE  Typed'
  <2>1. ClockTyped' /\ StoreTyped'
    BY <1>10 DEF PageSaved, ClockTyped, StoreTyped, VersionsTyped, Held, storeVars
  <2>2. RequestsTyped'
    BY <1>10 DEF PageSaved, Goto, ClockTyped, Times, RequestsTyped, States, Held
  <2> QED
    BY <2>1, <2>2
<1>11. ASSUME NEW e \in Editors, Rollback(e)
       PROVE  Typed'
  <2>1. ClockTyped' /\ now =< now' /\ made =< made' /\ tickets =< tickets'
        /\ pc' \in [Editors -> States] /\ made' = made
    BY <1>11, BeginTyped DEF Rollback, States, ClockTyped, Contents
  <2>2. PICK v \in versions :
          /\ v.content # Torn
          /\ data' = [data EXCEPT ![e] = [content |-> v.content, time |-> v.archived, counter |-> 0]]
    BY <1>11 DEF Rollback
  <2>3. [content |-> v.content, time |-> v.archived, counter |-> 0]
          \in [content : 0..made', time : 0..now', counter : Nat]
    BY <2>1, <2>2 DEF StoreTyped, VersionsTyped, Held, ClockTyped, Times
  <2>4. data' \in [Editors -> [content : 0..made', time : 0..now', counter : Nat]]
    BY <2>1, <2>2, <2>3, RangesGrow
  <2>5. form' \in [Editors -> [base : Held', time : 0..now', ticket : 0..tickets']]
    BY <1>11, <2>1, RangesGrow DEF Rollback
  <2>6. StoreTyped' /\ saveTime' \in 0..now' /\ ticketRegistry' \in 0..tickets'
    BY <1>11, <2>1, RangesGrow DEF Rollback, RequestsTyped, recorderVars, ClockTyped, Times
  <2> QED
    BY <2>1, <2>4, <2>5, <2>6 DEF RequestsTyped
<1>12. ASSUME NEW e \in Editors, MakeVersionName(e)
       PROVE  Typed'
  <2>1. ClockTyped' /\ StoreTyped'
    BY <1>12 DEF MakeVersionName, ClockTyped, StoreTyped, VersionsTyped, Held, storeVars
  <2>2. PICK k \in 0..Cardinality(versions) : data' = [data EXCEPT ![e].counter = k]
    BY <1>12 DEF MakeVersionName
  <2>3. [data[e] EXCEPT !.counter = k] \in [content : 0..made, time : 0..now, counter : Nat]
    BY DEF RequestsTyped
  <2>4. RequestsTyped'
    BY <1>12, <2>2, <2>3 DEF MakeVersionName, Goto, RequestsTyped, States, recorderVars, Held
  <2> QED
    BY <2>1, <2>4
<1>13. ASSUME NEW e \in Editors, MakeZipVersion(e)
       PROVE  Typed'
  <2>1. ClockTyped' /\ RequestsTyped'
    BY <1>13 DEF MakeZipVersion, Goto, ClockTyped, RequestsTyped, Held, States, recorderVars
  <2>2. /\ data[e].time \in 0..now /\ data[e].counter \in Nat
        /\ file.content \in Held /\ now \in 0..now
    BY DEF RequestsTyped, StoreTyped, ClockTyped, Times
  <2>3. VersionsTyped'
    BY <1>13, <2>2 DEF MakeZipVersion, StoreTyped, VersionsTyped, Held, Named
  <2>4. misfiled' \subseteq Held
    BY <1>13, <2>2 DEF MakeZipVersion, StoreTyped
  <2> QED
    BY <1>13, <2>1, <2>3, <2>4 DEF MakeZipVersion, StoreTyped, Held
<1>14. ASSUME NEW e \in Editors, PruneVersions(e)
       PROVE  Typed'
  BY <1>14 DEF PruneVersions, Goto, ClockTyped, StoreTyped, VersionsTyped, RequestsTyped, Held,
    States, recorderVars
<1>15. ASSUME NEW e \in Editors, Truncate(e)
       PROVE  Typed'
  BY <1>15 DEF Truncate, Goto, ClockTyped, Times, StoreTyped, VersionsTyped, RequestsTyped, Held,
    States, recorderVars
<1>16. ASSUME NEW e \in Editors, Write(e)
       PROVE  Typed'
  <2>1. ClockTyped' /\ RequestsTyped'
    BY <1>16 DEF Write, Goto, ClockTyped, RequestsTyped, Held, States, recorderVars
  <2>2. data[e].content \in Held /\ now \in 0..now /\ now \in -1..now /\ form[e].ticket \in 0..tickets
    BY DEF RequestsTyped, ClockTyped, Times, Held
  <2>3. file' \in [content : Held, time : 0..now, ticket : 0..tickets]
        /\ written' \in [Contents -> -1..now]
    BY <1>16, <2>2 DEF Write, StoreTyped
  <2> QED
    BY <1>16, <2>1, <2>3 DEF Write, StoreTyped, VersionsTyped, Held
<1> QED
  BY <1>1, <1>2, <1>3, <1>4, <1>5, <1>6, <1>7, <1>8, <1>9, <1>10, <1>11, <1>12, <1>13, <1>14, <1>15, <1>16 DEF Next, Request, Commit

LEMMA TypedIsTypeOK == Typed => EditTypeOK
<1> SUFFICES ASSUME Typed
             PROVE  EditTypeOK
  OBVIOUS
<1>1. 0..made \subseteq Contents
  BY BoundsAssumption DEF Typed, ClockTyped, Contents
<1>2. /\ now \in Times /\ made \in Contents /\ epoch \in 0..tickets
      /\ file.content \in Contents \cup {Torn} /\ file.time \in 0..now
      /\ written \in [Contents -> -1..now] /\ misfiled \subseteq Contents \cup {Torn}
  BY <1>1 DEF Typed, ClockTyped, StoreTyped, Held
<1>3. /\ \A v \in versions :
            v.content \in Contents \cup {Torn} /\ v.time \in 0..now /\ v.archived \in 0..now
      /\ \A v, w \in versions : v.time = w.time /\ v.counter = w.counter => v = w
  BY <1>1 DEF Typed, StoreTyped, VersionsTyped, Held
<1>4. /\ saveTime \in 0..now /\ ticketRegistry \in 0..tickets /\ pc \in [Editors -> States]
      /\ \A e \in Editors : form[e].time \in 0..now /\ form[e].ticket \in 0..tickets
      /\ \A e \in Editors : data[e].content \in 0..made /\ data[e].time \in 0..now
  BY DEF Typed, RequestsTyped
<1> QED
  BY <1>2, <1>3, <1>4 DEF EditTypeOK

\* The types of every instance, overlapping requests, rollbacks and restarts
\* included; that no two versions have the same name is one of them.
THEOREM EditingTypeCorrect == Spec => []EditTypeOK
<1>1. Spec => []Typed
  BY InitTyped, NextTyped, PTL DEF Spec
<1> QED
  BY <1>1, TypedIsTypeOK, PTL

-----------------------------------------------------------------------------
(* Requests that do not overlap *)

LEMMA BeginsAlone ==
  ASSUME Apart, Typed, NEW e \in Editors, NEW state, Begin(e, state)
  PROVE  /\ \A f \in Editors : pc[f] \in {"away", "form"}
         /\ pc' = [pc EXCEPT ![e] = state]
         /\ \A f \in Editors : form[f].time < now'
<1>1. \A f \in Editors : pc[f] \in {"away", "form"}
  BY DEF Begin, Busy
<1>2. now' = now + 1 /\ pc' = [pc EXCEPT ![e] = state]
  BY DEF Begin, Goto
<1>3. \A f \in Editors : form[f].time \in 0..now
  BY DEF Typed, RequestsTyped
<1> QED
  BY <1>1, <1>2, <1>3 DEF Typed, ClockTyped, Times

LEMMA InitSole == Init => SoleInv
BY DEF Init, SoleInv, Sole, FormInv, DateInv, InRequest, Committing, NoForm

LEMMA NextSole ==
  ASSUME Apart, Typed, SoleInv, [Next]_vars
  PROVE  SoleInv'
<1> USE DEF SoleInv, Sole, FormInv, DateInv, InRequest
<1>0. /\ pc \in [Editors -> States] /\ now \in Nat /\ tickets \in Nat
      /\ form \in [Editors -> [base : Held, time : 0..now, ticket : 0..tickets]]
  BY DEF Typed, ClockTyped, RequestsTyped, Times
<1>1. CASE UNCHANGED vars
  BY <1>1 DEF vars, Committing
<1>2. CASE Tick
  BY <1>0, <1>2 DEF Tick, Committing
<1>3. CASE Restart
  BY <1>0, <1>3 DEF Restart, Waiting, NoForm, Committing, States
<1>4. ASSUME NEW e \in Editors, RequestForm(e) \/ Submit(e) \/ Rollback(e)
      PROVE  SoleInv'
  <2>1. PICK state \in {"read", "check", "name"} :
          /\ Begin(e, state) /\ form' = form
          /\ state = "check" => pc[e] = "form"
          /\ state = "name" => pc[e] = "away"
    BY <1>4 DEF RequestForm, Submit, Rollback
  <2> QED
    BY <1>0, <2>1, BeginsAlone DEF Committing
<1>5. ASSUME NEW e \in Editors, ReadContent(e)
      PROVE  SoleInv'
  BY <1>0, <1>5 DEF ReadContent, Goto, Committing
<1>6. ASSUME NEW e \in Editors, StampForm(e)
      PROVE  SoleInv'
  BY <1>0, <1>6 DEF StampForm, Goto, Committing
<1>7. ASSUME NEW e \in Editors, Refuse(e) \/ Allow(e) \/ LoadData(e) \/ PageSaved(e)
      PROVE  SoleInv'
  BY <1>0, <1>7 DEF Refuse, Allow, LoadData, PageSaved, Goto, Committing
<1>8. ASSUME NEW e \in Editors, Commit(e)
      PROVE  SoleInv'
  BY <1>0, <1>8 DEF Commit, MakeVersionName, MakeZipVersion, PruneVersions, Truncate, Write, Goto,
    Committing, NoForm
<1> QED
  BY <1>1, <1>2, <1>3, <1>4, <1>5, <1>6, <1>7, <1>8 DEF Next, Request

-----------------------------------------------------------------------------
(* What is saved is not lost.  No version is expired by itself, so pruning   *)
(* keeps the latest one, and with it what has expired.                       *)

LEMMA LessThanOnNat == OpToRel(<, Nat) = {ss \in Nat \X Nat : ss[1] < ss[2]}
BY Zenon DEF OpToRel

\* Sets of natural numbers have a least element.
LEMMA LeastNumber ==
  ASSUME NEW T \in SUBSET Nat, T # {}
  PROVE  \E x \in T : \A y \in T : x =< y
<1> DEFINE R == {ss \in Nat \X Nat : ss[1] < ss[2]}
<1>1. IsWellFoundedOn(R, Nat)
  BY LessThanOnNat, NatLessThanWellFounded, Zenon
<1> HIDE DEF R
<1>2. \E x \in T : \A y \in T : ~(<<y, x>> \in R)
  BY <1>1, WFMin, Zenon
<1>3. \A x, y \in Nat : <<y, x>> \notin R => x =< y
  BY DEF R
<1> QED
  BY <1>2, <1>3

LEMMA LatestVersion ==
  ASSUME Typed, versions # {}
  PROVE  \E v \in versions : \A w \in versions : w.time =< v.time
<1> DEFINE Ages == {now - v.time : v \in versions}
<1>1. \A v \in versions : v.time \in 0..now
  BY DEF Typed, StoreTyped, VersionsTyped
<1>2. Ages \in SUBSET Nat /\ Ages # {}
  BY <1>1 DEF Typed, ClockTyped, Times
<1>3. PICK age \in Ages : \A other \in Ages : age =< other
  BY <1>2, LeastNumber
<1>4. PICK v \in versions : age = now - v.time
  OBVIOUS
<1>5. ASSUME NEW w \in versions
      PROVE  w.time =< v.time
  <2>1. now - w.time \in Ages
    OBVIOUS
  <2>2. now - v.time =< now - w.time
    BY <1>3, <1>4, <2>1
  <2>3. now \in Nat /\ v.time \in Nat /\ w.time \in Nat
    BY <1>1 DEF Typed, ClockTyped, Times
  <2> HIDE DEF Ages
  <2> QED
    BY <2>2, <2>3
<1> QED
  BY <1>5

\* Pruning changes nothing about what has expired.
LEMMA PruningKeepsExpired ==
  ASSUME Typed, versions' = {v \in versions : ~Expired(v.time)}, NEW t \in Int, Expired(t)
  PROVE  Expired(t)'
<1>1. PICK v \in versions : t =< v.time - Days
  BY DEF Expired
<1>2. PICK latest \in versions : \A w \in versions : w.time =< latest.time
  BY <1>1, LatestVersion
<1>3. \A w \in versions : w.time \in Int
  BY DEF Typed, StoreTyped, VersionsTyped
<1>4. ~Expired(latest.time)
  BY <1>2, <1>3, DaysAssumption DEF Expired
<1>5. t =< latest.time - Days
  BY <1>1, <1>2, <1>3, DaysAssumption
<1> QED
  BY <1>4, <1>5 DEF Expired

\* What is kept stays so when versions are added, and when they are pruned.
LEMMA StaysKept ==
  ASSUME Typed, NEW c \in Contents, Kept(c), written'[c] = written[c],
         misfiled \subseteq misfiled',
         \/ versions \subseteq versions'
         \/ versions' = {v \in versions : ~Expired(v.time)}
  PROVE  Kept(c)'
<1>1. written[c] \in Int /\ \A v \in versions : v.time \in Int
  BY DEF Typed, StoreTyped, VersionsTyped
<1>2. CASE c \in misfiled
  BY <1>2 DEF Kept
<1>3. CASE Expired(written[c])
  <2>1. Expired(written[c])'
    BY <1>1, <1>3, PruningKeepsExpired DEF Expired
  <2> QED
    BY <2>1 DEF Kept
<1>4. ASSUME NEW v \in versions, v.content = c, written[c] =< v.time
      PROVE  Kept(c)'
  <2>1. CASE v \in versions'
    BY <1>4, <2>1 DEF Kept
  <2>2. CASE v \notin versions'
    <3>1. versions' = {w \in versions : ~Expired(w.time)} /\ Expired(v.time)
      BY <2>2
    <3>2. Expired(v.time)'
      BY <1>1, <3>1, PruningKeepsExpired
    <3>3. Expired(written[c])'
      BY <1>1, <1>4, <3>1, <3>2, DaysAssumption DEF Expired
    <3> QED
      BY <3>3 DEF Kept
  <2> QED
    BY <2>1, <2>2
<1> QED
  BY <1>2, <1>3, <1>4 DEF Kept

LEMMA InitLoss == Init => LossInv
BY DEF Init, LossInv, CommitInv, StoreInv, Contents, Torn

\* The other requests wait in their browsers.
LEMMA OthersAreIdle ==
  ASSUME SoleInv, NEW e \in Editors, InRequest(e)
  PROVE  \A f \in Editors : f # e => pc[f] \in {"away", "form"}
BY DEF SoleInv, Sole, InRequest

LEMMA NextCommit ==
  ASSUME Apart, Typed, SoleInv, LossInv, [Next]_vars
  PROVE  CommitInv'
<1> USE DEF CommitInv
<1>0. /\ CommitInv /\ StoreInv /\ pc \in [Editors -> States]
      /\ form \in [Editors -> [base : Held, time : 0..now, ticket : 0..tickets]]
      /\ data \in [Editors -> [content : 0..made, time : 0..now, counter : Nat]]
  BY DEF Typed, RequestsTyped, LossInv
<1>1. CASE UNCHANGED vars
  BY <1>0, <1>1 DEF vars, Kept, Expired, Named
<1>2. CASE Tick
  BY <1>0, <1>2 DEF Tick, storeVars, Kept, Expired, Named
<1>3. CASE Restart
  BY <1>0, <1>3 DEF Restart
<1>4. ASSUME NEW e \in Editors, RequestForm(e) \/ Submit(e) \/ Rollback(e)
      PROVE  CommitInv'
  <2>1. /\ \A f \in Editors : f # e => pc'[f] \in {"away", "form"}
        /\ pc'[e] \in {"read", "check", "name"} /\ form' = form
        /\ pc'[e] = "name" => pc[e] = "away"
    BY <1>0, <1>4, BeginsAlone DEF RequestForm, Submit, Rollback
  <2> QED
    BY <1>0, <2>1 DEF SoleInv, FormInv
<1>5. ASSUME NEW e \in Editors, ReadContent(e) \/ StampForm(e) \/ Refuse(e) \/ Allow(e)
      PROVE  CommitInv'
  <2>1. /\ \A f \in Editors : f # e => pc'[f] \in {"away", "form"}
        /\ pc'[e] \in {"stamp", "form", "read", "load"}
    BY <1>0, <1>5, OthersAreIdle DEF ReadContent, StampForm, Refuse, Allow, Goto, InRequest
  <2> QED
    BY <1>0, <2>1
<1>6. ASSUME NEW e \in Editors, LoadData(e) \/ PageSaved(e) \/ MakeVersionName(e)
      PROVE  CommitInv'
  <2>1. \A f \in Editors : f # e => pc'[f] \in {"away", "form"}
    BY <1>0, <1>6, OthersAreIdle DEF LoadData, PageSaved, MakeVersionName, Goto, InRequest
  <2> QED
    BY <1>0, <1>6, <2>1 DEF LoadData, PageSaved, MakeVersionName, Goto, Named, storeVars
<1>7. ASSUME NEW e \in Editors, MakeZipVersion(e)
      PROVE  CommitInv'
  <2>1. /\ \A f \in Editors : f # e => pc'[f] \in {"away", "form"}
        /\ pc'[e] = "prune"
    BY <1>0, <1>7, OthersAreIdle DEF MakeZipVersion, Goto, InRequest
  <2>2. ASSUME file.content # Torn
        PROVE  Kept(file.content)'
    <3>1. file.content \in Contents
      BY <2>2, BoundsAssumption DEF Typed, StoreTyped, ClockTyped, Held, Contents
    <3>2. CASE form[e] = NoForm
      BY <1>7, <3>2 DEF MakeZipVersion, Kept
    <3>3. CASE form[e] # NoForm
      <4>1. PICK v \in versions' : v.content = file.content /\ v.time = file.time
        <5> DEFINE zip == [time |-> data[e].time, counter |-> data[e].counter,
                           content |-> file.content, archived |-> now]
        <5>1. zip \in versions' /\ data[e].time = file.time
          BY <1>0, <1>7, <3>3 DEF MakeZipVersion
        <5> QED
          BY <5>1
      <4>2. CASE written[file.content] =< file.time
        BY <1>7, <4>1, <4>2 DEF MakeZipVersion, Kept
      <4>3. CASE Kept(file.content)
        <5>1. versions \subseteq versions'
          BY <1>0, <1>7 DEF MakeZipVersion
        <5> QED
          BY <1>7, <3>1, <4>3, <5>1, StaysKept DEF MakeZipVersion
      <4>4. CASE written[file.content] = -1
        BY <4>2, <4>4 DEF Typed, StoreTyped, ClockTyped, Times
      <4> QED
        BY <1>0, <3>1, <4>2, <4>3, <4>4 DEF StoreInv
    <3> QED
      BY <3>2, <3>3
  <2> QED
    BY <1>7, <2>1, <2>2 DEF MakeZipVersion
<1>8. ASSUME NEW e \in Editors, PruneVersions(e)
      PROVE  CommitInv'
  <2>1. /\ \A f \in Editors : f # e => pc'[f] \in {"away", "form"}
        /\ pc[e] = "prune" /\ pc'[e] = "truncate"
    BY <1>0, <1>8, OthersAreIdle DEF PruneVersions, Goto, InRequest
  <2>2. ASSUME file.content # Torn
        PROVE  Kept(file.content)'
    <3>1. file.content \in Contents
      BY <2>2, BoundsAssumption DEF Typed, StoreTyped, ClockTyped, Held, Contents
    <3> QED
      BY <1>0, <1>8, <2>1, <2>2, <3>1, StaysKept DEF PruneVersions
  <2> QED
    BY <1>8, <2>1, <2>2 DEF PruneVersions
<1>9. ASSUME NEW e \in Editors, Truncate(e) \/ Write(e)
      PROVE  CommitInv'
  <2>1. /\ \A f \in Editors : f # e => pc'[f] \in {"away", "form"}
        /\ pc'[e] \in {"write", "away", "form"}
        /\ pc'[e] = "write" => Truncate(e)
    BY <1>0, <1>9, OthersAreIdle DEF Truncate, Write, Goto, InRequest
  <2> QED
    BY <1>0, <1>9, <2>1 DEF Truncate, Goto
<1> QED
  BY <1>1, <1>2, <1>3, <1>4, <1>5, <1>6, <1>7, <1>8, <1>9 DEF Next, Request, Commit

LEMMA NextStore ==
  ASSUME Apart, Typed, SoleInv, LossInv, [Next]_vars
  PROVE  StoreInv'
<1> SUFFICES ASSUME NEW c \in Contents, written'[c] # -1
             PROVE  (file'.content = c /\ written'[c] =< file'.time) \/ Kept(c)'
  BY DEF StoreInv
<1>0. /\ written[c] # -1 => (file.content = c /\ written[c] =< file.time) \/ Kept(c)
      /\ CommitInv /\ now \in Nat
  BY DEF LossInv, StoreInv, Typed, ClockTyped, Times
<1>1. CASE UNCHANGED <<file, versions, written, misfiled>>
  BY <1>0, <1>1 DEF Kept, Expired
<1>2. ASSUME NEW e \in Editors, MakeZipVersion(e)
      PROVE  (file'.content = c /\ written'[c] =< file'.time) \/ Kept(c)'
  <2>1. versions \subseteq versions'
    BY <1>0, <1>2 DEF MakeZipVersion, CommitInv
  <2> QED
    BY <1>0, <1>2, <2>1, StaysKept DEF MakeZipVersion
<1>3. ASSUME NEW e \in Editors, PruneVersions(e)
      PROVE  (file'.content = c /\ written'[c] =< file'.time) \/ Kept(c)'
  BY <1>0, <1>3, StaysKept DEF PruneVersions
<1>4. ASSUME NEW e \in Editors, Truncate(e)
      PROVE  (file'.content = c /\ written'[c] =< file'.time) \/ Kept(c)'
  <2>1. file.content = c => Kept(c)
    BY <1>0, <1>4 DEF Truncate, CommitInv, Contents, Torn
  <2> QED
    BY <1>0, <1>4, <2>1, StaysKept DEF Truncate
<1>5. ASSUME NEW e \in Editors, Write(e)
      PROVE  (file'.content = c /\ written'[c] =< file'.time) \/ Kept(c)'
  <2>1. file.content = Torn /\ written \in [Contents -> -1..now]
    BY <1>0, <1>5 DEF Write, CommitInv, Typed, StoreTyped
  <2>2. CASE c = data[e].content
    BY <1>0, <1>5, <2>1, <2>2 DEF Write
  <2>3. CASE c # data[e].content
    <3>1. written'[c] = written[c] /\ versions' = versions /\ misfiled' = misfiled
      BY <1>5, <2>1, <2>3 DEF Write
    <3>2. Kept(c)
      BY <1>0, <2>1, <3>1 DEF Contents, Torn
    <3> QED
      BY <3>1, <3>2, StaysKept
  <2> QED
    BY <2>2, <2>3
<1>6. ASSUME ~ UNCHANGED <<file, versions, written, misfiled>>
      PROVE  \E e \in Editors :
               MakeZipVersion(e) \/ PruneVersions(e) \/ Truncate(e) \/ Write(e)
  BY <1>6 DEF Next, vars, Tick, Restart, Request, Commit, RequestForm, ReadContent, StampForm, Submit,
    Refuse, Allow, LoadData, PageSaved, Rollback, MakeVersionName, storeVars
<1> QED
  BY <1>1, <1>2, <1>3, <1>4, <1>5, <1>6

LEMMA LossIsExcluded == Typed /\ LossInv => NothingSavedIsLost
BY DEF LossInv, StoreInv, Kept, NothingSavedIsLost

-----------------------------------------------------------------------------
(* A save replaces what its author has seen.                                 *)

LEMMA InitSight == Init => SightInv
BY DEF Init, SightInv, RecordInv, SeenInv, Committing, NoForm

LEMMA NextRecord ==
  ASSUME Apart, Typed, SoleInv, SightInv, [Next]_vars
  PROVE  RecordInv'
<1> USE DEF RecordInv
<1>0. /\ RecordInv /\ pc \in [Editors -> States]
      /\ form \in [Editors -> [base : Held, time : 0..now, ticket : 0..tickets]]
  BY DEF Typed, RequestsTyped, SightInv
<1>1. CASE UNCHANGED vars \/ Tick
  BY <1>0, <1>1 DEF vars, Tick, recorderVars
<1>2. CASE Restart
  BY <1>0, <1>2 DEF Restart, Committing
<1>3. ASSUME NEW e \in Editors, RequestForm(e) \/ Submit(e) \/ Rollback(e)
      PROVE  RecordInv'
  <2>1. /\ \A f \in Editors : f # e => pc'[f] \in {"away", "form"}
        /\ pc'[e] \in {"read", "check", "name"} /\ form' = form
        /\ pc'[e] = "name" => pc[e] = "away"
    BY <1>0, <1>3, BeginsAlone DEF RequestForm, Submit, Rollback
  <2> QED
    BY <1>0, <2>1 DEF SoleInv, FormInv, Committing
<1>4. ASSUME NEW e \in Editors,
             ReadContent(e) \/ StampForm(e) \/ Refuse(e) \/ Allow(e) \/ LoadData(e)
      PROVE  RecordInv'
  <2>1. /\ \A f \in Editors : f # e => pc'[f] \in {"away", "form"}
        /\ pc'[e] \in {"stamp", "form", "read", "load", "register"}
    BY <1>0, <1>4, OthersAreIdle
    DEF ReadContent, StampForm, Refuse, Allow, LoadData, Goto, InRequest
  <2> QED
    BY <1>0, <2>1 DEF Committing
<1>5. ASSUME NEW e \in Editors, PageSaved(e)
      PROVE  RecordInv'
  <2>1. \A f \in Editors : f # e => pc'[f] \in {"away", "form"} /\ form'[f].time < now
    BY <1>0, <1>5, OthersAreIdle DEF PageSaved, Goto, InRequest, SoleInv, DateInv
  <2> QED
    BY <1>0, <1>5, <2>1 DEF PageSaved, Goto, Committing
<1>6. ASSUME NEW e \in Editors, Commit(e)
      PROVE  RecordInv'
  <2>1. /\ \A f \in Editors : f # e => pc'[f] \in {"away", "form"}
        /\ pc[e] \in Committing /\ form' = form
        /\ UNCHANGED <<saveTime, ticketRegistry>>
    BY <1>0, <1>6, OthersAreIdle DEF Commit, MakeVersionName, MakeZipVersion, PruneVersions,
      Truncate, Write, Goto, InRequest, Committing, recorderVars
  <2> QED
    BY <1>0, <2>1 DEF Committing
<1> QED
  BY <1>1, <1>2, <1>3, <1>4, <1>5, <1>6 DEF Next, Request

LEMMA NextSeen ==
  ASSUME Apart, Typed, SoleInv, LossInv, SightInv, [Next]_vars
  PROVE  SeenInv'
<1> USE DEF SeenInv
<1>0. /\ SeenInv /\ pc \in [Editors -> States] /\ tickets \in Nat /\ epoch \in 0..tickets
      /\ form \in [Editors -> [base : Held, time : 0..now, ticket : 0..tickets]]
      /\ now \in Nat /\ saveTime \in 0..now /\ ticketRegistry \in 0..tickets
  BY DEF Typed, ClockTyped, RequestsTyped, SightInv, Times
<1>1. CASE UNCHANGED vars \/ Tick
  BY <1>0, <1>1 DEF vars, Tick, recorderVars, storeVars, Seen, Overtaken
<1>2. CASE Restart
  BY <1>0, <1>2 DEF Restart, Committing, NoForm
<1>3. ASSUME NEW e \in Editors, RequestForm(e) \/ Submit(e) \/ Rollback(e)
      PROVE  SeenInv'
  <2>1. /\ \A f \in Editors : f # e => pc'[f] = pc[f]
        /\ pc'[e] \in {"read", "check", "name"} /\ UNCHANGED <<form, file, saveTime, ticketRegistry, epoch>>
        /\ pc'[e] = "name" => pc[e] = "away"
        /\ pc'[e] = "check" => pc[e] = "form"
    BY <1>0, <1>3, BeginsAlone DEF RequestForm, Submit, Rollback, storeVars, recorderVars
  <2> QED
    BY <1>0, <2>1 DEF SoleInv, FormInv, Committing, Seen, Overtaken
<1>4. ASSUME NEW e \in Editors, ReadContent(e)
      PROVE  SeenInv'
  BY <1>0, <1>4 DEF ReadContent, Goto, storeVars, recorderVars, Seen, Overtaken, Committing
<1>5. ASSUME NEW e \in Editors, StampForm(e)
      PROVE  SeenInv'
  BY <1>0, <1>5 DEF StampForm, Goto, storeVars, recorderVars, Seen, Overtaken, Committing
<1>6. ASSUME NEW e \in Editors, Refuse(e)
      PROVE  SeenInv'
  BY <1>0, <1>6 DEF Refuse, Goto, storeVars, recorderVars, Seen, Overtaken, Committing
<1>7. ASSUME NEW e \in Editors, Allow(e)
      PROVE  SeenInv'
  <2>1. form[e].ticket > epoch => Seen(e)
    BY <1>0, <1>7 DEF Allow, ShouldMerge, IsSaveOutOfOrder, IsSameEditSession, Overtaken
  <2> QED
    BY <1>0, <1>7, <2>1 DEF Allow, Goto, storeVars, recorderVars, Seen, Overtaken, Committing
<1>8. ASSUME NEW e \in Editors, LoadData(e)
      PROVE  SeenInv'
  BY <1>0, <1>8 DEF LoadData, Goto, storeVars, recorderVars, Seen, Overtaken, Committing
<1>9. ASSUME NEW e \in Editors, PageSaved(e)
      PROVE  SeenInv'
  <2>1. /\ \A f \in Editors : f # e =>
             /\ pc[f] \in {"away", "form"} /\ form[f].time < now
             /\ form[f].ticket # 0 => form[f].ticket # form[e].ticket
        /\ pc[e] = "register" /\ form[e].ticket > 0
    BY <1>0, <1>9, OthersAreIdle DEF PageSaved, InRequest, SoleInv, DateInv, FormInv
  <2>2. ASSUME NEW f \in Editors, f # e, form[f].ticket > epoch
        PROVE  Overtaken(f)'
    BY <1>0, <1>9, <2>1, <2>2 DEF PageSaved, Overtaken
  <2> QED
    BY <1>0, <1>9, <2>1, <2>2 DEF PageSaved, Goto, storeVars, Seen, Committing
<1>10. ASSUME NEW e \in Editors, MakeVersionName(e) \/ MakeZipVersion(e) \/ PruneVersions(e)
       PROVE  SeenInv'
  BY <1>0, <1>10 DEF MakeVersionName, MakeZipVersion, PruneVersions, Goto, storeVars, recorderVars,
    Seen, Overtaken, Committing
<1>11. ASSUME NEW e \in Editors, Truncate(e) \/ Write(e)
       PROVE  SeenInv'
  <2>1. /\ file'.ticket = form[e].ticket /\ pc[e] \in Committing
        /\ pc'[e] \in {"write", "form", "away"} /\ \A f \in Editors : f # e => pc'[f] = pc[f]
        /\ UNCHANGED <<form, saveTime, ticketRegistry, epoch>>
    BY <1>0, <1>11 DEF Truncate, Write, Goto, recorderVars, Committing
  <2>2. \A f \in Editors : f # e => pc[f] \in {"away", "form"}
    BY <2>1, OthersAreIdle DEF InRequest, Committing
  <2>3. CASE form[e] = NoForm
    BY <1>0, <2>1, <2>2, <2>3 DEF NoForm, Seen
  <2>4. CASE form[e] # NoForm
    <3>1. /\ ticketRegistry = form[e].ticket /\ form[e].ticket > 0
          /\ \A f \in Editors : f # e => form[f].time < saveTime
      BY <2>1, <2>4 DEF SightInv, RecordInv, SoleInv, FormInv
    <3>2. ASSUME NEW f \in Editors, f # e, form[f].ticket > epoch
          PROVE  Overtaken(f)'
      BY <1>0, <2>1, <3>1, <3>2 DEF Overtaken, SoleInv, FormInv
    <3> QED
      BY <1>0, <2>1, <2>2, <3>2 DEF Seen, Committing
  <2> QED
    BY <2>3, <2>4
<1> QED
  BY <1>1, <1>2, <1>3, <1>4, <1>5, <1>6, <1>7, <1>8, <1>9, <1>10, <1>11 DEF Next, Request, Commit

LEMMA SightIsKept == SightInv => SeesWhatItReplaces
BY DEF SightInv, SeenInv, Seen, SeesWhatItReplaces, Committing

-----------------------------------------------------------------------------
LEMMA InitIInv == Init => IInv
BY InitTyped, InitSole, InitLoss, InitSight DEF IInv

LEMMA NextIInv == Apart /\ IInv /\ [Next]_vars => IInv'
<1> SUFFICES ASSUME Apart, IInv, [Next]_vars
             PROVE  IInv'
  OBVIOUS
<1> QED
  BY NextTyped, NextSole, NextCommit, NextStore, NextRecord, NextSeen DEF IInv, LossInv, SightInv

\* Of requests that do not overlap, no save loses what an earlier one saved, at
\* any moment of a commit, whatever versions expire and whenever the server is
\* restarted.
THEOREM NothingIsLost ==
  ASSUME Apart
  PROVE  Spec => []NothingSavedIsLost
<1>1. IInv /\ [Next]_vars => IInv'
  BY NextIInv
<1>2. IInv => NothingSavedIsLost
  BY LossIsExcluded DEF IInv
<1> QED
  BY <1>1, <1>2, InitIInv, PTL DEF Spec

\* Of requests that do not overlap, a save from a form of this run of the server
\* replaces what the form showed, or what came of that form, or what a rollback
\* brought back.
THEOREM ReplacesWhatWasSeen ==
  ASSUME Apart
  PROVE  Spec => []SeesWhatItReplaces
<1>1. IInv /\ [Next]_vars => IInv'
  BY NextIInv
<1>2. IInv => SeesWhatItReplaces
  BY SightIsKept DEF IInv
<1> QED
  BY <1>1, <1>2, InitIInv, PTL DEF Spec

=============================================================================
