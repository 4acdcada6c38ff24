---------------------------- MODULE EditingSession -----------------------------
(* What an author expects of the page that edits a page: the content is that  *)
(* of the page when it opens, nothing but the author's changes makes it       *)
(* another one, and what is saved is the content.                             *)

CONSTANT Changes

VARIABLES
  page,     \* the changes in the saved page
  content,  \* the changes in what is edited
  open      \* the page is being edited

vars == <<page, content, open>>

Init ==
  /\ page \in SUBSET Changes
  /\ content = {} /\ open = FALSE

Open ==
  /\ ~open /\ open' = TRUE
  /\ content' = page
  /\ UNCHANGED page

Change(c) ==
  /\ open
  /\ content' \in {content \cup {c}, content \ {c}}
  /\ UNCHANGED <<page, open>>

Save ==
  /\ open /\ open' = FALSE
  /\ page' = content /\ content' = {}

Leave ==
  /\ open /\ open' = FALSE
  /\ content' = {}
  /\ UNCHANGED page

Next == Open \/ (\E c \in Changes : Change(c)) \/ Save \/ Leave

Spec == Init /\ [][Next]_vars

===============================================================================
