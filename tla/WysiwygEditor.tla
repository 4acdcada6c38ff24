----------------------------- MODULE WysiwygEditor ------------------------------
(***************************************************************************)
(* The page that edits a page (editPage.vm) and its two editors, the plain *)
(* text of CodeMirror and the rich text of wysiwyg.js: which of them is    *)
(* shown, the conversions that a switch, a submit or an attempt to leave   *)
(* makes, the answers of the server that an inserted template waits for,   *)
(* and what is posted in the end.                                          *)
(*                                                                         *)
(* A text is the set of the author's changes that it has, and the way its  *)
(* line breaks are written.  Some changes cannot be converted: the         *)
(* conversion of a text, or of a document, that has one throws.            *)
(***************************************************************************)
EXTENDS Integers

CONSTANTS
  Changes,
  Tables,      \* the changes that leave a table on the page
  Templates,   \* those that insert a template
  Unreadable,  \* wiki text at which wikitextToFragment throws
  Unwritable   \* HTML at which domToWikitext throws, such as a pasted <tt class="x">

ASSUME ChangesAssumption ==
  /\ Tables \cup Templates \cup Unreadable \cup Unwritable \subseteq Changes
  /\ Unwritable \cap (Templates \cup Unreadable) = {}

VARIABLES
  page,              \* the text of the saved page
  shown,             \* the editor shown: "closed", "text", "rich" or "none"
  cookie,            \* the editor that the cookie names: "text" or "rich"
  ready,             \* the constructor of Wysiwyg returned
  area,              \* the text in CodeMirror
  frame,             \* the document in the rich text editor
  saved,             \* savedWysiwygHTML
  escapeNewLines,    \* the option of that name
  pending,           \* the templates that are being fetched
  original,          \* originalFieldValues
  performingSubmit,
  mishaps,           \* history: what went wrong while the page was open
  tabled             \* history: rich text has shown a table since it was opened

vars == <<page, shown, cookie, ready, area, frame, saved, escapeNewLines, pending,
          original, performingSubmit, mishaps, tabled>>

Forms == {"typed", "converted", "escaped"}
Text == [has : SUBSET Changes, form : Forms]
Document == [has : SUBSET Changes, escaped : BOOLEAN]
Empty == [has |-> {}, escaped |-> FALSE]
Nothing == [has |-> {}, form |-> "no document"]
Mishaps == {"stayed", "late template", "stopped"}

TypeOK ==
  /\ page \in Text /\ area \in Text /\ original \in Text
  /\ shown \in {"closed", "text", "rich", "none"}
  /\ cookie \in {"text", "rich"}
  /\ frame \in Document /\ saved \in Document \cup {Nothing}
  /\ pending \subseteq Templates
  /\ ready \in BOOLEAN /\ escapeNewLines \in BOOLEAN /\ performingSubmit \in BOOLEAN
  /\ mishaps \subseteq Mishaps
  /\ tabled \in BOOLEAN

-----------------------------------------------------------------------------
(* The conversions.  Every page has a paragraph of several lines.             *)

Readable(text) == text.has \cap Unreadable = {}
Writable(document) == document.has \cap Unwritable = {}
HasTable(text) == text.has \cap Tables # {}

WikitextToFragment(text) == [has |-> text.has, escaped |-> text.form = "escaped"]

\* With the option, a line break is written as the literal "!-\n-!".
DomToWikitext(document) ==
  [has |-> document.has,
   form |-> IF document.escaped \/ escapeNewLines THEN "escaped" ELSE "converted"]

EscapeNewLines_Always(document) == TRUE

\* The cells of a table are converted with "$.extend(options, ...)", which sets
\* the option for good.
EscapeNewLines(document) == escapeNewLines \/ HasTable(document)

IsModified_Never == FALSE
IsModified == saved # Nothing /\ frame # saved

-----------------------------------------------------------------------------

Init ==
  /\ page \in [has : SUBSET (Changes \ Unwritable), form : {"typed"}]
  /\ shown = "closed" /\ cookie \in {"text", "rich"}
  /\ ready = FALSE
  /\ area = page /\ original = page
  /\ frame = Empty /\ saved = Nothing
  /\ escapeNewLines = FALSE /\ pending = {}
  /\ performingSubmit = FALSE /\ mishaps = {} /\ tabled = FALSE

\* The constructor.  If the first conversion throws, both editors stay hidden,
\* and neither the editor nor the page listens to the form or the window.
Open ==
  /\ shown = "closed"
  /\ area' = page /\ original' = page
  /\ escapeNewLines' = FALSE /\ pending' = {}
  /\ performingSubmit' = FALSE /\ mishaps' = {}
  /\ \/ /\ cookie = "text"
        /\ shown' = "text" /\ ready' = TRUE
        /\ frame' = Empty /\ saved' = Nothing
     \/ /\ cookie = "rich" /\ Readable(page)
        /\ shown' = "rich" /\ ready' = TRUE
        /\ frame' = WikitextToFragment(page) /\ saved' = frame'
     \/ /\ cookie = "rich" /\ ~Readable(page)
        /\ shown' = "none" /\ ready' = FALSE
        /\ frame' = Empty /\ saved' = Nothing
  /\ tabled' = HasTable(frame')
  /\ UNCHANGED <<page, cookie>>

\* The author makes a change or takes one away, and may write line breaks anew.
EditText(c) ==
  /\ shown = "text"
  /\ \E form \in {area.form, "typed"} :
       \/ /\ c \notin Unwritable \cup Templates
          /\ area' = [has |-> area.has \cup {c}, form |-> form]
       \/ area' = [has |-> area.has \ {c}, form |-> form]
  /\ UNCHANGED <<page, shown, cookie, ready, frame, saved, escapeNewLines, pending,
                 original, performingSubmit, mishaps, tabled>>

EditDocument(c) ==
  /\ shown = "rich"
  /\ \E escaped \in {frame.escaped, FALSE} :
       \/ /\ c \notin Unreadable \cup Templates
          /\ frame' = [has |-> frame.has \cup {c}, escaped |-> escaped]
       \/ frame' = [has |-> frame.has \ {c}, escaped |-> escaped]
  /\ tabled' = (tabled \/ HasTable(frame'))
  /\ UNCHANGED <<page, shown, cookie, ready, area, saved, escapeNewLines, pending,
                 original, performingSubmit, mishaps>>

\* TemplateInserter.
InsertInto(t) ==
  /\ shown = "text"
  /\ pending' = pending \cup {t}
  /\ UNCHANGED <<page, shown, cookie, ready, area, frame, saved, escapeNewLines,
                 original, performingSubmit, mishaps, tabled>>

TemplateArrives(t) ==
  /\ shown # "closed" /\ t \in pending
  /\ pending' = pending \ {t}
  /\ area' = [area EXCEPT !.has = @ \cup {t}]
  /\ mishaps' = IF shown = "text" THEN mishaps ELSE mishaps \cup {"late template"}
  /\ UNCHANGED <<page, shown, cookie, ready, frame, saved, escapeNewLines, original,
                 performingSubmit, tabled>>

TemplateFails(t) ==
  /\ shown # "closed" /\ t \in pending
  /\ pending' = pending \ {t}
  /\ UNCHANGED <<page, shown, cookie, ready, area, frame, saved, escapeNewLines,
                 original, performingSubmit, mishaps, tabled>>

\* listenerToggleEditor("wysiwyg"): loadWysiwygDocument empties the frame first.
ToggleToWysiwyg ==
  /\ shown \in {"text", "none"}
  /\ \/ /\ Readable(area)
        /\ frame' = WikitextToFragment(area) /\ saved' = frame'
        /\ shown' = "rich" /\ cookie' = "rich"
     \/ /\ ~Readable(area)
        /\ frame' = Empty
        /\ UNCHANGED <<saved, shown, cookie>>
  /\ tabled' = (tabled \/ HasTable(frame'))
  /\ UNCHANGED <<page, ready, area, escapeNewLines, pending, original, performingSubmit,
                 mishaps>>

LoadWikiText ==
  /\ Writable(frame)
  /\ area' = DomToWikitext(frame)
  /\ saved' = Nothing
  /\ escapeNewLines' = EscapeNewLines(frame)

\* A conversion that throws, before or after it has come to a table.
ConversionThrows ==
  /\ ~Writable(frame)
  /\ escapeNewLines' \in {escapeNewLines, EscapeNewLines(frame)}

ToggleToTextarea ==
  /\ shown \in {"rich", "none"}
  /\ \/ /\ LoadWikiText
        /\ shown' = "text" /\ cookie' = "text"
     \/ /\ ConversionThrows
        /\ UNCHANGED <<area, saved, shown, cookie>>
  /\ UNCHANGED <<page, ready, frame, pending, original, performingSubmit, mishaps,
                 tabled>>

Post(text) ==
  /\ page' = text
  /\ shown' = "closed" /\ performingSubmit' = TRUE
  /\ UNCHANGED <<cookie, ready, frame, saved, pending, original, mishaps, tabled>>

SubmitArea ==
  /\ shown # "closed"
  /\ shown = "rich" /\ ready => ~IsModified
  /\ Post(area)
  /\ UNCHANGED <<area, escapeNewLines>>

SubmitDocument ==
  /\ shown = "rich" /\ ready /\ IsModified
  /\ Writable(frame)
  /\ area' = DomToWikitext(frame)
  /\ escapeNewLines' = EscapeNewLines(frame)
  /\ Post(area')

\* The editor stops the event, and the page's handler sees it nevertheless.
SubmitStopped ==
  /\ shown = "rich" /\ ready /\ IsModified
  /\ ConversionThrows
  /\ performingSubmit' = TRUE
  /\ mishaps' = mishaps \cup {"stopped"}
  /\ UNCHANGED <<page, shown, cookie, ready, area, frame, saved, pending, original, tabled>>

BeforeUnload_AsItIs ==
  \/ UNCHANGED <<area, saved, escapeNewLines>>
  \/ shown = "rich" /\ ConversionThrows /\ UNCHANGED <<area, saved>>

\* onbeforeunload.  A handler that throws asks nothing.
BeforeUnload ==
  \/ /\ ~ready \/ performingSubmit
     /\ UNCHANGED <<area, saved, escapeNewLines>>
  \/ /\ ready /\ ~performingSubmit /\ shown = "rich"
     /\ \/ LoadWikiText
        \/ ConversionThrows /\ UNCHANGED <<area, saved>>
  \/ /\ ready /\ ~performingSubmit /\ shown = "text"
     /\ UNCHANGED <<area, saved, escapeNewLines>>

Asks ==
  /\ ready /\ ~performingSubmit
  /\ shown = "rich" => Writable(frame)
  /\ area' # original

Leave ==
  /\ shown # "closed"
  /\ BeforeUnload
  /\ shown' = "closed"
  /\ UNCHANGED <<page, cookie, ready, frame, pending, original, performingSubmit, mishaps,
                 tabled>>

Stay ==
  /\ shown # "closed"
  /\ BeforeUnload /\ Asks
  /\ mishaps' = IF shown = "rich" THEN mishaps \cup {"stayed"} ELSE mishaps
  /\ UNCHANGED <<page, shown, cookie, ready, frame, pending, original,
                 performingSubmit, tabled>>

Next ==
  \/ Open
  \/ \E c \in Changes : EditText(c) \/ EditDocument(c)
  \/ \E t \in Templates : InsertInto(t) \/ TemplateArrives(t) \/ TemplateFails(t)
  \/ ToggleToWysiwyg \/ ToggleToTextarea
  \/ SubmitArea \/ SubmitDocument \/ SubmitStopped
  \/ Leave \/ Stay

Spec == Init /\ [][Next]_vars

-----------------------------------------------------------------------------
(* What an author sees *)

Content ==
  CASE shown = "closed" -> {}
    [] shown = "rich" -> frame.has
    [] OTHER -> area.has

Session == INSTANCE EditingSession WITH
  page <- page.has, content <- Content, open <- (shown # "closed")

\* Switching between the editors changes nothing, and what is saved is what is
\* shown, whether the document is converted or not: the code implements the
\* session an author expects, as long as the editors could be set up, no
\* template has arrived while rich text was shown, and no author who left rich
\* text has come back.
KeepsTheContent ==
  [][(ready \/ shown = "closed") /\ mishaps' \subseteq {"stopped"}
       => Session!Next]_(Session!vars)

\* Nobody leaves changes behind without being asked, but from an editor that was
\* not set up, after a submit that was stopped, and from a document that cannot
\* be converted.
LeavingAsks ==
  [][/\ Leave /\ ~Asks
     /\ ready /\ "stopped" \notin mishaps
     /\ shown = "rich" => Writable(frame)
     => Content = original.has]_vars

\* The literal "!-\n-!" comes into a page that had none only if rich text has
\* shown a table since the page was opened, though the table may be gone: what one
\* page does to the option, no other page notices.
LiteralBreaksComeFromATable ==
  [][page'.form = "escaped" => page.form = "escaped" \/ tabled']_vars

===============================================================================
