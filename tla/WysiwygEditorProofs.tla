-------------------------- MODULE WysiwygEditorProofs --------------------------
(* Proofs about WysiwygEditor for any changes, tables and templates: what an  *)
(* author edits is the content of an EditingSession.                          *)
EXTENDS WysiwygEditor, TLAPS

\* What the editor compares the document with has what CodeMirror has, so that
\* the text of an unmodified document may be posted as it is.
LoadedIsTheArea ==
  shown = "rich" /\ ready /\ mishaps \subseteq {"stopped"} =>
    saved \in Document /\ saved.has = area.has

\* The page takes no other attempt to leave for a submit.
SubmitsOnly == performingSubmit => shown = "closed" \/ "stopped" \in mishaps

HiddenIsNotReady == shown = "none" => ~ready

IInv == TypeOK /\ LoadedIsTheArea /\ SubmitsOnly /\ HiddenIsNotReady

-----------------------------------------------------------------------------

\* What the conversions return.
LEMMA ConversionTypes ==
  ASSUME TypeOK
  PROVE  /\ \A text \in Text : WikitextToFragment(text) \in Document
         /\ \A document \in Document :
              /\ DomToWikitext(document) \in Text
              /\ DomToWikitext(document).has = document.has
              /\ EscapeNewLines(document) \in BOOLEAN
  BY DEF TypeOK, WikitextToFragment, DomToWikitext, EscapeNewLines, Text, Document, Forms

LEMMA InitIInv == Init => IInv
<1> SUFFICES ASSUME Init PROVE IInv
  OBVIOUS
<1>1. page \in Text
  <2>1. page \in [has : SUBSET (Changes \ Unwritable), form : {"typed"}]
    BY DEF Init
  <2>2. "typed" \in Forms
    BY DEF Forms
  <2> QED BY <2>1, <2>2 DEF Text
<1>2. Empty \in Document
  BY DEF Empty, Document
<1>3. TypeOK
  BY <1>1, <1>2 DEF Init, TypeOK, Mishaps
<1> QED BY <1>3 DEF Init, IInv, LoadedIsTheArea, SubmitsOnly, HiddenIsNotReady

\* The type of each variable after a step.
LEMMA TypeStep == TypeOK /\ [Next]_vars => TypeOK'
<1> SUFFICES ASSUME TypeOK, [Next]_vars PROVE TypeOK'
  OBVIOUS
<1>c. /\ \A text \in Text : WikitextToFragment(text) \in Document
      /\ \A document \in Document :
           /\ DomToWikitext(document) \in Text
           /\ EscapeNewLines(document) \in BOOLEAN
  BY ConversionTypes
<1>e. Empty \in Document
  BY DEF Empty, Document
<1> USE DEF TypeOK
<1>1. CASE Open
  BY <1>1, <1>c, <1>e DEF Open, HasTable
<1>2. ASSUME NEW c \in Changes, EditText(c) PROVE TypeOK'
  <2>1. \A form \in {area.form, "typed"} :
          /\ [has |-> area.has \cup {c}, form |-> form] \in Text
          /\ [has |-> area.has \ {c}, form |-> form] \in Text
    BY DEF Text, Forms
  <2>2. area' \in Text
    BY <1>2, <2>1 DEF EditText
  <2> QED BY <1>2, <2>2 DEF EditText
<1>3. ASSUME NEW c \in Changes, EditDocument(c) PROVE TypeOK'
  <2>1. \A escaped \in {frame.escaped, FALSE} :
          /\ [has |-> frame.has \cup {c}, escaped |-> escaped] \in Document
          /\ [has |-> frame.has \ {c}, escaped |-> escaped] \in Document
    BY DEF Document
  <2>2. frame' \in Document
    BY <1>3, <2>1 DEF EditDocument
  <2> QED BY <1>3, <2>2 DEF EditDocument, HasTable
<1>4. ASSUME NEW t \in Templates, InsertInto(t) PROVE TypeOK'
  BY <1>4 DEF InsertInto
<1>5. ASSUME NEW t \in Templates, TemplateArrives(t) PROVE TypeOK'
  <2>1. [area EXCEPT !.has = @ \cup {t}] \in Text
    BY ChangesAssumption DEF Text
  <2> QED BY <1>5, <2>1 DEF TemplateArrives, Mishaps
<1>6. ASSUME NEW t \in Templates, TemplateFails(t) PROVE TypeOK'
  BY <1>6 DEF TemplateFails
<1>7. CASE ToggleToWysiwyg
  BY <1>7, <1>c, <1>e DEF ToggleToWysiwyg, HasTable
<1>8. CASE ToggleToTextarea
  BY <1>8, <1>c DEF ToggleToTextarea, LoadWikiText, ConversionThrows
<1>9. CASE SubmitArea
  BY <1>9 DEF SubmitArea, Post
<1>10. CASE SubmitDocument
  BY <1>10, <1>c DEF SubmitDocument, Post
<1>11. CASE SubmitStopped
  BY <1>11, <1>c DEF SubmitStopped, ConversionThrows, Mishaps
<1>12. CASE Leave
  BY <1>12, <1>c DEF Leave, BeforeUnload, LoadWikiText, ConversionThrows
<1>13. CASE Stay
  BY <1>13, <1>c DEF Stay, BeforeUnload, LoadWikiText, ConversionThrows, Mishaps
<1>14. CASE UNCHANGED vars
  BY <1>14 DEF vars
<1> QED BY <1>1, <1>2, <1>3, <1>4, <1>5, <1>6, <1>7, <1>8, <1>9, <1>10, <1>11, <1>12,
           <1>13, <1>14 DEF Next

\* Type correctness: what the editor, the text area and the page hold are texts
\* and documents, whatever is switched, inserted, submitted or left.
THEOREM TypeCorrect == Spec => []TypeOK
<1>1. Init => TypeOK
  BY InitIInv DEF IInv
<1> QED BY <1>1, TypeStep, PTL DEF Spec

-----------------------------------------------------------------------------

\* What a switch to rich text shows, and compares with later, is the area's.
LEMMA LoadedStep == IInv /\ [Next]_vars => LoadedIsTheArea'
<1> SUFFICES ASSUME IInv, [Next]_vars PROVE LoadedIsTheArea'
  OBVIOUS
<1>t. TypeOK /\ TypeOK' /\ LoadedIsTheArea
  BY TypeStep DEF IInv
<1>h. \A text : WikitextToFragment(text).has = text.has
  BY DEF WikitextToFragment
<1>d. \A text \in Text : WikitextToFragment(text) \in Document
  BY <1>t, ConversionTypes
<1> USE DEF LoadedIsTheArea
<1>1. CASE Open
  BY <1>1, <1>t, <1>h, <1>d DEF Open, TypeOK
<1>2. ASSUME NEW c \in Changes, EditText(c) PROVE LoadedIsTheArea'
  BY <1>2 DEF EditText
<1>3. ASSUME NEW c \in Changes, EditDocument(c) PROVE LoadedIsTheArea'
  BY <1>3, <1>t DEF EditDocument
<1>4. ASSUME NEW t \in Templates, InsertInto(t) PROVE LoadedIsTheArea'
  BY <1>4, <1>t DEF InsertInto
<1>5. ASSUME NEW t \in Templates, TemplateArrives(t) PROVE LoadedIsTheArea'
  BY <1>5 DEF TemplateArrives
<1>6. ASSUME NEW t \in Templates, TemplateFails(t) PROVE LoadedIsTheArea'
  BY <1>6, <1>t DEF TemplateFails
<1>7. CASE ToggleToWysiwyg
  BY <1>7, <1>t, <1>h, <1>d DEF ToggleToWysiwyg, TypeOK
<1>8. CASE ToggleToTextarea
  BY <1>8, <1>t DEF ToggleToTextarea, ConversionThrows
<1>9. CASE SubmitArea \/ SubmitDocument \/ Leave
  BY <1>9 DEF SubmitArea, SubmitDocument, Leave, Post
<1>10. CASE SubmitStopped
  BY <1>10, <1>t DEF SubmitStopped
<1>11. CASE Stay
  BY <1>11, <1>t DEF Stay, BeforeUnload, Asks
<1>12. CASE UNCHANGED vars
  BY <1>12, <1>t DEF vars
<1> QED BY <1>1, <1>2, <1>3, <1>4, <1>5, <1>6, <1>7, <1>8, <1>9, <1>10, <1>11, <1>12
        DEF Next

LEMMA SubmitsStep == IInv /\ [Next]_vars => SubmitsOnly'
<1> SUFFICES ASSUME IInv, [Next]_vars PROVE SubmitsOnly'
  OBVIOUS
<1>t. SubmitsOnly
  BY DEF IInv
<1> USE DEF SubmitsOnly
<1>1. CASE Open \/ SubmitArea \/ SubmitDocument \/ SubmitStopped \/ Leave
  BY <1>1 DEF Open, SubmitArea, SubmitDocument, SubmitStopped, Leave, Post
<1>2. ASSUME NEW c \in Changes, EditText(c) \/ EditDocument(c) PROVE SubmitsOnly'
  BY <1>2, <1>t DEF EditText, EditDocument
<1>3. ASSUME NEW t \in Templates, InsertInto(t) \/ TemplateArrives(t) \/ TemplateFails(t)
      PROVE  SubmitsOnly'
  BY <1>3, <1>t DEF InsertInto, TemplateArrives, TemplateFails
<1>4. CASE ToggleToWysiwyg \/ ToggleToTextarea
  BY <1>4, <1>t DEF ToggleToWysiwyg, ToggleToTextarea
<1>5. CASE Stay
  BY <1>5, <1>t DEF Stay
<1>6. CASE UNCHANGED vars
  BY <1>6, <1>t DEF vars
<1> QED BY <1>1, <1>2, <1>3, <1>4, <1>5, <1>6 DEF Next

LEMMA HiddenStep == IInv /\ [Next]_vars => HiddenIsNotReady'
<1> SUFFICES ASSUME IInv, [Next]_vars PROVE HiddenIsNotReady'
  OBVIOUS
<1>t. HiddenIsNotReady
  BY DEF IInv
<1> USE DEF HiddenIsNotReady
<1>1. CASE Open \/ SubmitArea \/ SubmitDocument \/ SubmitStopped \/ Leave
  BY <1>1, <1>t DEF Open, SubmitArea, SubmitDocument, SubmitStopped, Leave, Post
<1>2. ASSUME NEW c \in Changes, EditText(c) \/ EditDocument(c) PROVE HiddenIsNotReady'
  BY <1>2, <1>t DEF EditText, EditDocument
<1>3. ASSUME NEW t \in Templates, InsertInto(t) \/ TemplateArrives(t) \/ TemplateFails(t)
      PROVE  HiddenIsNotReady'
  BY <1>3, <1>t DEF InsertInto, TemplateArrives, TemplateFails
<1>4. CASE ToggleToWysiwyg \/ ToggleToTextarea
  BY <1>4, <1>t DEF ToggleToWysiwyg, ToggleToTextarea
<1>5. CASE Stay
  BY <1>5, <1>t DEF Stay
<1>6. CASE UNCHANGED vars
  BY <1>6, <1>t DEF vars
<1> QED BY <1>1, <1>2, <1>3, <1>4, <1>5, <1>6 DEF Next

LEMMA Inductive == Spec => []IInv
<1>1. IInv /\ [Next]_vars => IInv'
  BY TypeStep, LoadedStep, SubmitsStep, HiddenStep DEF IInv
<1> QED BY <1>1, InitIInv, PTL DEF Spec

-----------------------------------------------------------------------------

LEMMA SessionStep ==
  ASSUME IInv, [Next]_vars, ready \/ shown = "closed", mishaps' \subseteq {"stopped"}
  PROVE  [Session!Next]_(Session!vars)
<1>t. TypeOK /\ TypeOK' /\ LoadedIsTheArea /\ HiddenIsNotReady
  BY TypeStep DEF IInv
<1>h. \A text : WikitextToFragment(text).has = text.has /\ DomToWikitext(text).has = text.has
  BY DEF WikitextToFragment, DomToWikitext
<1>s. /\ shown = "closed" => Content = {}
      /\ shown = "rich" => Content = frame.has
      /\ shown \in {"text", "none"} => Content = area.has
  BY <1>t DEF Content
<1>p. /\ shown' = "closed" => Content' = {}
      /\ shown' = "rich" => Content' = frame'.has
      /\ shown' \in {"text", "none"} => Content' = area'.has
  BY <1>t DEF Content
<1> USE DEF Session!vars
<1>1. CASE Open
  <2>1. Content' = page.has
    BY <1>1, <1>p, <1>h DEF Open
  <2> QED BY <1>1, <2>1 DEF Open, Session!Next, Session!Open
<1>2. ASSUME NEW c \in Changes, EditText(c) PROVE Session!Next
  <2>1. area'.has \in {area.has \cup {c}, area.has \ {c}}
    BY <1>2 DEF EditText
  <2>2. Content' \in {Content \cup {c}, Content \ {c}}
    BY <1>2, <2>1, <1>s, <1>p DEF EditText
  <2> QED BY <1>2, <2>2 DEF EditText, Session!Next, Session!Change
<1>3. ASSUME NEW c \in Changes, EditDocument(c) PROVE Session!Next
  <2>1. frame'.has \in {frame.has \cup {c}, frame.has \ {c}}
    BY <1>3 DEF EditDocument
  <2>2. Content' \in {Content \cup {c}, Content \ {c}}
    BY <1>3, <2>1, <1>s, <1>p DEF EditDocument
  <2> QED BY <1>3, <2>2 DEF EditDocument, Session!Next, Session!Change
<1>4. ASSUME NEW t \in Templates, InsertInto(t) \/ TemplateFails(t)
      PROVE  UNCHANGED Session!vars
  BY <1>4 DEF InsertInto, TemplateFails, Content
<1>5. ASSUME NEW t \in Templates, TemplateArrives(t) PROVE Session!Next
  <2>1. shown = "text"
    BY <1>5 DEF TemplateArrives
  <2>2. area'.has = area.has \cup {t}
    BY <1>5, <1>t DEF TemplateArrives, TypeOK, Text
  <2>3. Content' = Content \cup {t}
    BY <1>5, <2>1, <2>2, <1>s, <1>p DEF TemplateArrives
  <2>4. t \in Changes
    BY ChangesAssumption
  <2> QED BY <1>5, <2>1, <2>3, <2>4 DEF TemplateArrives, Session!Next, Session!Change
<1>6. CASE ToggleToWysiwyg
  <2>1. shown = "text"
    BY <1>6, <1>t DEF ToggleToWysiwyg, HiddenIsNotReady
  <2>2. Content' = Content
    BY <1>6, <2>1, <1>s, <1>p, <1>h DEF ToggleToWysiwyg
  <2>3. shown' # "closed" /\ page' = page
    BY <1>6, <2>1 DEF ToggleToWysiwyg
  <2> QED BY <2>1, <2>2, <2>3
<1>7. CASE ToggleToTextarea
  <2>1. shown = "rich"
    BY <1>7, <1>t DEF ToggleToTextarea, HiddenIsNotReady
  <2>2. Content' = Content
    BY <1>7, <2>1, <1>s, <1>p, <1>h DEF ToggleToTextarea, LoadWikiText
  <2>3. shown' # "closed" /\ page' = page
    BY <1>7, <2>1 DEF ToggleToTextarea
  <2> QED BY <2>1, <2>2, <2>3
<1>8. CASE SubmitArea
  <2>1. mishaps \subseteq {"stopped"} /\ shown # "closed" /\ ready
    BY <1>8 DEF SubmitArea, Post
  <2>2. ASSUME shown = "rich" PROVE frame.has = area.has
    <3>1. saved \in Document /\ saved.has = area.has
      BY <2>1, <2>2, <1>t DEF LoadedIsTheArea
    <3>2. Nothing \notin Document
      BY DEF Nothing, Document
    <3>3. saved # Nothing
      BY <3>1, <3>2
    <3> QED BY <1>8, <2>1, <2>2, <3>1, <3>3 DEF SubmitArea, IsModified
  <2>3. Content = area.has
    BY <2>1, <2>2, <1>s, <1>t DEF TypeOK
  <2>4. page' = area /\ shown' = "closed"
    BY <1>8 DEF SubmitArea, Post
  <2>5. page'.has = Content /\ Content' = {}
    BY <2>3, <2>4, <1>p
  <2> QED BY <2>1, <2>4, <2>5 DEF Session!Next, Session!Save
<1>9. CASE SubmitDocument
  <2>1. page' = DomToWikitext(frame) /\ shown = "rich" /\ shown' = "closed"
    BY <1>9 DEF SubmitDocument, Post
  <2>2. page'.has = Content /\ Content' = {}
    BY <2>1, <1>h, <1>s, <1>p
  <2> QED BY <2>1, <2>2 DEF Session!Next, Session!Save
<1>10. CASE SubmitStopped
  BY <1>10 DEF SubmitStopped, Content
<1>11. CASE Leave
  <2>1. page' = page /\ shown # "closed" /\ shown' = "closed"
    BY <1>11 DEF Leave
  <2> QED BY <2>1, <1>p DEF Session!Next, Session!Leave
<1>12. CASE Stay
  <2>1. shown = "text" /\ ready /\ ~performingSubmit
    BY <1>12, <1>t DEF Stay, Asks, HiddenIsNotReady, TypeOK
  <2> QED BY <1>12, <2>1 DEF Stay, BeforeUnload, Content
<1>13. CASE UNCHANGED vars
  BY <1>13 DEF vars, Content
<1> QED BY <1>1, <1>2, <1>3, <1>4, <1>5, <1>6, <1>7, <1>8, <1>9, <1>10, <1>11, <1>12, <1>13
        DEF Next

\* The two editors together are a session whose content nothing but the author
\* changes and which saves its content, with the exceptions that KeepsTheContent
\* names: a template too late, an author who stays, editors not set up.
THEOREM ContentIsKept == Spec => Session!Init /\ KeepsTheContent
<1>1. Init => Session!Init
  <2> SUFFICES ASSUME Init PROVE Session!Init
    OBVIOUS
  <2>1. page.has \in SUBSET Changes
    BY DEF Init
  <2>2. Content = {} /\ shown = "closed"
    BY DEF Init, Content
  <2> QED BY <2>1, <2>2 DEF Session!Init
<1>2. IInv /\ [Next]_vars =>
        [(ready \/ shown = "closed") /\ mishaps' \subseteq {"stopped"} => Session!Next]_(Session!vars)
  BY SessionStep
<1> QED BY <1>1, <1>2, Inductive, PTL DEF Spec, KeepsTheContent

LEMMA LeaveStep ==
  ASSUME IInv, Leave, ~Asks, ready, "stopped" \notin mishaps, shown = "rich" => Writable(frame)
  PROVE  Content = original.has
<1>1. ~performingSubmit /\ shown # "closed" /\ shown # "none"
  BY DEF IInv, SubmitsOnly, HiddenIsNotReady, Leave
<1>2. area' = original
  BY <1>1 DEF Asks
<1>3. CASE shown = "rich"
  <2>1. area' = DomToWikitext(frame)
    BY <1>1, <1>3 DEF Leave, BeforeUnload, LoadWikiText, ConversionThrows
  <2> QED BY <1>2, <1>3, <2>1 DEF Content, DomToWikitext
<1>4. CASE shown = "text"
  <2>1. area' = area
    BY <1>1, <1>4 DEF Leave, BeforeUnload
  <2> QED BY <1>2, <1>4, <2>1 DEF Content
<1> QED BY <1>1, <1>3, <1>4 DEF IInv, TypeOK

\* Who leaves without being asked leaves no change behind, with the exceptions
\* that LeavingAsks names.
THEOREM NothingIsLeftBehind == Spec => LeavingAsks
<1>1. IInv /\ [Next]_vars =>
        [/\ Leave /\ ~Asks
         /\ ready /\ "stopped" \notin mishaps
         /\ shown = "rich" => Writable(frame)
         => Content = original.has]_vars
  BY LeaveStep
<1> QED BY <1>1, Inductive, PTL DEF Spec, LeavingAsks

-----------------------------------------------------------------------------

\* While no table has been shown, nothing in the page's editors holds or is about
\* to write a literal line break, if the page itself holds none.
BreaksInv ==
  shown # "closed" /\ page.form # "escaped" /\ ~tabled =>
    /\ area.form # "escaped"
    /\ ~escapeNewLines
    /\ ~frame.escaped /\ ~HasTable(frame)

\* What the conversions do to literal line breaks and to tables.
LEMMA ConversionBreaks ==
  /\ \A text : /\ WikitextToFragment(text).escaped <=> text.form = "escaped"
               /\ HasTable(WikitextToFragment(text)) <=> HasTable(text)
  /\ \A document :
       /\ DomToWikitext(document).form = "escaped" => document.escaped \/ escapeNewLines
       /\ EscapeNewLines(document) => escapeNewLines \/ HasTable(document)
  BY DEF WikitextToFragment, DomToWikitext, EscapeNewLines, HasTable

\* The option is set, and outlives the table, only where a table is seen.
LEMMA BreaksStep ==
  TypeOK /\ BreaksInv /\ [Next]_vars =>
    /\ BreaksInv'
    /\ page'.form = "escaped" => page.form = "escaped" \/ tabled'
<1> SUFFICES ASSUME TypeOK, BreaksInv, [Next]_vars
             PROVE  /\ BreaksInv'
                    /\ page'.form = "escaped" => page.form = "escaped" \/ tabled'
  OBVIOUS
<1> DEFINE Goal ==
      /\ BreaksInv'
      /\ page'.form = "escaped" => page.form = "escaped" \/ tabled'
<1>c. /\ \A text : /\ WikitextToFragment(text).escaped <=> text.form = "escaped"
                   /\ HasTable(WikitextToFragment(text)) <=> HasTable(text)
      /\ \A document :
           /\ DomToWikitext(document).form = "escaped" => document.escaped \/ escapeNewLines
           /\ EscapeNewLines(document) => escapeNewLines \/ HasTable(document)
  BY ConversionBreaks
<1>n. ~Empty.escaped /\ Writable(Empty) /\ ~HasTable(Empty)
  BY DEF Empty, Writable, HasTable
<1>t. "typed" # "escaped"
  OBVIOUS
<1>1. CASE Open
  BY <1>1, <1>c, <1>n DEF Open, BreaksInv
<1>2. ASSUME NEW c \in Changes, EditText(c) PROVE Goal
  <2>1. area'.form \in {area.form, "typed"}
    BY <1>2 DEF EditText
  <2> QED BY <1>2, <1>t, <2>1 DEF EditText, BreaksInv, HasTable
<1>3. ASSUME NEW c \in Changes, EditDocument(c) PROVE Goal
  <2>1. PICK escaped \in {frame.escaped, FALSE} :
          \/ frame' = [has |-> frame.has \cup {c}, escaped |-> escaped]
          \/ frame' = [has |-> frame.has \ {c}, escaped |-> escaped]
    BY <1>3 DEF EditDocument
  <2>2. frame'.escaped => frame.escaped
    <3>1. \A has : [has |-> has, escaped |-> escaped].escaped = escaped
      OBVIOUS
    <3>2. frame'.escaped = escaped
      BY <2>1, <3>1, Zenon
    <3> QED BY <3>2, Zenon
  <2> QED BY <1>3, <2>2 DEF EditDocument, BreaksInv, HasTable
<1>4. ASSUME NEW t \in Templates, InsertInto(t) \/ TemplateFails(t) PROVE Goal
  BY <1>4 DEF InsertInto, TemplateFails, BreaksInv, HasTable
<1>5. ASSUME NEW t \in Templates, TemplateArrives(t) PROVE Goal
  <2>1. area'.form = area.form
    BY <1>5 DEF TemplateArrives, TypeOK, Text
  <2> QED BY <1>5, <2>1 DEF TemplateArrives, BreaksInv, HasTable
<1>6. CASE ToggleToWysiwyg
  <2>1. CASE Readable(area)
    BY <1>6, <2>1, <1>c DEF ToggleToWysiwyg, BreaksInv, HasTable
  <2>2. CASE ~Readable(area)
    BY <1>6, <2>2, <1>n DEF ToggleToWysiwyg, BreaksInv, HasTable
  <2> QED BY <2>1, <2>2
<1>7. CASE ToggleToTextarea
  BY <1>7, <1>c DEF ToggleToTextarea, LoadWikiText, ConversionThrows, BreaksInv, HasTable
<1>8. CASE SubmitArea
  BY <1>8 DEF SubmitArea, Post, BreaksInv
<1>9. CASE SubmitDocument
  BY <1>9, <1>c DEF SubmitDocument, Post, BreaksInv
<1>10. CASE SubmitStopped
  BY <1>10, <1>c DEF SubmitStopped, ConversionThrows, BreaksInv, HasTable
<1>11. CASE Leave
  BY <1>11 DEF Leave, BreaksInv
<1>12. CASE Stay
  BY <1>12, <1>c DEF Stay, BeforeUnload, LoadWikiText, ConversionThrows, BreaksInv, HasTable
<1>13. CASE UNCHANGED vars
  BY <1>13 DEF vars, BreaksInv, HasTable
<1> QED BY <1>1, <1>2, <1>3, <1>4, <1>5, <1>6, <1>7, <1>8, <1>9, <1>10, <1>11, <1>12, <1>13
        DEF Next

\* A page without the literal line break gets it only if rich text has shown a
\* table while the page was open, be the table still there or gone.
THEOREM BreaksComeFromTables == Spec => LiteralBreaksComeFromATable
<1>1. Init => BreaksInv
  BY DEF Init, BreaksInv
<1>2. TypeOK /\ BreaksInv /\ [Next]_vars => BreaksInv'
  BY BreaksStep
<1>3. TypeOK /\ BreaksInv /\ [Next]_vars =>
        [page'.form = "escaped" => page.form = "escaped" \/ tabled']_vars
  BY BreaksStep
<1> QED BY <1>1, <1>2, <1>3, TypeCorrect, PTL DEF Spec, LiteralBreaksComeFromATable

===============================================================================
